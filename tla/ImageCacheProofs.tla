-------------------------- MODULE ImageCacheProofs --------------------------
(***************************************************************************)
(* Proofs about ImageCache: what the signing policy refuses never gets     *)
(* into the cache or to a load, and an entry answers with one image while  *)
(* pulls of that image overlap, fail and die.  Both hold for any number of *)
(* pulls and images.                                                       *)
(***************************************************************************)
EXTENDS ImageCache, TLAPS

PullSteps == {"none", "exists", "load", "resolve", "verify", "fetch", "cache",
              "copy", "shared", "orphan", "validate", "save", "write", "unlinked"}

\* The steps after the verification.
PastVerify == {"fetch", "cache", "copy", "shared", "orphan",
               "validate", "save", "write", "unlinked"}

Answer == [digest: Accepted \cup {Missing}, object: Accepted \cup {Missing, Torn}]

PullRecord == [at: PullSteps, policy: Policies, digest: Digests \cup {Missing}]

PullType == pull \in [Pullers -> PullRecord]

\* From its verification on a pull works with an accepted digest, and it
\* answers with nothing else.
VerifiedPulls ==
    /\ result \in [Pullers -> Answer]
    /\ \A p \in Pullers :
          pull[p].at \in PastVerify => pull[p].digest \in Accepted

VerifiedEntry ==
    /\ tag \in Digests
    /\ object \in Accepted \cup {Missing, Torn}
    /\ metadata \in Accepted \cup {Missing, Torn}

PolicyInv == PullType /\ VerifiedPulls /\ VerifiedEntry

\* The policy accepts digests.
LEMMA AcceptedDigests == Accepted \subseteq Digests
  BY DEF Accepted

LEMMA PolicyInit == ImageInit => PolicyInv
  BY DEF ImageInit, PolicyInv, PullType, VerifiedPulls, VerifiedEntry, Answer, NoPull, Failed,
         Policies, PullRecord, PullSteps, PastVerify

\* A pull that returns keeps what is known of the pulls ...
LEMMA ReturnsVerified ==
  ASSUME PolicyInv, NEW p \in Pullers, NEW r \in Answer, PullReturns(p, r)
  PROVE  PullType' /\ VerifiedPulls'
  <1> USE DEF PolicyInv, PullType, VerifiedPulls, PullReturns
  <1>1. NoPull \in PullRecord
    BY DEF NoPull, PullRecord, PullSteps, Policies
  <1>2. NoPull.at = "none"
    BY DEF NoPull
  <1>3. PullType'
    BY <1>1
  <1>4. result' \in [Pullers -> Answer]
    OBVIOUS
  <1> QED BY <1>2, <1>3, <1>4 DEF PastVerify

\* ... and so does one that goes on, with an accepted digest where it must.
LEMMA GoesOnVerified ==
  ASSUME PolicyInv, NEW p \in Pullers, NEW at \in PullSteps, PullGoto(p, at), UNCHANGED result,
         at \in PastVerify => pull[p].digest \in Accepted
  PROVE  PullType' /\ VerifiedPulls'
  <1> USE DEF PolicyInv, PullType, VerifiedPulls, PullGoto
  <1>1. PullType'
    BY DEF PullRecord
  <1> QED BY <1>1 DEF PullRecord

\* So do steps that move other pulls on in their writing, or end them.
LEMMA MovedVerified ==
  ASSUME PolicyInv, pull' \in [Pullers -> PullRecord], result' \in [Pullers -> Answer],
         \A q \in Pullers :
             \/ pull'[q].at = "none"
             \/ /\ pull'[q].digest = pull[q].digest
                /\ pull'[q].at = pull[q].at \/ pull[q].at \in PastVerify
  PROVE  PullType' /\ VerifiedPulls'
  BY DEF PolicyInv, PullType, VerifiedPulls, PastVerify

\* Where a pull is may be changed, and a copy orphaned.
LEMMA MovedPull ==
  ASSUME PullType, NEW q \in Pullers, NEW at \in PullSteps
  PROVE  /\ [pull[q] EXCEPT !.at = at] \in PullRecord
         /\ [pull[q] EXCEPT !.at = at].at = at
         /\ [pull[q] EXCEPT !.at = at].digest = pull[q].digest
  BY DEF PullType, PullRecord

LEMMA OrphanedPull ==
  ASSUME PullType, NEW q \in Pullers
  PROVE  /\ CopyOrphaned(q) \in PullRecord
         /\ CopyOrphaned(q).digest = pull[q].digest
         /\ IF Copying(q) THEN CopyOrphaned(q).at = "orphan" ELSE CopyOrphaned(q) = pull[q]
  <1>1. CASE Copying(q)
    BY <1>1, MovedPull DEF CopyOrphaned, PullSteps
  <1>2. CASE ~Copying(q)
    BY <1>2 DEF CopyOrphaned, PullType
  <1> QED BY <1>1, <1>2

\* A step of a pull lets nothing in that was not accepted.
LEMMA PolicyStep ==
  ASSUME PolicyInv, NEW p \in Pullers, PullStep(p)
  PROVE  PolicyInv'
  <1> USE DEF cacheVars
  <1>0. Failed \in Answer
    BY DEF Failed, Answer
  <1>m. ASSUME CacheMiss(p) PROVE PullType' /\ VerifiedPulls'
    BY <1>0, <1>m, ReturnsVerified, GoesOnVerified DEF CacheMiss, PullSteps, PastVerify
  <1>1. CASE BytecodeExists(p)
    <2>1. PullType' /\ VerifiedPulls'
      BY <1>1, <1>m, GoesOnVerified DEF BytecodeExists, PullSteps, PastVerify
    <2> QED BY <1>1, <2>1 DEF BytecodeExists, PolicyInv, VerifiedEntry
  <1>2. CASE LoadMetadata(p)
    <2>1. metadata \notin {Missing, Torn} => [digest |-> metadata, object |-> object] \in Answer
      BY DEF Answer, PolicyInv, VerifiedEntry
    <2>2. PullType' /\ VerifiedPulls'
      BY <1>2, <1>m, <2>1, ReturnsVerified DEF LoadMetadata
    <2> QED BY <1>2, <2>2 DEF LoadMetadata, PolicyInv, VerifiedEntry
  <1>3. CASE Resolve(p)
    <2>1. PullType'
      BY <1>3 DEF Resolve, PolicyInv, PullType, PullRecord, VerifiedEntry, PullSteps
    <2>2. VerifiedPulls'
      BY <1>3, <2>1 DEF Resolve, PolicyInv, PullType, PullRecord, VerifiedPulls, PastVerify
    <2> QED BY <1>3, <2>1, <2>2 DEF Resolve, PolicyInv, VerifiedEntry
  <1>4. CASE Verify(p)
    <2>1. PullType' /\ VerifiedPulls'
      BY <1>0, <1>4, ReturnsVerified, GoesOnVerified DEF Verify, VerifyOf, PullSteps
    <2> QED BY <1>4, <2>1 DEF Verify, VerifyOf, PolicyInv, VerifiedEntry
  <1> DEFINE past == pull[p].at \in PastVerify
  <1>5. past => pull[p].digest \in Accepted
    BY DEF PolicyInv, VerifiedPulls
  <1> HIDE DEF past
  <1>6. CASE FetchAndExtract(p)
    <2>1. past
      BY <1>6 DEF FetchAndExtract, past, PastVerify, PastVerify
    <2>2. PullType' /\ VerifiedPulls'
      BY <1>0, <1>5, <1>6, <2>1, ReturnsVerified, GoesOnVerified DEF FetchAndExtract, PullSteps
    <2> QED BY <1>6, <2>2 DEF FetchAndExtract, PolicyInv, VerifiedEntry
  <1>t. PullType /\ result \in [Pullers -> Answer]
    BY DEF PolicyInv, VerifiedPulls
  <1>w. \A q \in Pullers : Copying(q) \/ pull[q].at = "write" => pull[q].at \in PastVerify
    BY DEF Copying, PastVerify
  <1>v. ASSUME NEW q \in Pullers, NEW at \in PullSteps, pull'[q] = [pull[q] EXCEPT !.at = at],
               pull[q].at \in PastVerify
        PROVE  /\ pull'[q] \in PullRecord
               /\ pull'[q].digest = pull[q].digest
               /\ pull'[q].at = pull[q].at \/ pull[q].at \in PastVerify
    BY <1>t, <1>v, MovedPull
  <1>o. \A q \in Pullers :
           /\ CopyOrphaned(q) \in PullRecord
           /\ CopyOrphaned(q).digest = pull[q].digest
           /\ CopyOrphaned(q).at = pull[q].at \/ pull[q].at \in PastVerify
    BY <1>t, <1>w, OrphanedPull
  <1>7. CASE CacheBytecode(p)
    <2>1. past
      BY <1>7 DEF CacheBytecode, past, PastVerify
    <2>2. ASSUME RenameBytecode(p) PROVE PullType' /\ VerifiedPulls'
      <3>1. /\ pull'[p] = [pull[p] EXCEPT !.at = "validate"]
            /\ \A q \in Pullers \ {p} : pull'[q] = CopyOrphaned(q)
            /\ pull' = [q \in Pullers |-> pull'[q]]
        BY <2>2 DEF RenameBytecode
      <3>2. ASSUME NEW q \in Pullers
            PROVE  /\ pull'[q] \in PullRecord
                   /\ pull'[q].digest = pull[q].digest
                   /\ pull'[q].at = pull[q].at \/ pull[q].at \in PastVerify
        <4>1. CASE q = p
          BY <1>v, <2>1, <3>1, <4>1 DEF past, PullSteps
        <4>2. CASE q # p
          BY <1>o, <3>1, <4>2
        <4> QED BY <4>1, <4>2
      <3>3. pull' \in [Pullers -> PullRecord]
        BY <3>1, <3>2
      <3>4. \A q \in Pullers :
               /\ pull'[q].digest = pull[q].digest
               /\ pull'[q].at = pull[q].at \/ pull[q].at \in PastVerify
        BY <3>2
      <3>5. result' \in [Pullers -> Answer]
        BY <1>t, <2>2 DEF RenameBytecode
      <3> QED BY <3>3, <3>4, <3>5, MovedVerified
    <2>3. ASSUME TruncateBytecode(p) PROVE PullType' /\ VerifiedPulls'
      <3> DEFINE at == IF \E q \in Pullers \ {p} : Copying(q) THEN "shared" ELSE "copy"
      <3>1. /\ \A q \in Pullers :
                  \/ pull'[q] = [pull[q] EXCEPT !.at = at] /\ (q = p \/ Copying(q))
                  \/ pull'[q] = pull[q]
            /\ pull' = [q \in Pullers |-> pull'[q]]
        BY <2>3 DEF TruncateBytecode
      <3>0. at \in PullSteps
        BY DEF PullSteps
      <3> HIDE DEF at
      <3>2. ASSUME NEW q \in Pullers
            PROVE  /\ pull'[q] \in PullRecord
                   /\ pull'[q].digest = pull[q].digest
                   /\ pull'[q].at = pull[q].at \/ pull[q].at \in PastVerify
        <4>1. CASE pull'[q] = [pull[q] EXCEPT !.at = at] /\ (q = p \/ Copying(q))
          BY <1>v, <1>w, <2>1, <3>0, <4>1 DEF past
        <4>2. CASE pull'[q] = pull[q]
          BY <1>t, <4>2 DEF PullType
        <4> QED BY <3>1, <4>1, <4>2
      <3>3. pull' \in [Pullers -> PullRecord]
        BY <3>1, <3>2
      <3>4. \A q \in Pullers :
               /\ pull'[q].digest = pull[q].digest
               /\ pull'[q].at = pull[q].at \/ pull[q].at \in PastVerify
        BY <3>2
      <3>5. result' \in [Pullers -> Answer]
        BY <1>t, <2>3 DEF TruncateBytecode
      <3> QED BY <3>3, <3>4, <3>5, MovedVerified
    <2>4. ASSUME PullReturns(p, Failed) PROVE PullType' /\ VerifiedPulls'
      BY <1>0, <2>4, ReturnsVerified
    <2>5. PullType' /\ VerifiedPulls'
      BY <1>7, <2>2, <2>3, <2>4 DEF CacheBytecode
    <2>6. object' \in {object, Torn, pull[p].digest} /\ UNCHANGED <<tag, metadata>>
      BY <1>7 DEF CacheBytecode, RenameBytecode, TruncateBytecode
    <2> QED BY <1>5, <2>1, <2>5, <2>6 DEF PolicyInv, VerifiedEntry
  <1>c. CASE CopyFile(p)
    <2>1. past
      BY <1>c DEF CopyFile, Copying, past, PastVerify
    <2>2. PullType' /\ VerifiedPulls'
      BY <1>0, <1>5, <1>c, <2>1, ReturnsVerified, GoesOnVerified DEF CopyFile, PullSteps
    <2>3. object' \in {object, Torn, pull[p].digest} /\ UNCHANGED <<tag, metadata>>
      BY <1>c DEF CopyFile, HalfCopied, Copying
    <2> QED BY <1>5, <2>1, <2>2, <2>3 DEF PolicyInv, VerifiedEntry
  <1>8. CASE ValidateELF(p)
    <2>1. past
      BY <1>8 DEF ValidateELF, past, PastVerify
    <2>2. CASE RemoveCacheEntry(p)
      <3>1. PICK gone \in SUBSET {"object", "metadata", "dir"} :
                /\ object' = IF "object" \in gone THEN Missing ELSE object
                /\ metadata' = IF "metadata" \in gone THEN Missing ELSE metadata
                /\ pull' = [q \in Pullers |->
                       IF q = p THEN NoPull
                       ELSE IF pull[q].at = "write" /\ "metadata" \in gone
                            THEN [pull[q] EXCEPT !.at = "unlinked"]
                       ELSE IF "object" \in gone THEN CopyOrphaned(q) ELSE pull[q]]
                /\ result' = [result EXCEPT ![p] = Failed]
        BY <2>2 DEF RemoveCacheEntry
      <3>2. NoPull \in PullRecord /\ NoPull.at = "none"
        BY DEF NoPull, PullRecord, PullSteps, Policies
      <3>3. \A q \in Pullers :
               \/ pull'[q] = NoPull
               \/ pull'[q] = [pull[q] EXCEPT !.at = "unlinked"] /\ pull[q].at = "write"
               \/ pull'[q] = CopyOrphaned(q)
               \/ pull'[q] = pull[q]
        <4> SUFFICES ASSUME NEW q \in Pullers
                     PROVE  \/ pull'[q] = NoPull
                            \/ pull'[q] = [pull[q] EXCEPT !.at = "unlinked"] /\ pull[q].at = "write"
                            \/ pull'[q] = CopyOrphaned(q)
                            \/ pull'[q] = pull[q]
          OBVIOUS
        <4> QED BY <3>1, Zenon
      <3>4. ASSUME NEW q \in Pullers
            PROVE  /\ pull'[q] \in PullRecord
                   /\ \/ pull'[q].at = "none"
                      \/ /\ pull'[q].digest = pull[q].digest
                         /\ pull'[q].at = pull[q].at \/ pull[q].at \in PastVerify
        <4>1. CASE pull'[q] = [pull[q] EXCEPT !.at = "unlinked"] /\ pull[q].at = "write"
          BY <1>v, <1>w, <4>1 DEF PullSteps
        <4>2. CASE pull'[q] = pull[q]
          BY <1>t, <4>2 DEF PullType
        <4> QED BY <1>o, <3>2, <3>3, <4>1, <4>2
      <3>5. pull' \in [Pullers -> PullRecord]
        BY <3>1, <3>4
      <3>6. \A q \in Pullers :
               \/ pull'[q].at = "none"
               \/ /\ pull'[q].digest = pull[q].digest
                  /\ pull'[q].at = pull[q].at \/ pull[q].at \in PastVerify
        BY <3>4
      <3>7. result' \in [Pullers -> Answer]
        BY <1>0, <1>t, <3>1
      <3>8. PullType' /\ VerifiedPulls'
        BY <3>5, <3>6, <3>7, MovedVerified
      <3> QED BY <1>8, <3>1, <3>8 DEF ValidateELF, PolicyInv, VerifiedEntry
    <2>3. CASE PullGoto(p, "save") /\ UNCHANGED <<cacheVars, result>>
      <3>1. PullType' /\ VerifiedPulls'
        BY <1>5, <2>1, <2>3, GoesOnVerified DEF PullSteps
      <3> QED BY <1>8, <2>3, <3>1 DEF ValidateELF, PolicyInv, VerifiedEntry
    <2> QED BY <1>8, <2>2, <2>3 DEF ValidateELF
  <1>9. CASE TruncateMetadata(p)
    <2>1. past
      BY <1>9 DEF TruncateMetadata, past, PastVerify, PastVerify
    <2>2. PullType' /\ VerifiedPulls'
      BY <1>0, <1>5, <1>9, <2>1, ReturnsVerified, GoesOnVerified DEF TruncateMetadata, PullSteps
    <2> QED BY <1>9, <2>2 DEF TruncateMetadata, PolicyInv, VerifiedEntry
  <1>10. CASE SaveMetadata(p)
    <2>1. past
      BY <1>10 DEF SaveMetadata, past, PastVerify, PastVerify
    <2>2. [digest |-> pull[p].digest, object |-> object] \in Answer
      BY <1>5, <2>1 DEF Answer, PolicyInv, VerifiedEntry
    <2>3. PullType' /\ VerifiedPulls'
      BY <1>0, <1>10, <2>2, ReturnsVerified DEF SaveMetadata
    <2> QED BY <1>5, <1>10, <2>1, <2>3 DEF SaveMetadata, PolicyInv, VerifiedEntry
  <1> QED
    BY <1>1, <1>2, <1>3, <1>4, <1>6, <1>7, <1>c, <1>8, <1>9, <1>10 DEF PullStep

LEMMA PolicyNext == PolicyInv /\ [ImageNext]_imageVars => PolicyInv'
  <1> SUFFICES ASSUME PolicyInv, [ImageNext]_imageVars PROVE PolicyInv'
    OBVIOUS
  <1> USE DEF PolicyInv, PullType, VerifiedPulls, VerifiedEntry, cacheVars
  <1>1. ASSUME NEW p \in Pullers, NEW policy \in Policies, PullImage(p, policy) PROVE PolicyInv'
    <2>1. Failed \in Answer
      BY DEF Failed, Answer
    <2>2. PullType'
      BY <1>1 DEF PullImage, NoPull, PullRecord, PullSteps, Policies
    <2>3. result' \in [Pullers -> Answer]
      BY <1>1, <2>1 DEF PullImage
    <2>4. \A q \in Pullers \ {p} : pull'[q] = pull[q]
      BY <1>1 DEF PullImage
    <2>5. pull'[p].at \in {"resolve", "exists"}
      BY <1>1 DEF PullImage, NoPull
    <2>6. VerifiedPulls'
      BY <2>3, <2>4, <2>5 DEF PastVerify
    <2> QED BY <1>1, <2>2, <2>6 DEF PullImage
  <1>2. ASSUME NEW p \in Pullers, PullStep(p) PROVE PolicyInv'
    BY <1>2, PolicyStep
  <1>3. ASSUME NEW p \in Pullers, KillPull(p) PROVE PolicyInv'
    <2>1. NoPull \in PullRecord
      BY DEF NoPull, PullRecord, PullSteps, Policies
    <2>2. PullType'
      BY <1>3, <2>1 DEF KillPull
    <2>3. NoPull.at = "none"
      BY DEF NoPull
    <2>4. VerifiedPulls'
      BY <1>3, <2>2, <2>3 DEF KillPull, PastVerify
    <2> QED BY <1>3, <2>2, <2>4 DEF KillPull, HalfCopied
  <1>4. ASSUME NEW d \in Digests, MoveTag(d) PROVE PolicyInv'
    BY <1>4 DEF MoveTag
  <1>5. CASE UNCHANGED imageVars
    BY <1>5 DEF imageVars
  <1> QED
    BY <1>1, <1>2, <1>3, <1>4, <1>5 DEF ImageNext

\* No object the policy refuses is cached or handed to a load, and none is
\* reported, whichever pulls overlap, wherever the tag moves between a pull's
\* resolve, verification and fetch, and whatever fails or dies.
THEOREM PolicyKept == ImageSpec => []OnlyAcceptedServed
  <1>1. PolicyInv => OnlyAcceptedServed
    BY DEF PolicyInv, VerifiedPulls, VerifiedEntry, Answer, OnlyAcceptedServed
  <1> QED BY <1>1, PolicyInit, PolicyNext, PTL DEF ImageSpec

-----------------------------------------------------------------------------
\* What an entry holds while pull p is between its two writes: its own
\* object, which is only removed by a pull of the same image when it is no
\* ELF object, and a copy has the entry to itself.
HalfWritten(p) ==
    /\ pull[p].at \in {"copy", "validate", "save", "write"}
    /\ pull[p].at = "copy" => object = Torn /\ \A q \in Pullers : Writing(q) => q = p
    /\ pull[p].at # "copy" =>
          object = pull[p].digest \/ (object = Missing /\ pull[p].digest \notin ELFs)
    /\ pull[p].at \in {"save", "write"} => pull[p].digest \in ELFs
    /\ pull[p].at = "write" => metadata \in {Torn, pull[p].digest}

\* As long as no pulls crossed, those that write are of one image, and the
\* entry answers with one image whenever none does.
EntryInv ==
    ~crossed =>
        /\ \A p, q \in Pullers : Writing(p) /\ Writing(q) => pull[p].digest = pull[q].digest
        /\ \A p \in Pullers : Writing(p) => HalfWritten(p)
        /\ (\A p \in Pullers : ~Writing(p)) =>
              object = Missing \/ metadata \in {Missing, Torn, object}

LEMMA EntryInitially == ImageInit => EntryInv
  BY DEF ImageInit, EntryInv, Writing, NoPull

\* Neither mark of a file is the digest of an image, so neither is an object
\* that validateELF accepts.
LEMMA MarksApart == Missing \notin ELFs /\ Torn \notin ELFs /\ Missing # Torn
  BY DigestAssumption DEF ELFs, Missing, Torn

\* A step of p that leaves the entry alone and does not take p into or out
\* of its writes keeps the invariant.
LEMMA EntryApart ==
  ASSUME PullType, EntryInv, NEW p \in Pullers, ~Writing(p), UNCHANGED <<object, metadata, crossed>>,
         \A q \in Pullers \ {p} : pull'[q] = pull[q],
         ~Writing(p)'
  PROVE  EntryInv'
  BY DEF EntryInv, Writing, HalfWritten

\* A pull that ends half-way leaves the entry to the others that write it,
\* and the object that goes with its metadata if there are none.
LEMMA EntryLeft ==
  ASSUME EntryInv, NEW p \in Pullers, Writing(p), CutShort(p),
         \A q \in Pullers \ {p} : pull'[q] = pull[q], pull'[p].at = "none",
         object' \in HalfCopied(p), metadata' \in {metadata, Torn}
  PROVE  EntryInv'
  <1> SUFFICES ASSUME ~crossed' PROVE EntryInv'
    BY DEF EntryInv
  <1>1. ~crossed /\ HalfWritten(p)
    BY DEF CutShort, EntryInv
  <1>2. object' = object
    BY <1>1 DEF HalfWritten, HalfCopied
  <1>3. \A q \in Pullers : Writing(q)' => q # p /\ Writing(q)
    BY DEF Writing
  <1>4. \A q \in Pullers : Writing(q)' => HalfWritten(q)'
    <2> SUFFICES ASSUME NEW q \in Pullers, Writing(q)' PROVE HalfWritten(q)'
      OBVIOUS
    <2>1. q # p /\ Writing(q) /\ pull'[q] = pull[q] /\ HalfWritten(q)
      BY <1>1, <1>3 DEF EntryInv
    <2>2. pull[q].at # "copy"
      BY <2>1 DEF HalfWritten
    <2> QED BY <1>2, <2>1, <2>2 DEF HalfWritten
  <1>5. metadata \in {Missing, Torn} \/ (pull[p].at # "copy" /\ metadata = pull[p].digest)
    BY DEF CutShort, Copying
  <1>6. object = Missing \/ metadata \in {Missing, Torn, object}
    BY <1>1, <1>5 DEF HalfWritten
  <1> QED BY <1>1, <1>2, <1>3, <1>4, <1>6 DEF EntryInv

LEMMA EntryNext == PolicyInv /\ EntryInv /\ [ImageNext]_imageVars => EntryInv'
  <1> SUFFICES ASSUME PullType, VerifiedPulls, EntryInv, [ImageNext]_imageVars PROVE EntryInv'
    BY DEF PolicyInv
  <1> USE DEF cacheVars
  <1>n. NoPull.at = "none"
    BY DEF NoPull
  <1>r. ASSUME NEW p \in Pullers, NEW r, PullReturns(p, r)
        PROVE  /\ \A q \in Pullers \ {p} : pull'[q] = pull[q]
               /\ pull'[p].at = "none"
    BY <1>n, <1>r DEF PullReturns, PullType
  <1>g. ASSUME NEW p \in Pullers, NEW at, PullGoto(p, at)
        PROVE  /\ \A q \in Pullers \ {p} : pull'[q] = pull[q]
               /\ pull'[p].at = at /\ pull'[p].digest = pull[p].digest
    BY <1>g DEF PullGoto, PullType, PullRecord
  <1>1. ASSUME NEW p \in Pullers, NEW policy \in Policies, PullImage(p, policy) PROVE EntryInv'
    <2>1. pull'[p].at \in {"resolve", "exists"} /\ \A q \in Pullers \ {p} : pull'[q] = pull[q]
      BY <1>1 DEF PullImage, PullType, NoPull
    <2> QED BY <1>1, <1>n, <2>1, EntryApart DEF PullImage, Writing
  <1>2. ASSUME NEW p \in Pullers,
               BytecodeExists(p) \/ LoadMetadata(p) \/ Verify(p) \/ FetchAndExtract(p)
        PROVE  EntryInv'
    <2>1. ~Writing(p) /\ UNCHANGED <<object, metadata, crossed>>
      BY <1>2 DEF BytecodeExists, LoadMetadata, Verify, VerifyOf, FetchAndExtract, Writing
    <2>2. \/ PullGoto(p, "load") \/ PullGoto(p, "resolve") \/ PullGoto(p, "fetch") \/ PullGoto(p, "cache")
          \/ \E r : PullReturns(p, r)
      BY <1>2 DEF BytecodeExists, LoadMetadata, Verify, VerifyOf, FetchAndExtract, CacheMiss
    <2>3. /\ \A q \in Pullers \ {p} : pull'[q] = pull[q]
          /\ pull'[p].at \in {"none", "load", "resolve", "fetch", "cache"}
      BY <1>g, <1>r, <2>2
    <2> QED BY <2>1, <2>3, EntryApart DEF Writing
  <1>3. ASSUME NEW p \in Pullers, Resolve(p) PROVE EntryInv'
    <2>1. pull'[p].at = "verify" /\ \A q \in Pullers \ {p} : pull'[q] = pull[q]
      BY <1>3 DEF Resolve, PullType, PullRecord
    <2> QED BY <1>3, <2>1, EntryApart DEF Resolve, Writing
  <1>4. ASSUME NEW p \in Pullers, CacheBytecode(p) PROVE EntryInv'
    <2>0. pull[p].at = "cache" /\ ~Writing(p) /\ UNCHANGED metadata
      BY <1>4 DEF CacheBytecode, Writing
    <2>1. CASE PullReturns(p, Failed) /\ UNCHANGED <<object, crossed>>
      BY <1>r, <2>0, <2>1, EntryApart DEF Writing
    <2>2. CASE RenameBytecode(p)
      <3> SUFFICES ASSUME ~crossed' PROVE EntryInv'
        BY DEF EntryInv
      <3>1. \A q \in Pullers \ {p} :
               Writing(q) => ~crossed /\ ~Copying(q) /\ pull[q].digest = pull[p].digest
        BY <2>2 DEF RenameBytecode, StartsWriting
      <3>2. \A q \in Pullers \ {p} : pull'[q] = pull[q]
        BY <2>2, <3>1 DEF RenameBytecode, CopyOrphaned, Copying, Writing
      <3>3. pull'[p].at = "validate" /\ pull'[p].digest = pull[p].digest
        BY <2>2 DEF RenameBytecode, PullType, PullRecord
      <3>4. object' = pull[p].digest
        BY <2>2 DEF RenameBytecode
      <3>5. \A q \in Pullers \ {p} : Writing(q)' => Writing(q) /\ HalfWritten(q) /\ pull[q].at # "copy"
        BY <3>1, <3>2 DEF EntryInv, Writing, Copying
      <3>6. \A q \in Pullers \ {p} : Writing(q)' => HalfWritten(q)' /\ pull'[q].digest = pull[p].digest
        BY <2>0, <3>1, <3>2, <3>4, <3>5 DEF HalfWritten
      <3>7. Writing(p)' /\ HalfWritten(p)'
        BY <3>3, <3>4 DEF Writing, HalfWritten
      <3> QED BY <3>3, <3>6, <3>7 DEF EntryInv
    <2>3. CASE TruncateBytecode(p)
      <3> SUFFICES ASSUME ~crossed' PROVE EntryInv'
        BY DEF EntryInv
      <3>1. \A q \in Pullers \ {p} : ~Writing(q)
        BY <2>3 DEF TruncateBytecode, StartsWriting
      <3>2. \A q \in Pullers \ {p} : ~Copying(q)
        BY <3>1 DEF Copying, Writing
      <3>3. \A q \in Pullers \ {p} : pull'[q] = pull[q]
        BY <2>3, <3>2 DEF TruncateBytecode
      <3>4. pull'[p] = [pull[p] EXCEPT !.at = "copy"]
        BY <2>3, <3>2 DEF TruncateBytecode
      <3>5. pull'[p].at = "copy" /\ object' = Torn
        BY <2>3, <3>4 DEF TruncateBytecode, PullType, PullRecord
      <3>6. \A q \in Pullers \ {p} : ~Writing(q)'
        BY <3>1, <3>3 DEF Writing
      <3>7. Writing(p)' /\ HalfWritten(p)'
        BY <3>5, <3>6 DEF Writing, HalfWritten
      <3> QED BY <3>6, <3>7 DEF EntryInv
    <2> QED BY <1>4, <2>1, <2>2, <2>3 DEF CacheBytecode
  <1>c. ASSUME NEW p \in Pullers, CopyFile(p) PROVE EntryInv'
    <2>0. Writing(p) /\ UNCHANGED metadata
      BY <1>c DEF CopyFile, Copying, Writing
    <2>1. CASE CutShort(p) /\ PullReturns(p, Failed) /\ object' \in HalfCopied(p)
      BY <1>r, <2>0, <2>1, EntryLeft
    <2>2. CASE /\ object' \in CASE pull[p].at = "copy"   -> {pull[p].digest}
                               [] pull[p].at = "shared" -> {pull[p].digest, Torn}
                               [] OTHER                 -> {object}
               /\ PullGoto(p, "validate") /\ UNCHANGED crossed
      <3> SUFFICES ASSUME ~crossed PROVE EntryInv'
        BY <2>2 DEF EntryInv
      <3>1. HalfWritten(p)
        BY <2>0 DEF EntryInv
      <3>2. pull[p].at = "copy" /\ \A q \in Pullers : Writing(q) => q = p
        BY <1>c, <3>1 DEF HalfWritten, CopyFile, Copying
      <3>3. object' = pull[p].digest
        BY <2>2, <3>2
      <3>4. /\ \A q \in Pullers \ {p} : ~Writing(q)'
            /\ pull'[p].at = "validate" /\ pull'[p].digest = pull[p].digest
        BY <1>g, <2>2, <3>2 DEF Writing
      <3>5. Writing(p)' /\ HalfWritten(p)'
        BY <3>3, <3>4 DEF Writing, HalfWritten
      <3> QED BY <3>4, <3>5 DEF EntryInv
    <2> QED BY <1>c, <2>1, <2>2 DEF CopyFile
  <1>5. ASSUME NEW p \in Pullers, ValidateELF(p) PROVE EntryInv'
    <2>1. Writing(p) /\ pull[p].at = "validate"
      BY <1>5 DEF ValidateELF, Writing
    <2>2. CASE PullGoto(p, "save") /\ object \in ELFs \cup {Torn} /\ UNCHANGED <<cacheVars, crossed>>
      <3> SUFFICES ASSUME ~crossed PROVE EntryInv'
        BY <2>2 DEF EntryInv
      <3>1. \A q \in Pullers : Writing(q) => HalfWritten(q) /\ pull[q].digest = pull[p].digest
        BY <2>1 DEF EntryInv
      <3>2. /\ \A q \in Pullers \ {p} : pull'[q] = pull[q]
            /\ pull'[p].at = "save" /\ pull'[p].digest = pull[p].digest
        BY <1>g, <2>2
      <3>3. pull[p].digest # Torn
        <4>1. pull[p].digest \in Accepted
          BY <2>1 DEF VerifiedPulls, PastVerify
        <4> QED BY <4>1, AcceptedDigests, DigestAssumption
      <3>4. object = pull[p].digest /\ pull[p].digest \in ELFs
        BY <2>1, <2>2, <3>1, <3>3, MarksApart DEF HalfWritten
      <3>5. Writing(p)' /\ HalfWritten(p)'
        BY <2>2, <3>2, <3>4 DEF Writing, HalfWritten
      <3>6. \A q \in Pullers \ {p} : Writing(q)' => HalfWritten(q)' /\ pull'[q].digest = pull[p].digest
        <4> SUFFICES ASSUME NEW q \in Pullers \ {p}, Writing(q)'
                     PROVE  HalfWritten(q)' /\ pull'[q].digest = pull[p].digest
          OBVIOUS
        <4>1. Writing(q) /\ pull'[q] = pull[q]
          BY <3>2 DEF Writing
        <4>2. pull[q].at # "copy"
          BY <2>1, <3>1, <4>1 DEF HalfWritten
        <4> QED BY <2>2, <3>1, <4>1, <4>2 DEF HalfWritten
      <3> QED BY <3>2, <3>5, <3>6 DEF EntryInv
    <2>3. CASE object \notin ELFs /\ RemoveCacheEntry(p)
      <3> SUFFICES ASSUME ~crossed' PROVE EntryInv'
        BY DEF EntryInv
      <3>1. PICK gone \in SUBSET {"object", "metadata", "dir"} :
                /\ \/ gone = {"object", "metadata", "dir"} /\ UNCHANGED crossed
                   \/ CutShort(p)
                /\ object' = IF "object" \in gone THEN Missing ELSE object
                /\ metadata' = IF "metadata" \in gone THEN Missing ELSE metadata
                /\ pull' = [q \in Pullers |->
                       IF q = p THEN NoPull
                       ELSE IF pull[q].at = "write" /\ "metadata" \in gone
                            THEN [pull[q] EXCEPT !.at = "unlinked"]
                       ELSE IF "object" \in gone THEN CopyOrphaned(q) ELSE pull[q]]
        BY <2>3 DEF RemoveCacheEntry
      <3>2. ~crossed
        BY <3>1 DEF CutShort
      <3>3. \A q \in Pullers : Writing(q) => HalfWritten(q) /\ pull[q].digest = pull[p].digest
        BY <2>1, <3>2 DEF EntryInv
      <3>4. pull[p].digest \notin ELFs /\ object \in {pull[p].digest, Missing}
        BY <2>1, <2>3, <3>3 DEF HalfWritten
      <3>5. \A q \in Pullers \ {p} : Writing(q) => pull[q].at = "validate"
        BY <2>1, <3>3, <3>4 DEF HalfWritten
      <3>6. \A q \in Pullers \ {p} : pull'[q] = pull[q]
        BY <3>1, <3>5 DEF CopyOrphaned, Copying, Writing
      <3>7. ~Writing(p)'
        BY <1>n, <3>1 DEF Writing
      <3>8. object' \in {pull[p].digest, Missing}
        BY <3>1, <3>4
      <3>9. \A q \in Pullers : Writing(q)' =>
                q # p /\ HalfWritten(q)' /\ pull'[q].digest = pull[p].digest
        <4> SUFFICES ASSUME NEW q \in Pullers, Writing(q)'
                     PROVE  q # p /\ HalfWritten(q)' /\ pull'[q].digest = pull[p].digest
          OBVIOUS
        <4>1. q # p /\ pull'[q] = pull[q] /\ Writing(q)
          BY <3>6, <3>7 DEF Writing
        <4>2. pull'[q].at = "validate" /\ pull'[q].digest = pull[p].digest
          BY <3>3, <3>5, <4>1
        <4> QED BY <3>4, <3>8, <4>1, <4>2 DEF HalfWritten
      <3>10. object' = Missing \/ metadata' \in {Missing, Torn, object'}
        BY <2>1, <3>1, <3>4 DEF CutShort, Writing, Copying
      <3> QED BY <3>9, <3>10 DEF EntryInv
    <2> QED BY <1>5, <2>2, <2>3 DEF ValidateELF
  <1>6. ASSUME NEW p \in Pullers, TruncateMetadata(p) PROVE EntryInv'
    <2>1. Writing(p) /\ pull[p].at = "save" /\ UNCHANGED object
      BY <1>6 DEF TruncateMetadata, Writing
    <2>2. CASE PullReturns(p, Failed) /\ CutShort(p) /\ UNCHANGED metadata
      BY <1>r, <2>1, <2>2, EntryLeft DEF HalfCopied
    <2>3. CASE PullGoto(p, "write") /\ metadata' = Torn /\ UNCHANGED crossed
      <3> SUFFICES ASSUME ~crossed PROVE EntryInv'
        BY <2>3 DEF EntryInv
      <3>1. /\ \A q \in Pullers \ {p} : pull'[q] = pull[q]
            /\ pull'[p].at = "write" /\ pull'[p].digest = pull[p].digest
        BY <1>g, <2>3
      <3>2. \A q \in Pullers : Writing(q) => HalfWritten(q) /\ pull[q].digest = pull[p].digest
        BY <2>1 DEF EntryInv
      <3>3. Writing(p)' /\ HalfWritten(p)'
        BY <2>1, <2>3, <3>1, <3>2 DEF Writing, HalfWritten
      <3>4. \A q \in Pullers \ {p} : Writing(q)' => HalfWritten(q)' /\ pull'[q].digest = pull[p].digest
        <4> SUFFICES ASSUME NEW q \in Pullers \ {p}, Writing(q)'
                     PROVE  HalfWritten(q)' /\ pull'[q].digest = pull[p].digest
          OBVIOUS
        <4>1. Writing(q) /\ pull'[q] = pull[q]
          BY <3>1 DEF Writing
        <4>2. pull[q].at # "copy"
          BY <2>1, <3>2, <4>1 DEF HalfWritten
        <4> QED BY <2>1, <2>3, <3>2, <4>1, <4>2 DEF HalfWritten
      <3> QED BY <3>1, <3>3, <3>4 DEF EntryInv
    <2> QED BY <1>6, <2>2, <2>3 DEF TruncateMetadata
  <1>7. ASSUME NEW p \in Pullers, SaveMetadata(p) PROVE EntryInv'
    <2>1. Writing(p) /\ UNCHANGED object
      BY <1>7 DEF SaveMetadata, Writing
    <2>2. CASE PullReturns(p, Failed) /\ CutShort(p) /\ metadata' \in {metadata, Torn}
      BY <1>7, <1>r, <2>1, <2>2, EntryLeft DEF HalfCopied, SaveMetadata
    <2>3. CASE /\ metadata' \in IF pull[p].at # "write" THEN {metadata}
                                ELSE IF metadata = Torn THEN {pull[p].digest}
                                ELSE {pull[p].digest, Torn}
               /\ \E r : PullReturns(p, r)
               /\ UNCHANGED crossed
      <3> SUFFICES ASSUME ~crossed PROVE EntryInv'
        BY <2>3 DEF EntryInv
      <3>1. \A q \in Pullers : Writing(q) => HalfWritten(q) /\ pull[q].digest = pull[p].digest
        BY <2>1 DEF EntryInv
      <3>2. pull[p].at = "write" /\ object = pull[p].digest
        BY <1>7, <2>1, <3>1 DEF SaveMetadata, HalfWritten
      <3>3. metadata' \in {pull[p].digest, Torn}
        BY <2>3, <3>2
      <3>4. pull'[p].at = "none" /\ \A q \in Pullers \ {p} : pull'[q] = pull[q]
        BY <1>r, <2>3
      <3>5. \A q \in Pullers : Writing(q)' =>
                q # p /\ HalfWritten(q)' /\ pull'[q].digest = pull[p].digest
        <4> SUFFICES ASSUME NEW q \in Pullers, Writing(q)'
                     PROVE  q # p /\ HalfWritten(q)' /\ pull'[q].digest = pull[p].digest
          OBVIOUS
        <4>1. q # p /\ pull'[q] = pull[q] /\ Writing(q)
          BY <3>4 DEF Writing
        <4>2. pull[q].at # "copy"
          BY <2>1, <3>1, <4>1 DEF HalfWritten
        <4> QED BY <2>1, <3>1, <3>3, <4>1, <4>2 DEF HalfWritten
      <3> QED BY <2>1, <3>2, <3>3, <3>5 DEF EntryInv
    <2>4. \/ PullReturns(p, Failed) /\ CutShort(p) /\ metadata' \in {metadata, Torn}
          \/ /\ metadata' \in IF pull[p].at # "write" THEN {metadata}
                               ELSE IF metadata = Torn THEN {pull[p].digest}
                               ELSE {pull[p].digest, Torn}
             /\ \E r : PullReturns(p, r)
             /\ UNCHANGED crossed
      BY <1>7 DEF SaveMetadata
    <2> QED BY <2>2, <2>3, <2>4
  <1>8. ASSUME NEW p \in Pullers, KillPull(p) PROVE EntryInv'
    <2>1. /\ pull'[p].at = "none" /\ \A q \in Pullers \ {p} : pull'[q] = pull[q]
          /\ CutShort(p) /\ object' \in HalfCopied(p) /\ UNCHANGED metadata
      BY <1>8, <1>n DEF KillPull, PullType
    <2>2. CASE Writing(p)
      BY <2>1, <2>2, EntryLeft
    <2>3. CASE ~Writing(p)
      <3>1. UNCHANGED object /\ (crossed' <=> crossed)
        BY <2>1, <2>3 DEF HalfCopied, CutShort, Writing
      <3> QED BY <2>1, <2>3, <3>1 DEF EntryInv, Writing, HalfWritten
    <2> QED BY <2>2, <2>3
  <1>9. ASSUME NEW d \in Digests, MoveTag(d) PROVE EntryInv'
    BY <1>9 DEF MoveTag, EntryInv, Writing, HalfWritten
  <1>10. CASE UNCHANGED imageVars
    BY <1>10 DEF imageVars, EntryInv, Writing, HalfWritten
  <1> QED
    BY <1>1, <1>2, <1>3, <1>4, <1>c, <1>5, <1>6, <1>7, <1>8, <1>9, <1>10 DEF ImageNext, PullStep

\* An entry that answers has the object its metadata was written for whenever
\* no pull is writing, over overlapping, failing and dying pulls of one image,
\* tags that move and entries others spoilt before: it takes pulls of two
\* images at once, a copy beside another pull, or a pull that ended half-way
\* under another image's metadata, since the last pull that was alone.
THEOREM EntryOfOneImage == ImageSpec => []EntryMatches
  <1>1. EntryInv => EntryMatches
    BY DEF EntryInv, EntryMatches
  <1> QED BY <1>1, PolicyInit, PolicyNext, EntryInitially, EntryNext, PTL DEF ImageSpec
=============================================================================
