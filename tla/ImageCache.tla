----------------------------- MODULE ImageCache -----------------------------
(***************************************************************************)
(* Pulling a bytecode image (platform/image/oci) into the image cache      *)
(* (fs/image_cache.go): one image reference, several pulls at once.        *)
(*                                                                         *)
(* No lock covers a pull.  The tag moves in the registry, calls fail, the  *)
(* process dies between any two steps, and an entry is two files written   *)
(* one after the other, the first by a rename or, where that fails, by a   *)
(* copy in place.                                                          *)
(***************************************************************************)
EXTENDS Naturals, Sequences, FiniteSets

CONSTANTS
    Digests,        \* the images the tag has pointed to
    ImageOf,        \* what the registry has under each digest
    HostArch,       \* the architecture of the node
    ShouldVerify,   \* signing configuration: verify signatures at all,
    AllowUnsigned,  \* and let images without one pass
    Pullers,        \* pulls in progress at a time
    ImageFaults     \* the failures that may happen

\* An image: the architectures of its index ({} for a plain manifest), its
\* signature, and the files of its first layer with how they are wrapped.
Files == {"bpf", "elf", "text"}
Wraps == {"none", "gzip", "tar", "targz"}
Image == [archs: SUBSET STRING, signature: {"none", "trusted", "other"},
          wrap: Wraps, files: Seq(Files)]

ASSUME ImageAssumption == \A d \in Digests : ImageOf[d] \in Image
ASSUME PolicyAssumption == {ShouldVerify, AllowUnsigned} \subseteq BOOLEAN
ASSUME ImageFaultsAssumption ==
    ImageFaults \subseteq {"fetch", "rename", "copy", "remove", "save", "kill"}

VARIABLES
    tag,        \* registry: the digest the reference resolves to
    entryDir,   \* cache: whether the entry's directory exists
    object,     \* cache: whose bytecode.o is there
    metadata,   \* cache: whose metadata.json is there
    pull,       \* the pulls in progress
    result,     \* the last answer of each pull
    crossed     \* history: pulls of two images, or an unfinished copy, left the entry

imageVars == <<tag, entryDir, object, metadata, pull, result, crossed>>
cacheVars == <<entryDir, object, metadata>>

Missing == "missing"   \* no such file
Torn    == "torn"      \* truncated, or not written by one pull to its end
Policies == {"Always", "IfNotPresent", "Never"}

ASSUME DigestAssumption == {Missing, Torn} \cap Digests = {}

NoPull == [at |-> "none", policy |-> "Never", digest |-> Missing]
Failed == [digest |-> Missing, object |-> Missing]

-----------------------------------------------------------------------------
(***************************************************************************)
(* What a pull makes of an image                                           *)
(***************************************************************************)
IsELFFile(f) == f \in {"bpf", "elf"}

\* The first file of an archive that is an ELF object; others are skipped.
ExtractFromTarReader(files) ==
    LET elfs == SelectSeq(files, IsELFFile)
    IN  IF elfs = <<>> THEN Missing ELSE Head(elfs)

\* A file by itself, decompressed or not.
ExtractELF(files) ==
    IF Len(files) = 1 /\ IsELFFile(files[1]) THEN files[1] ELSE Missing

\* extractBytecode goes by the layer's magic numbers.
ExtractBytecode(d) ==
    IF ImageOf[d].wrap \in {"tar", "targz"}
    THEN ExtractFromTarReader(ImageOf[d].files)
    ELSE ExtractELF(ImageOf[d].files)

\* Only what validateELF accepts can be loaded: a relocatable BPF object of
\* the node's byte order.
ELFs == {d \in Digests : ExtractBytecode(d) = "bpf"}

\* selectPlatform: an index must have the node's architecture.
SelectPlatform(d) == ImageOf[d].archs = {} \/ HostArch \in ImageOf[d].archs

\* The verifier of the signing configuration.
Accepted ==
    {d \in Digests : \/ ~ShouldVerify
                     \/ ImageOf[d].signature = "trusted"
                     \/ ImageOf[d].signature = "none" /\ AllowUnsigned}

-----------------------------------------------------------------------------
(***************************************************************************)
(* The steps of a pull                                                     *)
(***************************************************************************)
ImageInit ==
    /\ tag \in Digests
    /\ entryDir = FALSE /\ object = Missing /\ metadata = Missing
    /\ pull = [p \in Pullers |-> NoPull]
    /\ result = [p \in Pullers |-> Failed]
    /\ crossed = FALSE

PullGoto(p, at) == pull' = [pull EXCEPT ![p].at = at]

PullReturns(p, r) ==
    /\ pull' = [pull EXCEPT ![p] = NoPull]
    /\ result' = [result EXCEPT ![p] = r]

\* A copy has the entry's file to itself, shares it with another copy, or is
\* an orphan: its file was replaced or removed.
Copying(p) == pull[p].at \in {"copy", "shared"}

\* Between CacheBytecode and SaveMetadata the two files may disagree.
Writing(p) ==
    pull[p].at \in {"copy", "shared", "orphan", "validate", "save", "write", "unlinked"}

\* A pull starts on the entry.  Alone, it makes good whatever was left there;
\* beside a pull of another image, or with a copy in the way, it does not.
StartsWriting(p, copies) ==
    crossed' = \E q \in Pullers \ {p} :
        /\ Writing(q)
        /\ crossed \/ copies \/ Copying(q) \/ pull[q].digest # pull[p].digest

\* A pull ends half-way, under metadata its object does not go with.
CutShort(p) ==
    crossed' = \/ crossed
               \/ /\ Writing(p) /\ metadata \notin {Missing, Torn}
                  /\ Copying(p) \/ metadata # pull[p].digest

\* What a copy that ends half-way leaves in the file.
HalfCopied(p) == IF pull[p].at = "shared" THEN {object, Torn} ELSE {object}

\* The entry's bytecode is another file from now on, or none.
CopyOrphaned(q) == IF Copying(q) THEN [pull[q] EXCEPT !.at = "orphan"] ELSE pull[q]

PullImage(p, policy) ==
    /\ pull[p] = NoPull
    /\ pull' = [pull EXCEPT ![p] =
           [NoPull EXCEPT !.policy = policy,
                          !.at = IF policy = "Always" THEN "resolve" ELSE "exists"]]
    /\ result' = [result EXCEPT ![p] = Failed]
    /\ UNCHANGED <<tag, cacheVars, crossed>>

\* A miss is an error for Never and a pull for IfNotPresent.
CacheMiss(p) ==
    \/ pull[p].policy = "Never" /\ PullReturns(p, Failed)
    \/ pull[p].policy # "Never" /\ PullGoto(p, "resolve") /\ UNCHANGED result

\* checkCache: the bytecode is looked for, then the metadata is read.
BytecodeExists(p) ==
    /\ pull[p].at = "exists"
    /\ \/ object = Missing /\ CacheMiss(p)
       \/ object # Missing /\ PullGoto(p, "load") /\ UNCHANGED result
    /\ UNCHANGED <<tag, cacheVars, crossed>>

LoadMetadata(p) ==
    /\ pull[p].at = "load"
    /\ \/ metadata \in {Missing, Torn} /\ CacheMiss(p)
       \/ /\ metadata \notin {Missing, Torn}
          /\ PullReturns(p, [digest |-> metadata, object |-> object])
    /\ UNCHANGED <<tag, cacheVars, crossed>>

Resolve(p) ==
    /\ pull[p].at = "resolve"
    /\ pull' = [pull EXCEPT ![p].at = "verify", ![p].digest = tag]
    /\ UNCHANGED <<tag, cacheVars, result, crossed>>

\* The signature is checked for the resolved digest.
VerifyOf(p, digest) ==
    /\ pull[p].at = "verify"
    /\ \/ digest \in Accepted /\ PullGoto(p, "fetch") /\ UNCHANGED result
       \/ digest \notin Accepted /\ PullReturns(p, Failed)
    /\ UNCHANGED <<tag, cacheVars, crossed>>

VerifyTag(p) == VerifyOf(p, tag)

Verify(p) == VerifyOf(p, pull[p].digest)

\* Manifest, labels and first layer of that digest, extracted into a
\* directory of this pull's own, and then the entry's directory.
FetchAndExtract(p) ==
    LET d == pull[p].digest
    IN  /\ pull[p].at = "fetch"
        /\ \/ /\ SelectPlatform(d) /\ ExtractBytecode(d) # Missing
              /\ entryDir' = TRUE
              /\ PullGoto(p, "cache")
              /\ UNCHANGED result
           \/ /\ \/ ~SelectPlatform(d) \/ ExtractBytecode(d) = Missing
                 \/ "fetch" \in ImageFaults
              /\ PullReturns(p, Failed)
              /\ UNCHANGED entryDir
        /\ UNCHANGED <<tag, object, metadata, crossed>>

RenameBytecode(p) ==
    /\ entryDir
    /\ object' = pull[p].digest
    /\ pull' = [q \in Pullers |->
           IF q = p THEN [pull[p] EXCEPT !.at = "validate"] ELSE CopyOrphaned(q)]
    /\ StartsWriting(p, FALSE)
    /\ UNCHANGED result

\* copyFile truncates the entry's file, under any other copy into it.
TruncateBytecode(p) ==
    /\ entryDir /\ "rename" \in ImageFaults
    /\ object' = Torn
    /\ LET at == IF \E q \in Pullers \ {p} : Copying(q) THEN "shared" ELSE "copy"
       IN  pull' = [q \in Pullers |->
               IF q = p \/ Copying(q) THEN [pull[q] EXCEPT !.at = at] ELSE pull[q]]
    /\ StartsWriting(p, TRUE)
    /\ UNCHANGED result

\* A rename over the entry's bytecode, and a copy if that fails.  Without the
\* directory, which another pull may have removed, both do.
CacheBytecode(p) ==
    /\ pull[p].at = "cache"
    /\ \/ RenameBytecode(p)
       \/ TruncateBytecode(p)
       \/ /\ ~entryDir \/ {"rename", "copy"} \subseteq ImageFaults
          /\ PullReturns(p, Failed)
          /\ UNCHANGED <<object, crossed>>
    /\ UNCHANGED <<tag, entryDir, metadata>>

\* The rest of copyFile, which may end half-way.
CopyFile(p) ==
    /\ Copying(p) \/ pull[p].at = "orphan"
    /\ \/ /\ object' \in CASE pull[p].at = "copy"   -> {pull[p].digest}
                           [] pull[p].at = "shared" -> {pull[p].digest, Torn}
                           [] OTHER                 -> {object}
          /\ PullGoto(p, "validate")
          /\ UNCHANGED <<result, crossed>>
       \/ /\ "copy" \in ImageFaults
          /\ object' \in HalfCopied(p)
          /\ PullReturns(p, Failed)
          /\ CutShort(p)
    /\ UNCHANGED <<tag, entryDir, metadata>>

RemoveNothing(p) ==
    /\ PullReturns(p, Failed)
    /\ UNCHANGED <<cacheVars, crossed>>

\* The whole entry goes, files other pulls have open too.  A removal that
\* fails leaves the directory and any of the files; it is only logged.
RemoveCacheEntry(p) ==
    \E gone \in SUBSET {"object", "metadata", "dir"} :
        /\ \/ gone = {"object", "metadata", "dir"} /\ UNCHANGED crossed
           \/ "remove" \in ImageFaults /\ "dir" \notin gone /\ CutShort(p)
        /\ object' = IF "object" \in gone THEN Missing ELSE object
        /\ metadata' = IF "metadata" \in gone THEN Missing ELSE metadata
        /\ entryDir' = (entryDir /\ "dir" \notin gone)
        /\ pull' = [q \in Pullers |->
               IF q = p THEN NoPull
               ELSE IF pull[q].at = "write" /\ "metadata" \in gone
                    THEN [pull[q] EXCEPT !.at = "unlinked"]
               ELSE IF "object" \in gone THEN CopyOrphaned(q) ELSE pull[q]]
        /\ result' = [result EXCEPT ![p] = Failed]

\* validateELF reads the entry's path, whoever wrote it; what is not a valid
\* object takes the entry with it.  What a torn file reads as is left open.
ValidateELF(p) ==
    /\ pull[p].at = "validate"
    /\ \/ /\ object \in ELFs \cup {Torn}
          /\ PullGoto(p, "save")
          /\ UNCHANGED <<cacheVars, result, crossed>>
       \/ object \notin ELFs /\ RemoveCacheEntry(p)
    /\ UNCHANGED tag

\* SaveMetadata truncates the file ...
TruncateMetadata(p) ==
    /\ pull[p].at = "save"
    /\ \/ /\ entryDir
          /\ metadata' = Torn
          /\ PullGoto(p, "write")
          /\ UNCHANGED <<result, crossed>>
       \/ /\ ~entryDir \/ "save" \in ImageFaults
          /\ PullReturns(p, Failed)
          /\ CutShort(p)
          /\ UNCHANGED metadata
    /\ UNCHANGED <<tag, entryDir, object>>

\* ... and then writes it.  Over another pull's text it leaves that one's
\* tail behind if it is shorter; an unlinked file is written to no effect.
SaveMetadata(p) ==
    LET linked == pull[p].at = "write" IN
    /\ pull[p].at \in {"write", "unlinked"}
    /\ \/ /\ metadata' \in IF ~linked THEN {metadata}
                           ELSE IF metadata = Torn THEN {pull[p].digest}
                           ELSE {pull[p].digest, Torn}
          /\ PullReturns(p, [digest |-> pull[p].digest, object |-> object])
          /\ UNCHANGED crossed
       \/ /\ "save" \in ImageFaults
          /\ metadata' \in IF linked THEN {metadata, Torn} ELSE {metadata}
          /\ PullReturns(p, Failed)
          /\ CutShort(p)
    /\ UNCHANGED <<tag, entryDir, object>>

\* The process of a pull dies; its temporary directory stays behind.
KillPull(p) ==
    /\ "kill" \in ImageFaults
    /\ pull[p] # NoPull
    /\ object' \in HalfCopied(p)
    /\ CutShort(p)
    /\ pull' = [pull EXCEPT ![p] = NoPull]
    /\ UNCHANGED <<tag, entryDir, metadata, result>>

MoveTag(d) ==
    /\ tag' = d
    /\ UNCHANGED <<cacheVars, pull, result, crossed>>

PullStep(p) ==
    \/ BytecodeExists(p) \/ LoadMetadata(p) \/ Resolve(p) \/ Verify(p)
    \/ FetchAndExtract(p) \/ CacheBytecode(p) \/ CopyFile(p)
    \/ ValidateELF(p) \/ TruncateMetadata(p) \/ SaveMetadata(p)

ImageNext ==
    \/ \E p \in Pullers : \/ \E policy \in Policies : PullImage(p, policy)
                          \/ PullStep(p) \/ KillPull(p)
    \/ \E d \in Digests : MoveTag(d)

ImageSpec == ImageInit /\ [][ImageNext]_imageVars

-----------------------------------------------------------------------------
(***************************************************************************)
(* What the cache promises                                                 *)
(***************************************************************************)

\* No object the policy refuses is cached or handed to a load, and no digest
\* of one is reported, however the tag moves between resolving, verifying
\* and fetching.  A torn file is put together from accepted objects only.  A
\* cached image is not verified again.
OnlyAcceptedServed ==
    /\ object \in Accepted \cup {Missing, Torn}
    /\ metadata \in Accepted \cup {Missing, Torn}
    /\ \A p \in Pullers :
           /\ result[p].digest \in Accepted \cup {Missing}
           /\ result[p].object \in Accepted \cup {Missing, Torn}

\* An entry that checkCache would take for a hit has the object its metadata
\* was written for whenever no pull is writing: pulls of one image may overlap,
\* fail and die at any step, the tag may move between pulls, and a pull that
\* has the entry to itself makes good what others left.  Since that pull, two
\* things must not have happened: pulls of two images, or a copy and another
\* pull, wrote at once; or a pull ended half-way under the metadata of another
\* image, or in the middle of a copy.  After those an entry of two images, which
\* checkCache answers with, is what the code leaves.
EntryMatches ==
    ~crossed /\ (\A p \in Pullers : ~Writing(p)) =>
        object = Missing \/ metadata \in {Missing, Torn, object}
=============================================================================
