---------------------------- MODULE StageDelivery ----------------------------
(***************************************************************************)
(* One stage of one StageSet, from its source to the cluster: the source   *)
(* is resolved and pinned, the artifact downloaded, checked and extracted, *)
(* decrypted, built, its images verified and pinned, applied, recorded in  *)
(* StageInventory shards, and waited for.  Everything around moves while a *)
(* pass runs.  The order of stages, rollback and gates have modules of     *)
(* their own.                                                              *)
(***************************************************************************)
EXTENDS InventoryShards, SequencesExt

CONSTANTS
    Artifact,           \* per revision: its tar entries, the key that seals it, the objects it renders
    FirstRev,           \* the one published first
    Digests, FirstDigest,   \* what the image tag in the manifests may point to
    Accepts,            \* per ImageVerificationPolicy: the digests its authorities signed
    Keyless,            \* the policies with a keyless authority
    RequireImageVerification,
    maxEntry, maxExtracted, maxDecompressed,
    MaxEvents           \* bound: what happens around the controller, faults included

Revs == DOMAIN Artifact
Policies == DOMAIN Accepts
None == "none"

ASSUME DeliveryAssumption ==
    /\ FirstRev \in Revs \ {None} /\ FirstDigest \in Digests /\ None \notin Digests
    /\ Keyless \subseteq Policies /\ RequireImageVerification \in BOOLEAN
    /\ \A r \in Revs :
        /\ Artifact[r].objects \in SUBSET Refs
        /\ Artifact[r].entries \in Seq(ToSet(Artifact[r].entries))
        /\ \A i \in DOMAIN Artifact[r].entries : Artifact[r].entries[i].size \in Nat
    /\ {maxEntry, maxExtracted, MaxEvents} \subseteq Nat

VARIABLES
    kind,       \* "direct": a Flux source, "producer": found by the back-reference of its ExternalArtifact
    source,     \* the source object: [state, rev]
    bytes,      \* what its URL serves: a revision, "down" or "forbidden"
    secret,     \* the key in the decryption Secret
    tag,        \* the digest the image tag points to
    registry,   \* the image registry answers
    policies,   \* the ImageVerificationPolicies that match the image
    exempt,     \* the break-glass annotation is set
    allowed,    \* RBAC lets the tenant apply
    crd,        \* the CRD of the source kind, or of ExternalArtifact, is established
    life,       \* "alive", "removed": the stage left the spec, "deleting" or "gone"
    watch,      \* the watch on that kind: "none", "missing" or "engaged"
    trustRoot,  \* the Sigstore trusted root of this process: "unset", "loaded" or "failed"
    queued,     \* a reconcile is due, now or after a delay
    pass,       \* the reconcile that runs
    live,       \* what runs in the cluster
    status,     \* [reason, terminal, attempted]
    events

worldVars == <<kind, source, bytes, secret, tag, registry, policies, exempt, allowed, crd, life>>
vars == <<worldVars, watch, trustRoot, queued, pass, live, status, events, shardVars>>

Idle == [at |-> "idle", rev |-> None, key |-> "none", files |-> {}, asked |-> {}, left |-> {}, digest |-> None,
         moved |-> FALSE, exempt |-> FALSE, fired |-> FALSE, cancelled |-> FALSE]
Nothing == [rev |-> None, image |-> None, asked |-> {}, moved |-> FALSE, exempt |-> FALSE]
Tag == "tag"
----------------------------------------------------------------------------
(* How a pass ends.                                                        *)

\* Mutant: what was enqueued while the pass ran is dropped with it.
FailStageDropsEvents(terminal, reason) ==
    /\ pass' = Idle
    /\ status' = [status EXCEPT !.reason = reason, !.terminal = terminal]
    /\ queued' = ~terminal

\* failStage: the status is written; only a failure that a retry may cure is retried.
FailStage(terminal, reason) ==
    /\ pass' = Idle
    /\ status' = [status EXCEPT !.reason = reason, !.terminal = terminal]
    /\ queued' = (queued \/ ~terminal)

\* A return with RequeueAfter.
EndPass(reason) ==
    /\ pass' = Idle /\ queued' = TRUE
    /\ status' = [status EXCEPT !.reason = reason, !.terminal = FALSE]

Fault == events < MaxEvents /\ events' = events + 1
NoFault == UNCHANGED events
----------------------------------------------------------------------------
(* Resolution.                                                             *)

Watched == watch = "engaged"

\* SetupWithManager watches ExternalArtifact, if that kind is there when the
\* process starts; the watch on a Flux source kind is left to the first pass.
StaticWatch == IF kind = "producer" /\ crd THEN "engaged" ELSE "none"

\* engageProducerWatch: the new informer's first list enqueues what refers to it.
\* Nothing makes up for a missing watch on ExternalArtifact.
EngageWatch ==
    /\ watch' = IF kind = "producer" \/ watch = "engaged" THEN watch ELSE IF crd THEN "engaged" ELSE "missing"
    /\ queued' = (watch' # watch /\ crd /\ source.state # "missing")
    /\ NoFault

EngageFails ==
    /\ kind = "direct" /\ watch # "engaged" /\ crd
    /\ Fault /\ UNCHANGED watch /\ queued' = FALSE

\* A Flux source is read as such; a producer is looked up through the one
\* ExternalArtifact that refers back to it.
getDirectSource == source.state # "missing"
resolveProducer == source.state \notin {"missing", "ambiguous"}

\* readyState and readArtifact: Ready, with a complete artifact.
readyState == source.state = "ready"

Resolvable == (IF kind = "direct" THEN getDirectSource ELSE resolveProducer) /\ readyState

\* The StageSet is read, Resolve pins the revision of the whole pass.
StartPass ==
    /\ queued /\ pass.at = "idle" /\ life = "alive"
    /\ EngageWatch \/ EngageFails
    /\ IF Resolvable
       THEN /\ pass' = [Idle EXCEPT !.at = "configure", !.rev = source.rev, !.exempt = exempt]
            /\ status' = [status EXCEPT !.attempted = source.rev]
       ELSE /\ pass' = [Idle EXCEPT !.at = "unresolved"]
            /\ UNCHANGED status
    /\ UNCHANGED <<worldVars, trustRoot, live, shardVars>>

\* failResolution always comes back, after retryInterval or permanentRetryInterval.
FailResolution ==
    /\ pass.at = "unresolved"
    /\ EndPass("ResolveFailed")
    /\ NoFault /\ UNCHANGED <<worldVars, watch, trustRoot, live, shardVars>>

\* buildDecryptor reads the keys once, before the stages.
ConfigureDecryption ==
    /\ pass.at = "configure"
    /\ IF secret = "none"
       THEN FailStage(FALSE, "StageFailed")
       ELSE /\ pass' = [pass EXCEPT !.at = "fetch", !.key = secret]
            /\ UNCHANGED <<status, queued>>
    /\ NoFault /\ UNCHANGED <<worldVars, watch, trustRoot, live, shardVars>>
----------------------------------------------------------------------------
(* Fetch and extract.                                                      *)

(* The bytes of the first n entries, of those that are counted.            *)
Sizes(entries, counted) ==
    LET sum[n \in 0 .. Len(entries)] ==
            IF n = 0 THEN 0 ELSE sum[n - 1] + (IF n \in counted THEN entries[n].size ELSE 0)
    IN  sum

\* The entries that become files: regular ones with a safe path.
Taken(entries) == {i \in DOMAIN entries : entries[i].taken}

\* What is wrong with entry i: only files count, the decompressed stream counts all.
Broken(entries, i) ==
    {c \in {"duplicate", "entry", "total", "decompressed"} :
        \/ c = "duplicate" /\ i \in Taken(entries) /\ \E j \in Taken(entries) : j < i /\ entries[j].name = entries[i].name
        \/ c = "entry" /\ i \in Taken(entries) /\ entries[i].size > maxEntry
        \/ c = "total" /\ i \in Taken(entries) /\ Sizes(entries, Taken(entries))[i] > maxExtracted
        \/ c = "decompressed" /\ Sizes(entries, DOMAIN entries)[i] > maxDecompressed}

\* extract: everything, unless an entry breaks a limit; the first that does is reported.
Extract(entries) ==
    LET bad == {i \in DOMAIN entries : Broken(entries, i) # {}} IN
    IF bad = {} THEN [files |-> Taken(entries), broken |-> {}]
    ELSE [files |-> {}, broken |-> Broken(entries, Min(bad))]

Extraction == [r \in Revs |-> Extract(Artifact[r].entries)]

\* terminalFetchError does not name the limit of a single entry.
terminalFetchError(broken) == ~("entry" \in broken /\ "duplicate" \notin broken)

\* The URL, or an address it leads to, is not one the fetcher may dial.
AddressRefused == bytes = "forbidden"

\* verifyDigest: the bytes are those of the pinned revision.
Fetched(rev) == bytes = rev

Fetch ==
    LET got == IF bytes \in Revs THEN Extraction[bytes] ELSE [files |-> {}, broken |-> {}] IN
    /\ pass.at = "fetch"
    /\ IF Fetched(pass.rev) /\ got.broken = {}
       THEN /\ pass' = [pass EXCEPT !.at = "decrypt", !.rev = bytes, !.files = got.files]
            /\ UNCHANGED <<status, queued>>
       ELSE FailStage(AddressRefused \/ (bytes \in Revs /\ (Fetched(pass.rev) => terminalFetchError(got.broken))), "StageFailed")
    /\ NoFault /\ UNCHANGED <<worldVars, watch, trustRoot, live, shardVars>>
----------------------------------------------------------------------------
(* Decrypt and build.                                                      *)

DecryptFiles ==
    /\ pass.at = "decrypt"
    /\ IF Artifact[pass.rev].sealed \in {"none", pass.key}
       THEN pass' = [pass EXCEPT !.at = "build"] /\ UNCHANGED <<status, queued>>
       ELSE FailStage(FALSE, "StageFailed")
    /\ NoFault /\ UNCHANGED <<worldVars, watch, trustRoot, live, shardVars>>

hasManifests(rev, files) == \E i \in files : Artifact[rev].entries[i].manifest

Build ==
    /\ pass.at = "build"
    /\ IF hasManifests(pass.rev, pass.files)
       THEN pass' = [pass EXCEPT !.at = "images", !.files = {}] /\ UNCHANGED <<status, queued>>
       ELSE FailStage(FALSE, "StageFailed")
    /\ NoFault /\ UNCHANGED <<worldVars, watch, trustRoot, live, shardVars>>
----------------------------------------------------------------------------
(* Image verification.                                                     *)

\* verifyStageImages: the annotation as the pass has read it, the policies, and
\* which of them match.
BeginImages ==
    LET asked == IF pass.exempt THEN {} ELSE policies IN
    /\ pass.at = "images"
    /\ IF policies = {} /\ RequireImageVerification /\ ~pass.exempt
       THEN FailStage(TRUE, "ImageUnverified")
       ELSE /\ pass' = [pass EXCEPT !.at = "verifyImages", !.asked = asked, !.left = asked]
            /\ UNCHANGED <<status, queued>>
    /\ NoFault /\ UNCHANGED <<worldVars, watch, trustRoot, live, shardVars>>

\* trustedVerifier: one attempt per process; a failure is kept as well.
LoadTrustedRoot ==
    \/ trustRoot' = (IF trustRoot = "unset" THEN "loaded" ELSE trustRoot) /\ NoFault
    \/ trustRoot = "unset" /\ trustRoot' = "failed" /\ Fault

\* verifyImage: an authority of the policy signed the digest.  A keyless one is
\* judged by the trusted root.
Signed(p, digest, root) == digest \in Accepts[p] /\ (p \in Keyless => root = "loaded")

\* One policy: the tag is resolved anew and the signatures of its digest checked.
VerifyImage(p) ==
    /\ pass.at = "verifyImages" /\ p \in pass.left
    /\ IF registry /\ p \in Keyless THEN LoadTrustedRoot ELSE UNCHANGED trustRoot /\ NoFault
    /\ IF registry /\ Signed(p, tag, trustRoot')
       THEN /\ pass' = [pass EXCEPT !.left = @ \ {p}, !.digest = tag]
            /\ UNCHANGED <<status, queued>>
       ELSE FailStage(TRUE, "ImageUnverified")
    /\ UNCHANGED <<worldVars, watch, live, shardVars>>

\* Mutant: the manifests keep the tag.
PinImagesNot(digest) == Tag

\* PinImages: the manifests name the digest that was verified last.
PinImages(digest) == IF digest = None THEN Tag ELSE digest
----------------------------------------------------------------------------
(* Apply, record, verify.                                                  *)

Apply ==
    /\ pass.at = "verifyImages" /\ pass.left = {}
    /\ \/ /\ allowed /\ NoFault
          /\ live' = [rev |-> pass.rev, image |-> PinImages(pass.digest), asked |-> pass.asked,
                      moved |-> pass.moved, exempt |-> pass.exempt]
          /\ pass' = [pass EXCEPT !.at = "record"]
          /\ UNCHANGED <<status, queued>>
       \/ /\ ~allowed /\ NoFault
          /\ FailStage(TRUE, "RBACDenied") /\ UNCHANGED live
       \/ /\ allowed /\ Fault
          /\ FailStage(FALSE, "StageFailed") /\ UNCHANGED live
    /\ UNCHANGED <<worldVars, watch, trustRoot, shardVars>>

BeginRecord ==
    /\ pass.at = "record"
    /\ BeginWrite(Artifact[pass.rev].objects)
    /\ pass' = [pass EXCEPT !.at = "recording"]
    /\ NoFault /\ UNCHANGED <<worldVars, watch, trustRoot, live, status, queued>>

\* The stage left the spec while its record is still there: at the end of a
\* pass over the other stages its objects are pruned, then its shards.
PruneRemoved ==
    /\ queued /\ pass.at = "idle" /\ life = "removed" /\ known # {}
    /\ \/ NoFault /\ live' = Nothing /\ BeginDelete /\ pass' = [Idle EXCEPT !.at = "recording"] /\ queued' = FALSE
       \/ Fault /\ UNCHANGED <<live, shardVars, pass, queued>>
    /\ UNCHANGED <<worldVars, watch, trustRoot, status>>

\* The StageInventory is owned by the StageSet: every change of it enqueues.
WriteRecord ==
    /\ pass.at = "recording"
    /\ WriteShard \/ BeginCleanup \/ DeleteShard
    /\ queued' = (queued \/ shards' # shards \/ existing' # existing)
    /\ NoFault /\ UNCHANGED <<worldVars, watch, trustRoot, pass, live, status>>

\* A request fails, or is refused because the cache lags.
RecordFails ==
    /\ pass.at = "recording"
    /\ WriteFails
    /\ IF Refused THEN NoFault ELSE Fault
    /\ IF live = Nothing THEN EndPass(status.reason) ELSE FailStage(FALSE, "StageFailed")
    /\ UNCHANGED <<worldVars, watch, trustRoot, live>>

Recorded ==
    /\ pass.at = "recording"
    /\ FinishWrite
    /\ IF live = Nothing
       THEN EndPass("Ready")
       ELSE pass' = [pass EXCEPT !.at = "verify"] /\ UNCHANGED <<status, queued>>
    /\ NoFault /\ UNCHANGED <<worldVars, watch, trustRoot, live>>

\* Mutant: the wait is interrupted before the watch says so.
PollDeletionLate ==
    /\ pass.at = "verify" /\ life = "deleting"
    /\ \/ ~pass.cancelled /\ pass' = [pass EXCEPT !.cancelled = TRUE]
       \/ pass.cancelled /\ ~pass.fired /\ pass' = [pass EXCEPT !.fired = TRUE]
    /\ NoFault /\ UNCHANGED <<worldVars, watch, trustRoot, queued, live, status, shardVars>>

\* watchForDeletion, next to the wait: fired is stored, then the wait cancelled.
PollDeletion ==
    /\ pass.at = "verify" /\ life = "deleting"
    /\ \/ ~pass.fired /\ pass' = [pass EXCEPT !.fired = TRUE]
       \/ pass.fired /\ ~pass.cancelled /\ pass' = [pass EXCEPT !.cancelled = TRUE]
    /\ NoFault /\ UNCHANGED <<worldVars, watch, trustRoot, queued, live, status, shardVars>>

VerifySucceeds ==
    /\ pass.at = "verify" /\ ~pass.cancelled
    /\ EndPass("Ready")
    /\ NoFault /\ UNCHANGED <<worldVars, watch, trustRoot, live, shardVars>>

\* The wait ends with an error: interrupted, or out of time with objects that
\* still progress (held) or do not (failed).
VerifyFails ==
    /\ pass.at = "verify"
    /\ IF pass.cancelled THEN NoFault ELSE Fault
    /\ IF pass.fired
       THEN pass' = Idle /\ queued' = TRUE /\ UNCHANGED status
       ELSE EndPass("StageProgressing") \/ FailStage(FALSE, "StageFailed")
    /\ UNCHANGED <<worldVars, watch, trustRoot, live, shardVars>>

\* reconcileDelete.
Teardown ==
    /\ queued /\ pass.at = "idle" /\ life = "deleting"
    /\ life' = "gone" /\ live' = Nothing /\ queued' = FALSE
    /\ NoFault
    /\ UNCHANGED <<kind, source, bytes, secret, tag, registry, policies, exempt, allowed, crd, watch, trustRoot, pass, status, shardVars>>

\* A request outside the stage fails: the status is not written, the pass retried.
LosePass ==
    /\ pass.at \in {"unresolved", "configure", "fetch", "verify"}
    /\ Fault /\ pass' = Idle /\ queued' = TRUE
    /\ UNCHANGED <<worldVars, watch, trustRoot, live, status, shardVars>>
----------------------------------------------------------------------------
(* Around the controller.                                                  *)

\* The source object changes, and its URL may serve the new revision at once;
\* mapExternalArtifact or mapProducer enqueue.
SourceChanges ==
    /\ \E s \in {"missing", "ambiguous", "notReady", "ready"}, r \in Revs :
        /\ source' = [state |-> s, rev |-> r] /\ source' # source
        /\ s # "ready" => r = source.rev
        /\ s = "ambiguous" => kind = "producer"
        /\ s # "missing" => crd
        /\ bytes' \in {bytes, r}
    /\ queued' = (queued \/ Watched)
    /\ UNCHANGED <<kind, secret, tag, registry, policies, exempt, allowed, crd, life, watch, pass>>

\* A user edits the StageSet: stageSetWatchPredicate lets a new generation
\* through, and drops the event of the break-glass annotation.
Edit ==
    /\ life = "alive"
    /\ \/ life' \in {"deleting", "removed"} /\ queued' = TRUE /\ UNCHANGED exempt
       \/ exempt' = ~exempt /\ UNCHANGED <<life, queued>>
    /\ UNCHANGED <<kind, source, bytes, secret, tag, registry, policies, allowed, crd, watch, pass>>

\* What no watch reports.
Unseen ==
    /\ \/ bytes' \in (Revs \cup {"down", "forbidden"}) \ {bytes} /\ UNCHANGED <<secret, registry, policies, allowed>>
       \/ secret' \in {"none", "k1", "k2"} \ {secret} /\ UNCHANGED <<bytes, registry, policies, allowed>>
       \/ registry' = ~registry /\ UNCHANGED <<bytes, secret, policies, allowed>>
       \/ policies' \in SUBSET Policies \ {policies} /\ UNCHANGED <<bytes, secret, registry, allowed>>
       \/ allowed' = ~allowed /\ UNCHANGED <<bytes, secret, registry, policies>>
    /\ UNCHANGED <<kind, source, tag, exempt, crd, life, watch, queued, pass>>

\* The tag is pushed again.
TagMoves ==
    /\ tag' \in Digests \ {tag}
    /\ pass' = [pass EXCEPT !.moved = @ \/ (pass.at = "verifyImages" /\ pass.left \notin {{}, pass.asked})]
    /\ UNCHANGED <<kind, source, bytes, secret, registry, policies, exempt, allowed, crd, life, watch, queued>>

\* handleCRD: an established CRD engages the watch of a kind that was missing.
CRDEstablished ==
    /\ ~crd /\ crd' = TRUE
    /\ watch' = IF watch = "missing" THEN "engaged" ELSE watch
    /\ UNCHANGED <<kind, source, bytes, secret, tag, registry, policies, exempt, allowed, life, queued, pass>>

Around ==
    /\ Fault
    /\ SourceChanges \/ Edit \/ Unseen \/ TagMoves \/ CRDEstablished
    /\ UNCHANGED <<trustRoot, live, status, shardVars>>

\* The process restarts: its memory is gone, its informers list everything.
Crash ==
    /\ Fault
    /\ pass' = Idle /\ watch' = StaticWatch /\ trustRoot' = "unset" /\ queued' = (life # "gone")
    /\ write' = [write EXCEPT !.at = IF @ \in {"write", "cleanup"} THEN "failed" ELSE @]
    /\ known' = existing /\ cached' = shards /\ stale' = {}
    /\ UNCHANGED <<worldVars, live, status, existing, shards>>

CacheCatchesUp ==
    /\ CacheSyncs
    /\ UNCHANGED <<worldVars, watch, trustRoot, queued, pass, live, status, events>>
----------------------------------------------------------------------------
Init ==
    /\ kind \in {"direct", "producer"} /\ crd \in BOOLEAN
    /\ source = [state |-> IF ~crd THEN "missing" ELSE "ready", rev |-> FirstRev]
    /\ bytes = source.rev /\ secret = "k1" /\ tag = FirstDigest
    /\ registry = TRUE /\ policies = Policies /\ exempt = FALSE /\ allowed = TRUE
    /\ life = "alive" /\ watch = StaticWatch /\ trustRoot = "unset" /\ queued = TRUE
    /\ pass = Idle /\ live = Nothing /\ status = [reason |-> "none", terminal |-> FALSE, attempted |-> None]
    /\ events = 0
    /\ existing = {} /\ shards = [n \in Names |-> {}]
    /\ known = {} /\ cached = shards /\ stale = {} /\ write = NoWrite

PassStep ==
    \/ FailResolution \/ ConfigureDecryption \/ Fetch \/ DecryptFiles \/ Build \/ BeginImages
    \/ \E p \in Policies : VerifyImage(p)
    \/ Apply \/ BeginRecord \/ WriteRecord \/ RecordFails \/ Recorded
    \/ PollDeletion \/ VerifySucceeds \/ VerifyFails \/ LosePass

Next == StartPass \/ PassStep \/ PruneRemoved \/ Teardown \/ Around \/ Crash \/ CacheCatchesUp

Spec == Init /\ [][Next]_vars

\* A pass under way comes to its end and a due one starts: the workqueue hands
\* out every key, and every wait has a timeout.
FairSpec == Spec /\ WF_vars(PassStep) /\ WF_vars(StartPass) /\ WF_vars(PruneRemoved) /\ WF_vars(Teardown) /\ WF_vars(CacheCatchesUp)
----------------------------------------------------------------------------
\* Every variable stays in its type, whatever step of Reconcile fails; a policy
\* still to be verified is always one that the gate asked for.
TypeOK ==
    /\ kind \in {"direct", "producer"} /\ source \in [state : {"missing", "ambiguous", "notReady", "ready"}, rev : Revs]
    /\ bytes \in Revs \cup {"down", "forbidden"} /\ secret \in {"none", "k1", "k2"} /\ tag \in Digests
    /\ registry \in BOOLEAN /\ policies \subseteq Policies /\ exempt \in BOOLEAN /\ allowed \in BOOLEAN /\ crd \in BOOLEAN
    /\ life \in {"alive", "removed", "deleting", "gone"} /\ watch \in {"none", "missing", "engaged"}
    /\ trustRoot \in {"unset", "loaded", "failed"} /\ queued \in BOOLEAN /\ events \in 0 .. MaxEvents
    /\ pass.rev \in Revs \cup {None} /\ pass.left \subseteq pass.asked /\ pass.digest \in Digests \cup {None}
    /\ live.rev \in Revs \cup {None} /\ live.image \in Digests \cup {None, Tag}
    /\ status.attempted \in Revs \cup {None}
    /\ ShardTypeOK

\* Whatever a pass has extracted is within the limits and free of duplicates:
\* a tarball that breaks one is refused as a whole, wherever the entry stands.
ExtractBounded ==
    pass.at \in {"decrypt", "build"} =>
        LET entries == Artifact[pass.rev].entries IN
        /\ Sizes(entries, pass.files)[Len(entries)] <= maxExtracted
        /\ \A i \in pass.files : entries[i].taken /\ entries[i].size <= maxEntry
        /\ \A i, j \in pass.files : entries[i].name = entries[j].name => i = j

\* A pass goes on with the bytes of the revision it pinned, although the source
\* moved on and its URL served something else in the meantime.
OnlyPinnedApplied ==
    pass.at \in {"decrypt", "build", "images", "verifyImages", "record"} => pass.rev = status.attempted

\* A governed image runs by a digest that a policy accepted, every policy of
\* the gate unless the tag moved between two of them; an image nobody vouched
\* for runs only by the annotation or where verification is not required.
OnlyVerifiedImages ==
    live # Nothing =>
        IF live.asked = {} THEN live.exempt \/ ~RequireImageVerification
        ELSE /\ \E p \in live.asked : live.image \in Accepts[p]
             /\ live.moved \/ \A p \in live.asked : live.image \in Accepts[p]

\* What reaches the cluster is what was asked for: the pinned revision, extracted
\* within the limits, with images that somebody vouched for.
OnlyTrustedDelivered == TypeOK /\ ExtractBounded /\ OnlyPinnedApplied /\ OnlyVerifiedImages

\* A wait that the deletion of the StageSet interrupted is not reported as a
\* failure of the stage.
InterruptedNotFailed ==
    [][pass.at = "verify" /\ pass.cancelled /\ pass'.at = "idle" => status' = status]_vars

\* A revision is attempted once the source publishes it under a watch: also
\* when it was published in the middle of a pass, after a terminal failure,
\* and when the CRD of a Flux source came late.
PublishedIsAttempted ==
    \A r \in Revs :
        (source = [state |-> "ready", rev |-> r] /\ Watched /\ life = "alive")
            ~> (status.attempted = r \/ source # [state |-> "ready", rev |-> r] \/ life # "alive" \/ ~Watched)

Deliverable ==
    /\ life = "alive" /\ Resolvable /\ bytes = source.rev /\ allowed
    /\ Extraction[source.rev].broken = {}
    /\ secret # "none" /\ Artifact[source.rev].sealed \in {"none", secret}
    /\ registry /\ trustRoot # "failed" /\ \A p \in policies : tag \in Accepts[p]
    /\ policies # {} \/ ~RequireImageVerification

\* When nothing stands in the way any more the revision is delivered and its
\* objects end up recorded, also those that a write took for recorded because
\* of an outdated copy; unless an earlier terminal failure ended the retries.
Delivers ==
    <>[]Deliverable =>
        <>[](\/ live.rev = source.rev /\ Stored = Artifact[source.rev].objects
             \/ status.terminal /\ ~queued)

\* A deleted StageSet is torn down, also out of a wait.
TornDown == life = "deleting" ~> life = "gone"

\* Reconcile gets there: no publication, cured fault or deletion is left
\* unnoticed by the workqueue.
NothingOverlooked == PublishedIsAttempted /\ Delivers /\ TornDown
=============================================================================
