---------------------------- MODULE SyntheticRun ----------------------------
(***************************************************************************)
(* The synthetic evidence pipeline: the review service queues a run for    *)
(* its one worker thread (m2_synthetic_review.py), the engine takes the    *)
(* fixtures through the runner, has the result evaluated and persists it   *)
(* (m2_synthetic.py, m2_synthetic_integration.py), a reviewer exports the  *)
(* evidence (m2_synthetic_evidence.py) and anyone can reproduce it from    *)
(* the exported bundle (m2_synthetic_reproduction.py).                     *)
(*                                                                         *)
(* A digest is what it is a digest of.  The evaluation is that of module   *)
(* DeviceContract and chosen freely here, persistence that of module       *)
(* ArtifactStore: it succeeds, fails, or is not available.                 *)
(***************************************************************************)
EXTENDS Integers, Sequences, FiniteSets, SequencesExt

CONSTANTS ReviewKeys,    \* idempotency keys of reviewers
          ReviewCap,     \* MAX_RECORDS
          RunFixtures,   \* bound: the fixtures of a run
          MaxSynClock    \* bound: the injected clock

ASSUME SyntheticAssumption == ReviewCap \in Nat \ {0} /\ RunFixtures \in Nat \ {0} /\ MaxSynClock \in Nat

VARIABLES sRecord,   \* _records: per key the run, or NoRun
          sActive,   \* _active_request_id
          sWorker,   \* the executor's thread: the runner and the engine
          sStore,    \* the persistence store: open or closed, and its artifacts
          sLock,     \* "export" while an export holds the service's lock
          sPhase,    \* how far close has come
          sBundle,   \* the evidence bundle exported last, or NoBundle
          sReplay    \* a reproduction of it

synVars == <<sRecord, sActive, sWorker, sStore, sLock, sPhase, sBundle, sReplay>>

NoRun == [status |-> "NONE"]
NoBundle == [kind |-> "NONE"]
Nobody == "nobody"
Kinds == {"PREFLIGHT_60S", "NOMINAL_20M"}
NoReplay == [at |-> "idle", workspace |-> "NOT_CREATED"]
WorkerIdle == [at |-> "idle"]

SynInit ==
  /\ sRecord = [k \in ReviewKeys |-> NoRun] /\ sActive = Nobody /\ sWorker = WorkerIdle
  /\ sStore = [open |-> TRUE, artifacts |-> [k \in ReviewKeys |-> NoBundle]]
  /\ sLock = "free" /\ sPhase = "open" /\ sBundle = NoBundle /\ sReplay = NoReplay

------------------------------------------------------------------------------
(* The service *)

StoredRuns == {k \in ReviewKeys : sRecord[k] # NoRun}

\* A key that is known gets its record back whatever goes on; a new one needs a free
\* worker and room.
submit(k, kind) ==
  /\ sLock = "free" /\ sPhase = "open"
  /\ k \notin StoredRuns /\ sActive = Nobody /\ Cardinality(StoredRuns) < ReviewCap
  /\ sRecord' = [sRecord EXCEPT ![k] = [status |-> "QUEUED", kind |-> kind, failure |-> "NONE",
                                        receipt |-> NoBundle]]
  /\ sActive' = k
  /\ sWorker' = [at |-> "queued", key |-> k, kind |-> kind]
  /\ UNCHANGED <<sStore, sLock, sPhase, sBundle, sReplay>>

\* a fresh runner for every run
run_starts ==
  /\ sWorker.at = "queued" /\ sLock = "free"
  /\ sRecord' = [sRecord EXCEPT ![sWorker.key].status = "RUNNING"]
  /\ sWorker' = [at |-> "fixtures", key |-> sWorker.key, kind |-> sWorker.kind, next |-> 1,
                 seq |-> -1, captured |-> -1, processed |-> -1, seen |-> <<>>]
  /\ UNCHANGED <<sActive, sStore, sLock, sPhase, sBundle, sReplay>>

------------------------------------------------------------------------------
(* SyntheticRunner.process: one fixture, the clock readings and what the     *)
(* providers answer                                                          *)

ProviderAnswers == {"nothing", "another", "no engine", "raises", "invalid", "reported",
                    "insufficient", "valid", "not golden"}

capture_failure(w, captured) ==
  IF captured < w.captured THEN "CLOCK_REGRESSION"
  ELSE IF captured = w.captured THEN "FRAME_STALLED" ELSE "NONE"

processing_failure(w, captured, processed) ==
  IF processed < captured \/ processed < w.processed THEN "CLOCK_REGRESSION" ELSE "NONE"

provider_failure(answer) ==
  CASE answer = "nothing" -> "INPUT_UNAVAILABLE"
    [] answer = "another" -> "INPUT_MALFORMED"
    [] answer = "no engine" -> "POSE_ENGINE_UNAVAILABLE"
    [] answer = "raises" -> "POSE_ENGINE_EXCEPTION"
    [] OTHER -> "NONE"

pose_failure(answer) ==
  CASE answer = "invalid" -> "POSE_OUTPUT_INVALID"
    [] answer = "reported" -> "FRAME_STALLED"
    [] answer = "not golden" -> "MANIFEST_VALIDATION_FAILED"
    [] OTHER -> "NONE"

observation(seq, captured, processed, state, failure) ==
  [seq |-> seq, captured |-> captured, processed |-> processed, state |-> state, failure |-> failure]

\* what process returns, and the runner it leaves behind
process(w, captured, processed, answer) ==
  LET seq == w.next
      failed(code, done) == observation(seq, captured, done, "FAILED", code)
      entered == [w EXCEPT !.seq = seq, !.captured = captured]
      left == [entered EXCEPT !.processed = processed]
  IN IF capture_failure(w, captured) # "NONE"
     THEN [runner |-> w, seen |-> failed(capture_failure(w, captured), -1)]
     ELSE IF provider_failure(answer) # "NONE"
     THEN [runner |-> entered, seen |-> failed(provider_failure(answer), -1)]
     ELSE IF processing_failure(w, captured, processed) # "NONE"
     THEN [runner |-> entered, seen |-> failed(processing_failure(w, captured, processed), processed)]
     ELSE IF pose_failure(answer) # "NONE"
     THEN [runner |-> left, seen |-> failed(pose_failure(answer), processed)]
     ELSE [runner |-> left,
           seen |-> observation(seq, captured, processed, "PROCESSED",
                                IF answer = "insufficient" THEN "QUALITY_INSUFFICIENT" ELSE "NONE")]

fixture_runs ==
  /\ sWorker.at = "fixtures" /\ sWorker.next <= RunFixtures
  /\ \E captured, processed \in 0 .. MaxSynClock, answer \in ProviderAnswers :
       LET p == process(sWorker, captured, processed, answer)
       IN sWorker' = [p.runner EXCEPT !.next = @ + 1, !.seen = Append(@, p.seen)]
  /\ UNCHANGED <<sRecord, sActive, sStore, sLock, sPhase, sBundle, sReplay>>

------------------------------------------------------------------------------
(* The engine: evaluate, check the receipt, persist *)

integration_failure(w, code, d1) ==
  [status |-> "NOT_PERSISTED", kind |-> w.kind, failure |-> code, d1 |-> d1,
   count |-> Len(w.seen), digest |-> w.seen, artifact |-> NoBundle]

\* the runner raised, the evaluation raised, or its receipt does not verify
engine_rejects ==
  /\ sWorker.at = "fixtures"
  /\ \E code \in (IF sWorker.next <= RunFixtures THEN {"RUNNER_REJECTED"}
                  ELSE {"D1_INPUT_INVALID", "D1_RECEIPT_INVALID"}) :
       sWorker' = [at |-> "ends", key |-> sWorker.key, failure |-> "NONE",
                   receipt |-> integration_failure(sWorker, code, "NONE")]
  /\ UNCHANGED <<sRecord, sActive, sStore, sLock, sPhase, sBundle, sReplay>>

\* what the evaluation is given of an observation
map_technical_observation(o) ==
  [captured |-> o.captured, processed |-> IF o.state = "PROCESSED" THEN o.processed ELSE -1,
   disposition |-> o.state, insufficient |-> o.failure = "QUALITY_INSUFFICIENT",
   failure |-> IF o.state = "FAILED" THEN o.failure ELSE "NONE"]

\* A pass needs every fixture processed; d1 is the outcome with its failure code.
evaluated ==
  /\ sWorker.at = "fixtures" /\ sWorker.next > RunFixtures
  /\ \E d1 \in {"PASS", "NO_GO"} :
       /\ d1 = "PASS" => \A i \in 1 .. Len(sWorker.seen) :
                            map_technical_observation(sWorker.seen[i]).failure = "NONE"
       /\ sWorker' = [at |-> "persist", key |-> sWorker.key, kind |-> sWorker.kind,
                      seen |-> sWorker.seen, d1 |-> d1]
  /\ UNCHANGED <<sRecord, sActive, sStore, sLock, sPhase, sBundle, sReplay>>

artifact_payload(w) == [kind |-> w.kind, digests |-> w.seen, d1 |-> w.d1, environment |-> "current"]

persists ==
  /\ sWorker.at = "persist"
  /\ LET artifact == artifact_payload(sWorker)
     IN /\ sStore' = [sStore EXCEPT !.artifacts[sWorker.key] = artifact]
        /\ sWorker' = [at |-> "ends", key |-> sWorker.key, failure |-> "NONE",
                       receipt |-> [status |-> "PERSISTED", kind |-> sWorker.kind, failure |-> "NONE",
                                    d1 |-> sWorker.d1, count |-> Len(sWorker.seen),
                                    digest |-> sWorker.seen, artifact |-> artifact]]
  /\ UNCHANGED <<sRecord, sActive, sLock, sPhase, sBundle, sReplay>>

persist_fails ==
  /\ sWorker.at = "persist"
  /\ \E code \in {"PERSISTENCE_FAILED", "PLATFORM_UNSUPPORTED"} :
       sWorker' = [at |-> "ends", key |-> sWorker.key, failure |-> "NONE",
                   receipt |-> integration_failure(sWorker, code, sWorker.d1)]
  /\ UNCHANGED <<sRecord, sActive, sStore, sLock, sPhase, sBundle, sReplay>>

\* the callback raises outside of what the engine catches
run_raises ==
  /\ sWorker.at \in {"fixtures", "persist"}
  /\ sWorker' = [at |-> "ends", key |-> sWorker.key, failure |-> "UNEXPECTED_FAILURE", receipt |-> NoBundle]
  /\ UNCHANGED <<sRecord, sActive, sStore, sLock, sPhase, sBundle, sReplay>>

run_ends ==
  /\ sWorker.at = "ends" /\ sLock = "free"
  /\ sRecord' = [sRecord EXCEPT ![sWorker.key].status = "TERMINAL", ![sWorker.key].failure = sWorker.failure,
                                ![sWorker.key].receipt = sWorker.receipt]
  /\ sActive' = IF sActive = sWorker.key THEN Nobody ELSE sActive
  /\ sWorker' = WorkerIdle
  /\ UNCHANGED <<sStore, sLock, sPhase, sBundle, sReplay>>

------------------------------------------------------------------------------
(* Evidence *)

\* _integration_receipt: what of the run's receipt the evidence accepts
integration_receipt(r) ==
  r.status = "PERSISTED" /\ r.failure = "NONE" /\ r.d1 # "NONE" /\ r.artifact # NoBundle

\* _d1_receipt: a receipt of the evaluation that parses and verifies
d1_receipt(d1) == d1 \in {"PASS", "NO_GO"}

\* _validate_body: the run, its receipt and the artifact name one another
validate_body(run, artifact) ==
  /\ run.status = "TERMINAL" /\ run.failure = "NONE"
  /\ integration_receipt(run.receipt) /\ run.receipt.kind = run.kind
  /\ artifact.kind = run.kind /\ run.receipt.artifact = artifact
  /\ Len(artifact.digests) = run.receipt.count /\ artifact.digests = run.receipt.digest
  /\ d1_receipt(artifact.d1) /\ artifact.d1 = run.receipt.d1

\* The envelope carries the digest of its body.
validate_envelope(bundle) == bundle.intact /\ validate_body(bundle.run, bundle.artifact)

build_synthetic_evidence_bundle(k, run, artifact) ==
  [kind |-> run.kind, key |-> k, run |-> run, artifact |-> artifact, intact |-> TRUE]

\* what anyone who has the bundle is told
verify_synthetic_evidence_bytes(bundle) ==
  IF validate_envelope(bundle) THEN "EVIDENCE_VERIFIED" ELSE "EVIDENCE_REJECTED"

exportable(run) ==
  run.status = "TERMINAL" /\ run.failure = "NONE" /\ run.receipt.status = "PERSISTED"

\* mutant: the download does not take the lock of the service
export_unlocked(k) ==
  /\ sLock = "free" /\ sPhase = "open" /\ k \in StoredRuns
  /\ exportable(sRecord[k]) /\ sReplay.at = "idle"
  /\ sReplay' = [at |-> "read", key |-> k, workspace |-> "NOT_CREATED"]
  /\ UNCHANGED <<sRecord, sActive, sWorker, sStore, sLock, sPhase, sBundle>>

\* the lock is held until the artifact is read
export_begins(k) ==
  /\ sLock = "free" /\ sPhase = "open" /\ k \in StoredRuns
  /\ exportable(sRecord[k]) /\ sReplay.at = "idle"
  /\ sLock' = "export"
  /\ sReplay' = [at |-> "read", key |-> k, workspace |-> "NOT_CREATED"]
  /\ UNCHANGED <<sRecord, sActive, sWorker, sStore, sPhase, sBundle>>

\* read_verified_artifact refuses bytes that are not those of the manifest
export_reads ==
  /\ sReplay.at = "read"
  /\ LET k == sReplay.key
         artifact == sStore.artifacts[k]
         run == sRecord[k]
         bundle == build_synthetic_evidence_bundle(k, run, artifact)
     IN sBundle' = IF artifact # NoBundle /\ artifact.d1 # "DAMAGED" /\ validate_envelope(bundle)
                   THEN bundle ELSE sBundle
  /\ sLock' = "free" /\ sReplay' = NoReplay
  /\ UNCHANGED <<sRecord, sActive, sWorker, sStore, sPhase>>

artifact_damaged(k) ==
  /\ sStore.artifacts[k] # NoBundle /\ sStore.artifacts[k].d1 # "DAMAGED"
  /\ sStore' = [sStore EXCEPT !.artifacts[k].d1 = "DAMAGED"]
  /\ UNCHANGED <<sRecord, sActive, sWorker, sLock, sPhase, sBundle, sReplay>>

\* a bundle that was changed after the download no longer agrees with its digests
bundle_altered ==
  /\ sBundle # NoBundle /\ sBundle.intact /\ sReplay.at = "idle"
  /\ sBundle' = [sBundle EXCEPT !.intact = FALSE]
  /\ UNCHANGED <<sRecord, sActive, sWorker, sStore, sLock, sPhase, sReplay>>

------------------------------------------------------------------------------
(* close, in its order: no new work, the worker's end, the store, the directory *)

close_begins ==
  /\ sLock = "free" /\ sPhase = "open" /\ sPhase' = "closing"
  /\ UNCHANGED <<sRecord, sActive, sWorker, sStore, sLock, sBundle, sReplay>>

close_store ==
  /\ sPhase = "closing" /\ sWorker.at = "idle"
  /\ sPhase' = "closed" /\ sStore' = [sStore EXCEPT !.open = FALSE]
  /\ UNCHANGED <<sRecord, sActive, sWorker, sLock, sBundle, sReplay>>

close_removes ==
  /\ sPhase = "closed"
  /\ sPhase' = "removed" /\ sStore' = [sStore EXCEPT !.artifacts = [k \in ReviewKeys |-> NoBundle]]
  /\ UNCHANGED <<sRecord, sActive, sWorker, sLock, sBundle, sReplay>>

------------------------------------------------------------------------------
(* reproduce_synthetic_evidence_bytes *)

reproduction_receipt(classification, code, workspace, again, mismatch) ==
  [at |-> "receipt", classification |-> classification, failure |-> code, workspace |-> workspace,
   again |-> again, mismatch |-> mismatch]

\* the bundle is rejected, the bindings are not available, or the environment is another
reproduce_refuses ==
  /\ sBundle # NoBundle /\ sReplay.at = "idle"
  /\ \/ /\ verify_synthetic_evidence_bytes(sBundle) = "EVIDENCE_REJECTED"
        /\ sReplay' = reproduction_receipt("REPRODUCTION_FAILED", "SOURCE_EVIDENCE_REJECTED",
                                           "NOT_CREATED", NoBundle, {})
     \/ /\ verify_synthetic_evidence_bytes(sBundle) = "EVIDENCE_VERIFIED"
        /\ sReplay' = reproduction_receipt("REPRODUCTION_FAILED", "CURRENT_BINDING_UNAVAILABLE",
                                           "NOT_CREATED", NoBundle, {})
     \/ /\ verify_synthetic_evidence_bytes(sBundle) = "EVIDENCE_VERIFIED"
        /\ sReplay' = reproduction_receipt("SOURCE_REVISION_MISMATCH", "NONE", "NOT_CREATED", NoBundle, {})
  /\ UNCHANGED <<sRecord, sActive, sWorker, sStore, sLock, sPhase, sBundle>>

\* The engine runs again in a directory of its own, with the same fixtures, and finds
\* the same result, another one, or none.
replay_runs ==
  /\ sBundle # NoBundle /\ sReplay.at = "idle"
  /\ verify_synthetic_evidence_bytes(sBundle) = "EVIDENCE_VERIFIED"
  /\ \E again \in {sBundle.artifact, [sBundle.artifact EXCEPT !.d1 = "OTHER"], NoBundle},
        error \in {"REPLAY_NOT_PERSISTED", "REPLAY_EVIDENCE_INVALID", "UNEXPECTED_FAILURE"} :
       sReplay' = [at |-> "cleanup", again |-> again, error |-> error, workspace |-> "CREATED"]
  /\ UNCHANGED <<sRecord, sActive, sWorker, sStore, sLock, sPhase, sBundle>>

comparison_fields(source, again) == {f \in DOMAIN source : source[f] # again[f]}

replay_cleans ==
  /\ sReplay.at = "cleanup"
  /\ \E removed \in BOOLEAN :
       LET mismatch == comparison_fields(sBundle.artifact, sReplay.again)
       IN sReplay' =
            IF ~removed
            THEN reproduction_receipt("REPRODUCTION_FAILED", "TEMP_CLEANUP_FAILED", "CLEANUP_FAILED", NoBundle, {})
            ELSE IF sReplay.again = NoBundle
            THEN reproduction_receipt("REPRODUCTION_FAILED", sReplay.error, "NOT_CREATED", NoBundle, {})
            ELSE reproduction_receipt(IF mismatch = {} THEN "EXACTLY_REPRODUCED" ELSE "SEMANTIC_RESULT_MISMATCH",
                                      "NONE", "REMOVED", sReplay.again, mismatch)
  /\ UNCHANGED <<sRecord, sActive, sWorker, sStore, sLock, sPhase, sBundle>>

reproduce_returns ==
  /\ sReplay.at = "receipt" /\ sReplay' = NoReplay
  /\ UNCHANGED <<sRecord, sActive, sWorker, sStore, sLock, sPhase, sBundle>>

verify_reproduction_receipt_semantics(r) ==
  CASE r.classification = "EXACTLY_REPRODUCED" ->
         r.failure = "NONE" /\ r.workspace = "REMOVED" /\ r.mismatch = {} /\ r.again = sBundle.artifact
    [] r.classification = "SOURCE_REVISION_MISMATCH" ->
         r.failure = "NONE" /\ r.workspace = "NOT_CREATED" /\ r.mismatch = {} /\ r.again = NoBundle
    [] r.classification = "SEMANTIC_RESULT_MISMATCH" ->
         /\ r.failure = "NONE" /\ r.workspace = "REMOVED" /\ r.again # NoBundle
         /\ r.mismatch # {} /\ r.mismatch = comparison_fields(sBundle.artifact, r.again)
    [] OTHER -> r.classification = "REPRODUCTION_FAILED" /\ r.failure # "NONE" /\ r.mismatch = {}

SynNext ==
  \/ \E k \in ReviewKeys : \/ \E kind \in Kinds : submit(k, kind)
                           \/ export_begins(k) \/ artifact_damaged(k)
  \/ run_starts \/ fixture_runs \/ engine_rejects \/ evaluated \/ persists \/ persist_fails
  \/ run_raises \/ run_ends \/ export_reads \/ bundle_altered
  \/ close_begins \/ close_store \/ close_removes
  \/ reproduce_refuses \/ replay_runs \/ replay_cleans \/ reproduce_returns

SynSpec == SynInit /\ [][SynNext]_synVars

------------------------------------------------------------------------------
(* What the evidence is worth *)

\* The fixtures of which the runner accepted the clock readings.
Accepted(seen) == {i \in 1 .. Len(seen) : seen[i].state = "PROCESSED"}

\* Nothing reads or writes the store once close has closed it, whatever was running when
\* it began, so a download never fails for that; and an exported bundle belongs to one
\* run: its fixtures in order, its times increasing over the ones that failed in
\* between, a pass only without a failure, and every receipt about its reproduction
\* verifies (SyntheticReviewService, SyntheticRunner.process, _validate_body).
SyntheticEvidenceSound ==
  /\ sReplay.at = "read" \/ sWorker.at = "persist" => sStore.open
  /\ sBundle # NoBundle =>
       LET seen == sBundle.artifact.digests
           taken == Accepted(seen)
       IN /\ sBundle.run = sRecord[sBundle.key] /\ sBundle.artifact = sBundle.run.receipt.artifact
          /\ Len(seen) = RunFixtures /\ \A i \in 1 .. Len(seen) : seen[i].seq = i
          /\ \A i, j \in taken : i < j => /\ seen[i].captured < seen[j].captured
                                          /\ seen[i].processed <= seen[j].processed
          /\ sBundle.artifact.d1 = "PASS" => taken = 1 .. Len(seen)
  /\ sReplay.at = "receipt" => verify_reproduction_receipt_semantics(sReplay)
==============================================================================
