--------------------------- MODULE ModelRegistry ---------------------------
(***************************************************************************)
(* The model registry (showcase/model_import.py, model_runtime.py): a      *)
(* bundle is staged, verified, published under its digest and made active  *)
(* by replacing one pointer file; predictions and status answers come from *)
(* a runtime that is cached with the digest and the fingerprint of the     *)
(* files it was built from: their names, sizes and times of last change,   *)
(* never what they hold.                                                   *)
(*                                                                         *)
(* Two threads use one registry without a lock: the capture worker asks    *)
(* for predictions, a request imports a bundle or asks for the status.     *)
(* The workspace checks that nothing records before it waits for its own   *)
(* lock, and a capture worker that did not stop in time may still be       *)
(* asking.  The three fields of the cache are compared one by one, the     *)
(* runtime is read again to return it, and they are stored and cleared one *)
(* by one.  One load reads the files in one step.                          *)
(***************************************************************************)
EXTENDS Integers, FiniteSets

CONSTANTS Bundles,        \* the bundles a reviewer imports, by digest
          Sound,          \* those that pass every check
          Research,       \* those trained on research data; the others are for demonstration
          MaxRegistryCrashes,
          MaxImports      \* bound: the imports
ASSUME RegistryAssumption == Research \subseteq Sound /\ Sound \subseteq Bundles /\ {MaxRegistryCrashes, MaxImports} \subseteq Nat

VARIABLES mVersion,    \* versions/<digest>: absent, intact, damaged, or disguised: damaged
                       \* with the sizes and times it had
          mPointer,    \* active.json
          mCache,      \* _cached_digest, _cached_fingerprint, _cached_runtime
          mHttp,       \* the request
          mCamera,     \* the capture worker
          mAnswer,     \* the prediction given last, until the worker asks again
          mOverlap,    \* history: the last import and a call of the capture worker overlapped
          mLeft,       \* staging directories and partial pointers a crash left behind
          mImports, mCrashes

registryVars == <<mVersion, mPointer, mCache, mHttp, mCamera, mAnswer, mOverlap, mLeft, mImports, mCrashes>>

NoBundleYet == "none"
NoPrint == <<NoBundleYet, "none">>
EmptyCache == [digest |-> NoBundleYet, print |-> NoPrint, runtime |-> NoBundleYet]
RegistryIdle == [at |-> "idle", bundle |-> NoBundleYet, print |-> NoPrint, runtime |-> NoBundleYet]
NoAnswer == [outcome |-> "NONE", source |-> "NONE", model |-> NoBundleYet]

RegistryInit ==
  /\ mVersion = [b \in Bundles |-> "absent"] /\ mPointer = NoBundleYet /\ mCache = EmptyCache
  /\ mHttp = RegistryIdle /\ mCamera = RegistryIdle /\ mAnswer = NoAnswer /\ mOverlap = FALSE
  /\ mLeft = 0 /\ mImports = 0 /\ mCrashes = 0

------------------------------------------------------------------------------
(* import_bundle, step by step *)

\* the archive, the allowlist, the sizes and the checksums of the files
verify_staged_contract(b, form) == b \in Sound /\ form = "intact"

\* ModelRuntime.from_bundle: the contract, the session and its golden tensors
from_bundle(b, form) == IF verify_staged_contract(b, form) THEN "READY" ELSE "MODEL_INTEGRITY_FAILED"

import_begins(b) ==
  /\ mHttp = RegistryIdle /\ mImports < MaxImports
  /\ mImports' = mImports + 1
  /\ mHttp' = [RegistryIdle EXCEPT !.at = IF mVersion[b] = "absent" THEN "stage" ELSE "recheck", !.bundle = b]
  /\ UNCHANGED <<mVersion, mPointer, mCache, mCamera, mAnswer, mOverlap, mLeft, mCrashes>>

\* the staging directory is removed again when the bundle does not verify
stage_verifies ==
  /\ mHttp.at = "stage"
  /\ mHttp' = IF verify_staged_contract(mHttp.bundle, "intact") /\ from_bundle(mHttp.bundle, "intact") = "READY"
              THEN [mHttp EXCEPT !.at = "publish"] ELSE RegistryIdle
  /\ UNCHANGED <<mVersion, mPointer, mCache, mCamera, mAnswer, mOverlap, mLeft, mImports, mCrashes>>

publish ==
  /\ mHttp.at = "publish"
  /\ mVersion' = [mVersion EXCEPT ![mHttp.bundle] = "intact"]
  /\ mHttp' = [mHttp EXCEPT !.at = "point"]
  /\ UNCHANGED <<mPointer, mCache, mCamera, mAnswer, mOverlap, mLeft, mImports, mCrashes>>

\* a version that is already there is verified where it is
recheck ==
  /\ mHttp.at = "recheck"
  /\ mHttp' = IF from_bundle(mHttp.bundle, mVersion[mHttp.bundle]) = "READY"
              THEN [mHttp EXCEPT !.at = "point"] ELSE RegistryIdle
  /\ UNCHANGED <<mVersion, mPointer, mCache, mCamera, mAnswer, mOverlap, mLeft, mImports, mCrashes>>

\* the partial pointer is written and flushed, then replaces active.json
activate ==
  /\ mHttp.at = "point"
  /\ mPointer' = mHttp.bundle
  /\ mHttp' = [mHttp EXCEPT !.at = "clear_digest"]
  /\ mOverlap' = (mCamera # RegistryIdle)
  /\ UNCHANGED <<mVersion, mCache, mCamera, mAnswer, mLeft, mImports, mCrashes>>

\* the three fields, and the status that the request answers with
clear_cache ==
  /\ \/ /\ mHttp.at = "clear_digest"
        /\ mCache' = [mCache EXCEPT !.digest = NoBundleYet] /\ mHttp' = [mHttp EXCEPT !.at = "clear_print"]
     \/ /\ mHttp.at = "clear_print"
        /\ mCache' = [mCache EXCEPT !.print = NoPrint] /\ mHttp' = [mHttp EXCEPT !.at = "clear_runtime"]
     \/ /\ mHttp.at = "clear_runtime"
        /\ mCache' = [mCache EXCEPT !.runtime = NoBundleYet] /\ mHttp' = [RegistryIdle EXCEPT !.at = "find"]
  /\ UNCHANGED <<mVersion, mPointer, mCamera, mAnswer, mOverlap, mLeft, mImports, mCrashes>>

Clearing == {"clear_digest", "clear_print", "clear_runtime"}

------------------------------------------------------------------------------
(* status and predictions: _runtime_for_active, by either thread *)

\* active_bundle: what the pointer names, unless its directory is no longer complete
active_bundle ==
  {mPointer} \cup (IF mPointer # NoBundleYet /\ mVersion[mPointer] = "damaged" THEN {NoBundleYet} ELSE {})

fingerprint(b) == <<b, IF mVersion[b] = "damaged" THEN "other" ELSE "written">>

\* mutant: the fingerprint is not compared
same_files_by_digest(c) == mCache.digest = c.bundle

same_files(c) == mCache.print = c.print

goes(c, at) == [c EXCEPT !.at = at]
step_of(cache, caller) == [cache |-> cache, caller |-> caller]

\* The fingerprint is taken, each field of the cache is compared, and the cached runtime
\* is read once more to be returned
cache_step(c) ==
  CASE c.at = "print"  -> step_of(mCache, [c EXCEPT !.at = "digest", !.print = fingerprint(c.bundle)])
    [] c.at = "digest" -> step_of(mCache, goes(c, IF mCache.digest = c.bundle THEN "same" ELSE "verify_load"))
    [] c.at = "same"   -> step_of(mCache, goes(c, IF same_files(c) THEN "there" ELSE "verify_load"))
    [] c.at = "there"  -> step_of(mCache, goes(c, IF mCache.runtime # NoBundleYet THEN "return" ELSE "verify_load"))
    [] c.at = "return" -> step_of(mCache, [c EXCEPT !.at = "use", !.runtime = mCache.runtime])

\* A bundle that does not verify where it lies leaves the cache as it is; one that does
\* not load after that clears it, and its runtime says nothing
load_step(c) ==
  CASE c.at = "verify_load" -> step_of(mCache, IF verify_staged_contract(c.bundle, mVersion[c.bundle])
                                               THEN goes(c, "load") ELSE RegistryIdle)
    [] c.at = "load" -> step_of(mCache, IF from_bundle(c.bundle, mVersion[c.bundle]) = "READY"
                                        THEN [c EXCEPT !.at = "store_digest", !.runtime = c.bundle]
                                        ELSE goes(c, "wipe_digest"))
    [] c.at = "store_digest"  -> step_of([mCache EXCEPT !.digest = c.bundle], goes(c, "store_print"))
    [] c.at = "store_print"   -> step_of([mCache EXCEPT !.print = c.print], goes(c, "store_runtime"))
    [] c.at = "store_runtime" -> step_of([mCache EXCEPT !.runtime = c.runtime], goes(c, "use"))
    [] c.at = "wipe_digest"   -> step_of([mCache EXCEPT !.digest = NoBundleYet], goes(c, "wipe_print"))
    [] c.at = "wipe_print"    -> step_of([mCache EXCEPT !.print = NoPrint], goes(c, "wipe_runtime"))
    [] c.at = "wipe_runtime"  -> step_of([mCache EXCEPT !.runtime = NoBundleYet], RegistryIdle)

Looking == {"print", "digest", "same", "there", "return"}
Loading == {"verify_load", "load", "store_digest", "store_print", "store_runtime", "wipe_digest", "wipe_print",
            "wipe_runtime"}

runtime_step(c) == IF c.at \in Looking THEN cache_step(c) ELSE load_step(c)

\* ModelRuntime.infer_pose_tensor: a demonstration model has no answer about a real
\* session; what the quality, the context and the confidence allow, it decides.
infer(runtime, source) ==
  IF source = "REAL" /\ runtime \notin Research THEN {"NONE"}
  ELSE {"NONE", "TECHNICAL_INSUFFICIENT", "NORMAL", "REVIEW_REQUIRED"}

\* A runtime that is not there is an AttributeError, which nobody on the way catches
infer_pose_tensor ==
  /\ \/ /\ mCamera = RegistryIdle
        /\ \E b \in active_bundle \ {NoBundleYet} : mCamera' = [RegistryIdle EXCEPT !.at = "print", !.bundle = b]
        /\ mAnswer' = NoAnswer /\ mOverlap' = (mOverlap \/ mHttp.at \in Clearing) /\ UNCHANGED mCache
     \/ /\ mCamera.at \in Looking \cup Loading
        /\ mCamera' = runtime_step(mCamera).caller /\ mCache' = runtime_step(mCamera).cache
        /\ UNCHANGED <<mAnswer, mOverlap>>
     \/ /\ mCamera.at = "use" /\ mCamera' = RegistryIdle
        /\ IF mCamera.runtime = NoBundleYet THEN mAnswer' = [NoAnswer EXCEPT !.outcome = "RAISED"]
           ELSE \E source \in {"REAL", "SYNTHETIC_PROGRAMMATIC"} : \E outcome \in infer(mCamera.runtime, source) :
                  mAnswer' = IF outcome = "NONE" THEN NoAnswer
                             ELSE [outcome |-> outcome, source |-> source, model |-> mCamera.runtime]
        /\ UNCHANGED <<mCache, mOverlap>>
  /\ UNCHANGED <<mVersion, mPointer, mHttp, mLeft, mImports, mCrashes>>

status_begins ==
  /\ mHttp = RegistryIdle
  /\ mHttp' = [RegistryIdle EXCEPT !.at = "find"]
  /\ UNCHANGED <<mVersion, mPointer, mCache, mCamera, mAnswer, mOverlap, mLeft, mImports, mCrashes>>

\* The status verifies the files first.  Without a runtime it validates them once more.
registry_status ==
  /\ \/ /\ mHttp.at = "find" /\ mCache' = mCache
        /\ \E b \in active_bundle :
             mHttp' = IF b = NoBundleYet THEN RegistryIdle ELSE [RegistryIdle EXCEPT !.at = "verify", !.bundle = b]
     \/ /\ mHttp.at = "verify" /\ mCache' = mCache
        /\ mHttp' = IF verify_staged_contract(mHttp.bundle, mVersion[mHttp.bundle]) THEN goes(mHttp, "print")
                    ELSE RegistryIdle
     \/ /\ mHttp.at \in Looking \cup Loading
        /\ mHttp' = runtime_step(mHttp).caller /\ mCache' = runtime_step(mHttp).cache
     \/ /\ mHttp.at = "use" /\ mHttp' = RegistryIdle /\ mCache' = mCache
  /\ UNCHANGED <<mVersion, mPointer, mCamera, mAnswer, mOverlap, mLeft, mImports, mCrashes>>

------------------------------------------------------------------------------
(* The environment *)

version_damaged(b) ==
  /\ mVersion[b] = "intact"
  /\ \E form \in {"damaged", "disguised"} : mVersion' = [mVersion EXCEPT ![b] = form]
  /\ UNCHANGED <<mPointer, mCache, mHttp, mCamera, mAnswer, mOverlap, mLeft, mImports, mCrashes>>

registry_crash ==
  /\ mCrashes < MaxRegistryCrashes /\ mCrashes' = mCrashes + 1
  /\ mLeft' = IF mHttp.at \in {"stage", "publish", "point"} THEN mLeft + 1 ELSE mLeft
  /\ mCache' = EmptyCache /\ mHttp' = RegistryIdle /\ mCamera' = RegistryIdle
  /\ mAnswer' = NoAnswer /\ mOverlap' = FALSE
  /\ UNCHANGED <<mVersion, mPointer, mImports>>

RegistryNext ==
  \/ \E b \in Bundles : import_begins(b) \/ version_damaged(b)
  \/ stage_verifies \/ publish \/ recheck \/ activate \/ clear_cache
  \/ infer_pose_tensor \/ status_begins \/ registry_status \/ registry_crash

RegistrySpec == RegistryInit /\ [][RegistryNext]_registryVars

------------------------------------------------------------------------------
\* Whatever was interrupted before, and however the reads, stores and clears of the two
\* threads interleave: the pointer moves only to a complete version that passed every
\* check, a runtime is only ever one of a bundle that did, and nothing is said about a
\* real session but by a research model (import_bundle, infer_pose_tensor).  A call goes
\* on to its runtime only if it saw the files with the sizes and times they were
\* published with.  The runtime is that of the bundle it asked for, or none when the files
\* have changed since; only when a call of the capture worker overlapped the last import may
\* a call, until the next import, get another bundle's or none (the fields of the cache are
\* then a mixture, which stays: _runtime_for_active).
OnlyVerifiedServes ==
  [][/\ mPointer' # mPointer => mPointer' \in Sound /\ mVersion[mPointer'] # "absent"
     /\ {mCache'.runtime, mCamera'.runtime} \subseteq Sound \cup {NoBundleYet}
     /\ mCamera'.at = "use" =>
          /\ mCamera'.print = <<mCamera'.bundle, "written">>
          /\ \/ mOverlap' \/ mCamera'.runtime = mCamera'.bundle
             \/ mCamera'.runtime = NoBundleYet /\ mVersion'[mCamera'.bundle] # "intact"
     /\ mAnswer'.source = "REAL" => mAnswer'.model \in Research]_registryVars

\* What MODEL_EVALUATION_SPEC.md:71 says of an import, that it "atomically activates the
\* version": when no call and no request is under way, what the cache offers under the
\* active bundle's digest and fingerprint is that bundle (_runtime_for_active).
ActivatedServes ==
  mHttp = RegistryIdle /\ mCamera = RegistryIdle /\ mCache.digest = mPointer
    /\ mCache.print = <<mPointer, "written">> => mCache.runtime \in {mPointer, NoBundleYet}
==============================================================================
