-------------------------- MODULE BootstrapInstall --------------------------
(***************************************************************************)
(* The one-shot installation of the bootstrap bundle and the reader that   *)
(* later accepts it (m2_d1_n2_bootstrap_install.py,                        *)
(* m2_d1_n2_bootstrap_win32.py).                                           *)
(*                                                                         *)
(* Three files: a partial, which carries first the bundle and then the     *)
(* receipt, and the two names it is moved to, never over an existing file. *)
(* Every file is opened with share mode zero, so a file one process has    *)
(* open can be neither opened nor moved by another.  Installers work under *)
(* the authority mutex; the receipt says that everything was closed, so it *)
(* is moved into place last, after the mutex was released.  Readers take   *)
(* no mutex.  Any call may fail and any process may die; nothing is ever   *)
(* retried or removed.                                                     *)
(***************************************************************************)
EXTENDS Naturals

CONSTANTS Installers,  \* processes that install, each its own approved bundle
          Readers      \* processes that inspect what is installed

\* Process ids, told apart from each other and from the values that stand for nobody
ASSUME BootAssumption ==
  /\ Installers \cap Readers = {}
  /\ {"none", "free", "abandoned"} \cap (Installers \cup Readers) = {}

VARIABLES
  bFile,    \* the file under each of the three names
  bOpen,    \* the process that has it open, or "none"
  bMutex,   \* the authority mutex: "free", "abandoned" or its owner
  bInst,    \* the installers: where they are and what they returned
  bRead     \* the readers: where they are and what they have seen

bootVars == <<bFile, bOpen, bMutex, bInst, bRead>>

BootLeaves == {"bundle", "receipt", "partial"}
NoFile == [kind |-> "none"]
\* whole: every byte was written and read back
File(p, kind, whole) == [kind |-> kind, by |-> p, whole |-> whole]

Opens(p) == {l \in BootLeaves : bOpen[l] = p}
Freed(p, kept) == [l \in BootLeaves |-> IF bOpen[l] = p /\ l \notin kept THEN "none" ELSE bOpen[l]]

Unread == [pc |-> "idle", seen |-> {}, blind |-> FALSE]

BootInit ==
  /\ bFile = [l \in BootLeaves |-> NoFile]
  /\ bOpen = [l \in BootLeaves |-> "none"]
  /\ bMutex = "free"
  /\ bInst = [p \in Installers |-> [pc |-> "idle", result |-> "NONE"]]
  /\ bRead = [r \in Readers |-> Unread]

boot_at(p, pc) == bInst[p].pc = pc
boot_step(p, pc) == bInst' = [bInst EXCEPT ![p].pc = pc]
boot_returns(p, result) == bInst' = [bInst EXCEPT ![p] = [pc |-> "done", result |-> result]]

\* What p may fail to give back: its files and the mutex
Owned(p) == Opens(p) \cup (IF bMutex = p THEN {"mutex"} ELSE {})
give_back(p, kept) ==
  /\ bOpen' = Freed(p, kept)
  /\ bMutex' = IF bMutex = p /\ "mutex" \notin kept THEN "free" ELSE bMutex

\* _failure: close everything; whatever cannot be closed changes the result
boot_failure(p, primary) ==
  \E kept \in SUBSET Owned(p) :
    /\ give_back(p, kept)
    /\ boot_returns(p, IF kept = {} THEN primary ELSE "CLEANUP_FAILED")

------------------------------------------------------------------------------
(* OneShotBootstrapInstaller.install *)

\* verify_approved_bootstrap_bundle comes before anything is touched
install(p) ==
  /\ boot_at(p, "idle")
  /\ boot_step(p, "acquire") \/ boot_returns(p, "INVALID_INPUT")
  /\ UNCHANGED <<bFile, bOpen, bMutex, bRead>>

\* FixedBootstrapInstallMutex.acquire: an abandoned mutex is taken, refused and
\* released.  Then the parent directory, which may be unavailable or not valid.
boot_acquire(p) ==
  /\ boot_at(p, "acquire")
  /\ UNCHANGED <<bFile, bOpen, bRead>>
  /\ \/ bMutex = "free" /\ bMutex' = p /\ boot_step(p, "bundle")
     \/ bMutex \in Installers /\ UNCHANGED bMutex /\ boot_returns(p, "WRITE_FAILED")
     \/ /\ bMutex \in {"free", "abandoned"}
        /\ \/ bMutex' = "free" /\ \E res \in {"WRITE_FAILED", "DURABILITY_FAILED"} : boot_returns(p, res)
           \/ bMutex' = p /\ boot_returns(p, "CLEANUP_FAILED")

\* _preflight_absence asks for the three names one after the other; whatever exists is
\* held open until the failure closes it
NextName == [bundle |-> "receipt", receipt |-> "partial", partial |-> "create"]
preflight_absence(p) ==
  /\ UNCHANGED <<bFile, bMutex, bRead>>
  /\ \E l \in BootLeaves :
       /\ boot_at(p, l)
       /\ boot_step(p, NextName[l])
       /\ bOpen' = IF bFile[l] # NoFile /\ bOpen[l] = "none" THEN [bOpen EXCEPT ![l] = p] ELSE bOpen
       /\ bFile[l] = NoFile \/ bOpen[l] = "none"

\* A name that cannot be asked for is ambiguous
preflight_ambiguous(p) ==
  /\ bInst[p].pc \in BootLeaves
  /\ boot_failure(p, "WRITE_FAILED")
  /\ UNCHANGED <<bFile, bRead>>

\* Create the partial, create-only, for the bundle or for the receipt
create_new(p, kind) ==
  IF bFile["partial"] = NoFile
  THEN /\ bFile' = [bFile EXCEPT !["partial"] = File(p, kind, FALSE)]
       /\ bOpen' = [bOpen EXCEPT !["partial"] = p]
       /\ boot_step(p, IF kind = "bundle" THEN "write" ELSE "write_receipt")
       /\ UNCHANGED bMutex
  ELSE boot_failure(p, "ALREADY_EXISTS") /\ UNCHANGED bFile

create_partial(p) ==
  /\ boot_at(p, "create")
  /\ IF Opens(p) # {} THEN boot_failure(p, "ALREADY_EXISTS") /\ UNCHANGED bFile
                      ELSE create_new(p, "bundle")
  /\ UNCHANGED bRead

\* _write_exact: written, flushed and read back, or a failure that leaves what was
\* written so far
write_exact(p, pc, next) ==
  /\ boot_at(p, pc)
  /\ \/ /\ bFile' = [bFile EXCEPT !["partial"].whole = TRUE]
        /\ boot_step(p, next) /\ UNCHANGED <<bOpen, bMutex>>
     \/ /\ UNCHANGED bFile
        /\ \E primary \in {"WRITE_FAILED", "DURABILITY_FAILED", "READBACK_FAILED"} : boot_failure(p, primary)
  /\ UNCHANGED bRead

\* The handle must be closed before the file can be moved
close_owned(p) ==
  /\ boot_at(p, "close_partial")
  /\ \/ bOpen' = [bOpen EXCEPT !["partial"] = "none"] /\ boot_step(p, "promote") /\ UNCHANGED bMutex
     \/ boot_failure(p, "CLEANUP_FAILED")
  /\ UNCHANGED <<bFile, bRead>>

\* MoveFileExW without replacement: the source is nobody's to hold, the target is free
Movable(to) == bFile["partial"] # NoFile /\ bOpen["partial"] = "none" /\ bFile[to] = NoFile
move_fixed(to) == bFile' = [bFile EXCEPT ![to] = bFile["partial"], !["partial"] = NoFile]

promote_bundle(p) ==
  /\ boot_at(p, "promote")
  /\ \/ Movable("bundle") /\ move_fixed("bundle") /\ boot_step(p, "verify") /\ UNCHANGED <<bOpen, bMutex>>
     \/ UNCHANGED bFile /\ boot_failure(p, "WRITE_FAILED")
  /\ UNCHANGED bRead

\* The parent is flushed; the bundle is opened again and compared
verify_final_bundle(p) ==
  /\ boot_at(p, "verify")
  /\ \/ /\ bOpen["bundle"] = "none" /\ bFile["bundle"] = File(p, "bundle", TRUE)
        /\ bOpen' = [bOpen EXCEPT !["bundle"] = p]
        /\ boot_step(p, "create_receipt") /\ UNCHANGED bMutex
     \/ \E primary \in {"DURABILITY_FAILED", "READBACK_FAILED"} : boot_failure(p, primary)
  /\ UNCHANGED <<bFile, bRead>>

create_receipt(p) ==
  /\ boot_at(p, "create_receipt")
  /\ create_new(p, "receipt") \/ (boot_failure(p, "WRITE_FAILED") /\ UNCHANGED bFile)
  /\ UNCHANGED bRead

\* mutant: what could not be closed is not asked about before the receipt is published
close_all_unchecked(p) ==
  /\ boot_at(p, "close_all")
  /\ \E kept \in SUBSET Owned(p) : give_back(p, kept)
  /\ boot_step(p, "publish")
  /\ UNCHANGED <<bFile, bRead>>

\* Flush the parent; close the files, the parent and the mutex; only then publish
close_all(p) ==
  /\ boot_at(p, "close_all")
  /\ \/ give_back(p, {}) /\ boot_step(p, "publish")
     \/ boot_failure(p, "DURABILITY_FAILED")
  /\ UNCHANGED <<bFile, bRead>>

publish_receipt(p) ==
  /\ boot_at(p, "publish")
  /\ \/ Movable("receipt") /\ move_fixed("receipt") /\ boot_returns(p, "INSTALLED")
     \/ UNCHANGED bFile /\ boot_returns(p, "WRITE_FAILED")
  /\ UNCHANGED <<bOpen, bMutex, bRead>>

\* The process ends, at any point
installer_ends(p) ==
  /\ bInst[p].pc # "idle" /\ ~(boot_at(p, "done") /\ Owned(p) = {})
  /\ bOpen' = Freed(p, {})
  /\ bMutex' = IF bMutex = p THEN "abandoned" ELSE bMutex
  /\ boot_step(p, "done")
  /\ UNCHANGED <<bFile, bRead>>

InstallerStep(p) ==
  \/ install(p) \/ boot_acquire(p) \/ preflight_absence(p) \/ preflight_ambiguous(p) \/ create_partial(p)
  \/ write_exact(p, "write", "close_partial") \/ close_owned(p) \/ promote_bundle(p)
  \/ verify_final_bundle(p) \/ create_receipt(p) \/ write_exact(p, "write_receipt", "close_all")
  \/ close_all(p) \/ publish_receipt(p) \/ installer_ends(p)

------------------------------------------------------------------------------
(* FixedBootstrapReader.inspect *)

reader_to(r, pc) == bRead' = [bRead EXCEPT ![r].pc = pc]

\* The partial first: if there is one, or it cannot be told, that is the end
inspect_partial(r) ==
  /\ bRead[r].pc = "idle"
  /\ IF bFile["partial"] = NoFile THEN reader_to(r, "bundle") /\ UNCHANGED bOpen
     ELSE /\ reader_to(r, "poisoned")
          /\ bOpen' = IF bOpen["partial"] = "none" THEN [bOpen EXCEPT !["partial"] = r] ELSE bOpen
  /\ UNCHANGED <<bFile, bMutex, bInst>>

\* The bundle and then the receipt, whatever became of the bundle
inspect_leaf(r, l, next) ==
  /\ bRead[r].pc = l
  /\ LET free == bFile[l] # NoFile /\ bOpen[l] = "none"
     IN /\ bOpen' = IF free THEN [bOpen EXCEPT ![l] = r] ELSE bOpen
        /\ bRead' = [bRead EXCEPT ![r] = [pc |-> next,
                                          seen |-> IF free THEN @.seen \cup {l} ELSE @.seen,
                                          blind |-> @.blind \/ (bFile[l] # NoFile /\ ~free)]]
  /\ UNCHANGED <<bFile, bMutex, bInst>>

\* parse_provisioning_receipt and verify_approved_bootstrap_bundle on what the handles
\* hold: a whole receipt, in the file it names, of the bundle that is there
Matches(b, rc) ==
  /\ b.kind = "bundle" /\ b.whole
  /\ rc.kind = "receipt" /\ rc.whole
  /\ rc.by = b.by

inspect_decides(r) ==
  /\ bRead[r].pc = "decide"
  /\ LET s == bRead[r] IN
       \/ ~ s.blind /\ s.seen = {"bundle", "receipt"} /\ Matches(bFile["bundle"], bFile["receipt"])
          /\ reader_to(r, "installed")
       \/ ~ s.blind /\ s.seen = {} /\ reader_to(r, "absent")
       \/ reader_to(r, "poisoned")
  /\ UNCHANGED <<bFile, bOpen, bMutex, bInst>>

\* The lease, or what a failed inspection still holds, is closed, or the process ends;
\* then somebody may look again
reader_closes(r) ==
  /\ bRead[r].pc \in {"installed", "absent", "poisoned"}
  /\ bOpen' = Freed(r, {})
  /\ bRead' = [bRead EXCEPT ![r] = Unread]
  /\ UNCHANGED <<bFile, bMutex, bInst>>

ReaderStep(r) ==
  \/ inspect_partial(r) \/ inspect_leaf(r, "bundle", "receipt") \/ inspect_leaf(r, "receipt", "decide")
  \/ inspect_decides(r) \/ reader_closes(r)

BootNext == (\E p \in Installers : InstallerStep(p)) \/ (\E r \in Readers : ReaderStep(r))

BootSpec == BootInit /\ [][BootNext]_bootVars

------------------------------------------------------------------------------
\* A receipt in its place tells the truth for ever, though it was moved there without
\* the mutex: its installer wrote the whole bundle that is there, holds no file and no
\* mutex, and left no partial; INSTALLED was reported for that pair only, and a
\* reader that accepts holds that pair open (install, _ClosedReceiptCandidate,
\* inspect).
ReceiptTruthful ==
  /\ bFile["receipt"] # NoFile =>
       LET p == bFile["receipt"].by IN
       /\ Matches(bFile["bundle"], bFile["receipt"])
       /\ bFile["partial"] = NoFile
       /\ Owned(p) = {}
  /\ \A p \in Installers : bInst[p].result = "INSTALLED" => bFile["receipt"] = File(p, "receipt", TRUE)
  /\ \A r \in Readers : bRead[r].pc = "installed" =>
       Opens(r) = {"bundle", "receipt"} /\ Matches(bFile["bundle"], bFile["receipt"])
=============================================================================
