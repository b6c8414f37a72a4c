--------------------------- MODULE AuthorityChain ---------------------------
(***************************************************************************)
(* The single-use authority of one D1-N2 camera attempt.                   *)
(*                                                                         *)
(* Supervisor processes share three leaf files and one named mutex.  A     *)
(* supervisor prepares the authority (PENDING, then PREPARED, in one       *)
(* leaf), waits for an external decision, consumes it, issues a worker     *)
(* grant, starts the driver, revokes the grant and writes the terminal     *)
(* record.  Every mutation takes the mutex, leases the directory, compares *)
(* the leaf with the record it expects, writes it in place, reads it back  *)
(* and cleans up; every one of those steps may fail, and the process may   *)
(* end between any two.                                                    *)
(*                                                                         *)
(* A record is its kind and the supervisor (epoch) that wrote it: each     *)
(* epoch writes at most one record of a kind, so equality of such pairs is *)
(* equality of the bytes and of the digests that chain the records.        *)
(* Sources: m2_d1_n2_canonical.py, m2_d1_n2_adapter.py,                    *)
(* m2_d1_n2_entrypoint.py, m2_d1_n2_native.py (the execution bridge),      *)
(* m2_d1_n2_win32.py, m2_d1_n2_win32_store.py, m2_d1_n2_a0.py.             *)
(***************************************************************************)
EXTENDS Naturals, FiniteSets

CONSTANTS Supervisors,  \* processes, one process epoch each
          Faulty        \* whether storage, leases and cleanup may fail

ASSUME ChainAssumption == Faulty \in BOOLEAN /\ {"free", "abandoned"} \cap Supervisors = {}

VARIABLES
  leaf,    \* the three authority files: Absent, Torn or a record
  mutex,   \* the named mutex: "free", "abandoned" or its owner
  sup      \* what each supervisor holds in memory, and where it is

chainVars == <<leaf, mutex, sup>>

Leaves == {"PREPARED", "GRANT", "TERMINAL"}
Absent == [kind |-> "ABSENT"]
Torn   == [kind |-> "TORN"]
Rec(k, p) == [kind |-> k, by |-> p]

\* OperationKind, with the two writes of prepare told apart
Ops == {"PENDING", "PREPARE", "CONSUME", "ISSUE_GRANT", "REVOKE_GRANT", "TERMINALIZE"}

\* classify_canonical_leaf_record: the kinds of record a leaf may hold
LeafKinds ==
  [PREPARED |-> {"PENDING", "PREPARED", "CONSUMED"},
   GRANT    |-> {"ISSUED", "REVOKED"},
   TERMINAL |-> {"TERMINAL"}]

\* The leaf an operation writes, the record it must find there, and the one it writes
Target(op) == CASE op \in {"PENDING", "PREPARE", "CONSUME"}   -> "PREPARED"
                [] op \in {"ISSUE_GRANT", "REVOKE_GRANT"}     -> "GRANT"
                [] op = "TERMINALIZE"                         -> "TERMINAL"
Prior(op, p) == CASE op = "PREPARE"      -> Rec("PENDING", p)
                  [] op = "CONSUME"      -> Rec("PREPARED", p)
                  [] op = "REVOKE_GRANT" -> Rec("ISSUED", p)
                  [] OTHER               -> Absent
Result(op, p) == CASE op = "PENDING"      -> Rec("PENDING", p)
                   [] op = "PREPARE"      -> Rec("PREPARED", p)
                   [] op = "CONSUME"      -> Rec("CONSUMED", p)
                   [] op = "ISSUE_GRANT"  -> Rec("ISSUED", p)
                   [] op = "REVOKE_GRANT" -> Rec("REVOKED", p)
                   [] op = "TERMINALIZE"  -> Rec("TERMINAL", p)

States == {"UNKNOWN", "ABSENT", "PENDING", "PREPARED", "PREPARED_NONLAUNCHABLE",
           "STALE_PREPARED", "CONSUMED_NO_GRANT", "ISSUED", "REVOKED_TERMINAL_PENDING",
           "TERMINAL", "TERMINAL_DURABILITY_UNVERIFIED", "PRESENT_INVALID"}

\* The lifecycle state after an exact write
Reached(op) == CASE op = "PENDING"      -> "PENDING"
                 [] op = "PREPARE"      -> "PREPARED"
                 [] op = "CONSUME"      -> "CONSUMED_NO_GRANT"
                 [] op = "ISSUE_GRANT"  -> "ISSUED"
                 [] op = "REVOKE_GRANT" -> "REVOKED_TERMINAL_PENDING"
                 [] op = "TERMINALIZE"  -> "TERMINAL"

Fresh ==
  [ctl      |-> "UNINITIALIZED",  \* D1N2ControllerState
   pc       |-> "idle",           \* the next step inside prepare or run
   op       |-> "PENDING",        \* the mutation under way
   out      |-> "OK",             \* its outcome so far
   state    |-> "UNKNOWN",        \* lifecycle state
   live     |-> "none",           \* _live_prepared / _live_consumed
   raw      |-> "none",           \* _grant_raw and _grant_handed_off
   expired  |-> FALSE,            \* the grant's monotonic deadline has passed
   used     |-> FALSE,            \* grant.used
   retained |-> "none",           \* the A0 and preparation leases
   driver   |-> "none",           \* what the driver did
   cleanOk  |-> TRUE,             \* cleanup_ok of the bridge
   stuck    |-> FALSE]            \* a release of the mutex failed

ChainInit ==
  /\ leaf = [l \in Leaves |-> Absent]
  /\ mutex = "free"
  /\ sup = [p \in Supervisors |-> Fresh]

Faults == IF Faulty THEN {TRUE, FALSE} ELSE {FALSE}

\* Record r with the fields of f put over its own
Over(f, r) == [x \in DOMAIN f \cup DOMAIN r |-> IF x \in DOMAIN f THEN f[x] ELSE r[x]]

\* Supervisor p's memory with the fields of f replaced
Set(p, f) == sup' = [sup EXCEPT ![p] = Over(f, sup[p])]

\* CtypesMutexOps.acquire: wait for the mutex, for timeout_ms at most.  A thread that
\* still owns it acquires it again.
acquire(p) ==
  IF mutex \in {"free", p} THEN "ACQUIRED"
  ELSE IF mutex = "abandoned" THEN "ABANDONED" ELSE "UNAVAILABLE"

------------------------------------------------------------------------------
(* Loading what is on disk, when the composition is opened. *)

\* _load_existing_state, of a valid and clean inspection.  The bridge terminalizes only
\* what reached the driver, so the disposition of a terminal record is REVOKED.
Loaded ==
  LET prep == leaf["PREPARED"]  grant == leaf["GRANT"]  term == leaf["TERMINAL"]
      readable == \A l \in Leaves : leaf[l] = Absent \/ leaf[l].kind \in LeafKinds[l]
      bound == grant = Absent \/ grant.by = prep.by
  IN IF ~readable THEN "PRESENT_INVALID"
     ELSE IF term # Absent
     THEN IF prep.kind = "CONSUMED" /\ term.by = prep.by /\ grant = Rec("REVOKED", prep.by)
          THEN "TERMINAL" ELSE "PRESENT_INVALID"
     ELSE IF prep = Absent THEN IF grant = Absent THEN "ABSENT" ELSE "PRESENT_INVALID"
     ELSE CASE prep.kind = "PENDING"  -> "PENDING"
            [] prep.kind = "PREPARED" -> "STALE_PREPARED"
            [] prep.kind = "CONSUMED" ->
                 IF grant = Absent THEN "CONSUMED_NO_GRANT"
                 ELSE IF ~bound THEN "PRESENT_INVALID"
                 ELSE IF grant.kind = "ISSUED" THEN "ISSUED" ELSE "REVOKED_TERMINAL_PENDING"

\* mutant: an attempt that ends before the bridge keeps its leases
abort_keeping_leases(p, f) == Set(p, Over([ctl |-> "FAILED_NONLAUNCHABLE", pc |-> "idle"], f))

\* abort_pre_bridge: the leases taken so far are closed, once
abort_pre_bridge(p, f) ==
  \E unclean \in Faults :
    Set(p, Over([ctl |-> "FAILED_NONLAUNCHABLE", pc |-> "idle",
                 retained |-> IF sup[p].retained = "none" THEN "none"
                              ELSE IF unclean THEN "unclean" ELSE "clean"], f))

\* prepare_d1_n2 of an unused controller
prepare(p) ==
  /\ sup[p].ctl = "UNINITIALIZED"
  /\ Set(p, [ctl |-> "PREPARING", pc |-> "load"])
  /\ UNCHANGED <<leaf, mutex>>

\* Opening the composition inspects the leaves under the mutex.  A supervisor that
\* takes over an abandoned mutex has no lease and learns nothing; one that waits in
\* vain, or whose lease or cleanup fails, neither.
load(p) ==
  /\ sup[p].pc = "load"
  /\ UNCHANGED leaf
  /\ \E unsure \in Faults :
       LET found == IF acquire(p) # "ACQUIRED" \/ unsure THEN "UNKNOWN" ELSE Loaded
       IN /\ mutex' = IF mutex = "abandoned" THEN "free" ELSE mutex
          /\ IF found = "ABSENT"
             THEN Set(p, [state |-> found, pc |-> "begin", op |-> "PENDING", out |-> "OK"])
             ELSE abort_pre_bridge(p, [state |-> found])

------------------------------------------------------------------------------
(* One mutation under the mutex: begin, inspect, write, read back, clean up. *)

\* _begin_mutation: acquire the mutex, lease and validate the directory
begin_mutation(p) ==
  /\ sup[p].pc = "begin"
  /\ UNCHANGED leaf
  /\ \/ /\ acquire(p) = "ACQUIRED"
        /\ mutex' = p
        /\ Set(p, [pc |-> "inspect"])
     \/ /\ acquire(p) = "ABANDONED"
        /\ mutex' = p
        /\ Set(p, [pc |-> "finish", out |-> "OWNER_ABANDONED"])
     \/ /\ acquire(p) = "UNAVAILABLE"
        /\ Set(p, [pc |-> "after", out |-> "OWNER_UNAVAILABLE"])
        /\ UNCHANGED mutex
     \/ /\ Faulty /\ acquire(p) = "ACQUIRED"
        /\ mutex' = p
        /\ Set(p, [pc |-> "finish", out |-> "LEASE_DRIFT"])

\* The records an operation requires under the mutex, beyond the leaf it writes
Required(op, p) ==
  CASE op = "ISSUE_GRANT" -> leaf["PREPARED"] = Rec("CONSUMED", p)
    [] op = "TERMINALIZE" -> leaf["PREPARED"] = Rec("CONSUMED", p) /\ leaf["GRANT"] = Rec("REVOKED", p)
    [] OTHER              -> TRUE

\* inspect: the lifecycle state a leaf's record stands for
Classified(record) ==
  CASE record = Torn                     -> "PRESENT_INVALID"
    [] record.kind = "CONSUMED"          -> "CONSUMED_NO_GRANT"
    [] record.kind = "REVOKED"           -> "REVOKED_TERMINAL_PENDING"
    [] OTHER                             -> record.kind

\* A mismatch under the mutex: prepare takes over what it found, consume and a lost
\* compare-and-swap make the store invalid, the rest only refuse
mismatch(p) ==
  LET op == sup[p].op
  IN Set(p, [pc |-> "finish",
             out |-> IF op = "TERMINALIZE" /\ leaf["TERMINAL"] # Absent
                        /\ leaf["PREPARED"] = Rec("CONSUMED", p)
                     THEN "TERMINAL_ALREADY_PRESENT" ELSE "CAS_MISMATCH",
             state |-> CASE op = "PENDING"               -> Classified(leaf["PREPARED"])
                         [] op \in {"PREPARE", "CONSUME"} -> "PRESENT_INVALID"
                         [] OTHER                        -> sup[p].state])

\* Inspect the leaves, verify the A0 approval before PENDING (once), open the leaf for
\* the write.  From here until the write ends the file holds part of the new record.
inspect_and_open(p) ==
  LET op == sup[p].op
      l  == Target(op)
  IN /\ sup[p].pc = "inspect"
     /\ UNCHANGED mutex
     /\ IF leaf[l] # Prior(op, p) \/ ~Required(op, p)
        THEN mismatch(p) /\ UNCHANGED leaf
        ELSE \/ /\ leaf' = [leaf EXCEPT ![l] = Torn]
                /\ Set(p, [pc |-> "write",
                           retained |-> IF op = "PENDING" THEN "held" ELSE sup[p].retained])
             \/ /\ op = "PENDING"              \* attest_a0_before_pending
                /\ Set(p, [pc |-> "finish", out |-> "ATTESTATION_FAILED"])
                /\ UNCHANGED leaf
             \/ /\ Faulty                      \* the leaf cannot be opened
                /\ Set(p, [pc |-> "finish", out |-> "CREATE_FAILED", state |-> "PRESENT_INVALID",
                           retained |-> IF op = "PENDING" THEN "held" ELSE sup[p].retained])
                /\ UNCHANGED leaf

\* SameHandleLeaf._commit_open and _write_status: the record is in place and read
\* back, or the write, its flush, read-back or close failed and nothing is known
write(p) ==
  LET op == sup[p].op
      l  == Target(op)
  IN /\ sup[p].pc = "write"
     /\ UNCHANGED mutex
     /\ \/ /\ leaf' = [leaf EXCEPT ![l] = Result(op, p)]
           /\ Set(p, [pc |-> "post", state |-> Reached(op)])
        \/ /\ Faulty
           /\ \E now \in {Torn, Result(op, p)} : leaf' = [leaf EXCEPT ![l] = now]
           /\ Set(p, [pc |-> "finish", out |-> "READBACK_FAILED", state |-> "PRESENT_INVALID"])

\* _post_write, and what follows it inside the same session: after PENDING the
\* no-stream attestation and the second write of prepare
post_write(p) ==
  /\ sup[p].pc = "post"
  /\ UNCHANGED <<leaf, mutex>>
  /\ \/ IF sup[p].op = "PENDING"
        THEN Set(p, [pc |-> "inspect", op |-> "PREPARE"])
        ELSE Set(p, [pc |-> "finish"])
     \/ /\ Faulty
        /\ Set(p, [pc |-> "finish", out |-> "DURABILITY_FAILED",
                   state |-> CASE sup[p].op = "PREPARE"     -> "PREPARED_NONLAUNCHABLE"
                               [] sup[p].op = "TERMINALIZE" -> "TERMINAL_DURABILITY_UNVERIFIED"
                               [] OTHER                     -> sup[p].state])
     \/ /\ sup[p].op = "PENDING"                  \* attest_pending, validate_before
        /\ Set(p, [pc |-> "finish", out |-> "ATTESTATION_FAILED"])

\* _finish: close the leases, release and close the mutex.  A mutex whose release
\* failed stays with the thread, unless closing its last handle destroyed it.
finish(p) ==
  /\ sup[p].pc = "finish"
  /\ UNCHANGED leaf
  /\ \/ /\ mutex' = IF sup[p].stuck THEN p ELSE "free"
        /\ Set(p, [pc |-> "after"])
     \/ /\ Faulty
        /\ \E held \in BOOLEAN :
             /\ mutex' = IF held \/ sup[p].stuck THEN p ELSE "free"
             /\ Set(p, [pc |-> "after", out |-> "CLEANUP_FAILED",
                        stuck |-> held \/ sup[p].stuck,
                        state |-> CASE sup[p].state = "PREPARED" -> "PREPARED_NONLAUNCHABLE"
                                    [] sup[p].state = "TERMINAL" -> "TERMINAL_DURABILITY_UNVERIFIED"
                                    [] OTHER                     -> sup[p].state])

------------------------------------------------------------------------------
(* What the controller and the bridge do with each outcome. *)

\* The composition's and the controller's prepare: the retained leases must still be
\* valid; anything else closes them
after_prepare(p) ==
  /\ sup[p].pc = "after" /\ sup[p].op \in {"PENDING", "PREPARE"}
  /\ UNCHANGED <<leaf, mutex>>
  /\ \/ /\ sup[p].out = "OK"
        /\ Set(p, [pc |-> "idle", ctl |-> "PREPARED_WAITING_A1", live |-> "prepared"])
     \/ /\ sup[p].out # "OK" \/ Faulty
        /\ abort_pre_bridge(p, [live |-> IF sup[p].out = "OK" THEN "prepared" ELSE "none"])

\* run_d1_n2_preflight: before a preparation it only spends the controller; after one
\* the leases pass to the bridge
run(p) ==
  /\ UNCHANGED <<leaf, mutex>>
  /\ \/ /\ sup[p].ctl = "UNINITIALIZED"
        /\ Set(p, [ctl |-> "FAILED_NONLAUNCHABLE"])
     \/ /\ sup[p].ctl = "PREPARED_WAITING_A1"
        /\ Set(p, [ctl |-> "CONSUMED", pc |-> "revalidate"])

\* Leases, device, wall clock and the digest of the prepared record still hold, or not
revalidate_for_run(p) ==
  /\ sup[p].pc = "revalidate"
  /\ \/ Set(p, [pc |-> "consume"])
     \/ Set(p, [pc |-> "close"])
  /\ UNCHANGED <<leaf, mutex>>

\* consume asks the wall clock, which may have been set, once more before it begins
consume(p) ==
  /\ sup[p].pc = "consume"
  /\ \/ /\ sup[p].state = "PREPARED" /\ sup[p].live = "prepared"
        /\ Set(p, [pc |-> "begin", op |-> "CONSUME", out |-> "OK"])
     \/ Set(p, [pc |-> "close", live |-> "none", state |-> "STALE_PREPARED"])
  /\ UNCHANGED <<leaf, mutex>>

\* mutant: the grant counts as issued whenever its record may be there
after_issue_lenient(p) ==
  /\ sup[p].pc = "after" /\ sup[p].op = "ISSUE_GRANT"
  /\ Set(p, [pc |-> "authorize", raw |-> "held", state |-> "ISSUED"])
  /\ UNCHANGED <<leaf, mutex>>

after_consume(p) ==
  /\ sup[p].pc = "after" /\ sup[p].op = "CONSUME"
  /\ IF sup[p].out = "OK"
     THEN Set(p, [pc |-> "begin", op |-> "ISSUE_GRANT", live |-> "consumed"])
     ELSE Set(p, [pc |-> "close"])
  /\ UNCHANGED <<leaf, mutex>>

\* issue_grant keeps the capability only after a clean, exact, durable write; a grant
\* whose record is known to be there is revoked in any case
after_issue(p) ==
  /\ sup[p].pc = "after" /\ sup[p].op = "ISSUE_GRANT"
  /\ IF sup[p].out = "OK"
     THEN Set(p, [pc |-> "authorize", raw |-> "held"])
     ELSE IF sup[p].state = "ISSUED"
     THEN Set(p, [pc |-> "begin", op |-> "REVOKE_GRANT", out |-> "OK"])
     ELSE Set(p, [pc |-> "close"])
  /\ UNCHANGED <<leaf, mutex>>

\* WORKER_GRANT_TTL_NS on the monotonic clock
expire(p) ==
  /\ sup[p].raw = "held" /\ ~sup[p].expired
  /\ Set(p, [expired |-> TRUE])
  /\ UNCHANGED <<leaf, mutex>>

\* take_grant_capability, authorize_grant, and the call of the driver
authorize_grant(p) ==
  /\ sup[p].pc = "authorize"
  /\ IF sup[p].expired
     THEN Set(p, [pc |-> "begin", op |-> "REVOKE_GRANT", raw |-> "none", out |-> "OK"])
     ELSE Set(p, [pc |-> "driver", raw |-> "handed", used |-> TRUE, driver |-> "running"])
  /\ UNCHANGED <<leaf, mutex>>

\* The driver returns a clean receipt or a failure; then the capability is dropped and
\* the grant revoked
driver_returns(p) ==
  /\ sup[p].pc = "driver"
  /\ \E result \in {"COMPLETED", "FAILED"} :
       Set(p, [pc |-> "begin", op |-> "REVOKE_GRANT", out |-> "OK", driver |-> result, raw |-> "none"])
  /\ UNCHANGED <<leaf, mutex>>

after_revoke(p) ==
  /\ sup[p].pc = "after" /\ sup[p].op = "REVOKE_GRANT"
  /\ Set(p, [pc |-> "close", cleanOk |-> sup[p].out = "OK"])
  /\ UNCHANGED <<leaf, mutex>>

\* The rest of the bridge's finally: close the retained leases; verified evidence
\* needs a clean revocation, a clean close and a completed driver
close_retained_for_terminal(p) ==
  /\ sup[p].pc = "close"
  /\ \E unclean \in Faults :
       LET kept == IF unclean THEN "unclean" ELSE "clean"
       IN \/ /\ sup[p].cleanOk /\ ~unclean /\ sup[p].driver = "COMPLETED"
             /\ Set(p, [retained |-> kept, pc |-> "begin", op |-> "TERMINALIZE", out |-> "OK"])
          \/ /\ ~(sup[p].cleanOk /\ ~unclean /\ sup[p].driver = "COMPLETED") \/ Faulty
             /\ Set(p, [retained |-> kept, ctl |-> "FAILED_NONLAUNCHABLE", pc |-> "idle"])
  /\ UNCHANGED <<leaf, mutex>>

after_terminalize(p) ==
  /\ sup[p].pc = "after" /\ sup[p].op = "TERMINALIZE"
  /\ Set(p, [pc |-> "idle",
             ctl |-> IF sup[p].out \in {"OK", "TERMINAL_ALREADY_PRESENT"}
                     THEN "TERMINAL" ELSE "FAILED_NONLAUNCHABLE"])
  /\ UNCHANGED <<leaf, mutex>>

\* The process ends.  Its handles and leases go with it, a mutex it owned becomes
\* abandoned, and a leaf it was writing stays as it is.
crash(p) ==
  /\ sup[p].ctl # "GONE"
  /\ mutex' = IF mutex = p THEN "abandoned" ELSE mutex
  /\ sup' = [sup EXCEPT ![p] = [Fresh EXCEPT !.ctl = "GONE", !.used = sup[p].used]]
  /\ UNCHANGED leaf

\* Any other process that opens the composition takes an abandoned mutex, learns
\* nothing, releases it and gives up; from then on the mutex is merely free.
another_opens ==
  /\ mutex = "abandoned"
  /\ mutex' = "free"
  /\ UNCHANGED <<leaf, sup>>

------------------------------------------------------------------------------
Step(p) ==
  \/ load(p) \/ begin_mutation(p) \/ inspect_and_open(p) \/ write(p) \/ post_write(p)
  \/ finish(p) \/ after_prepare(p) \/ revalidate_for_run(p) \/ consume(p) \/ after_consume(p) \/ after_issue(p)
  \/ authorize_grant(p) \/ driver_returns(p) \/ after_revoke(p)
  \/ close_retained_for_terminal(p) \/ after_terminalize(p)

ChainNext ==
  \/ \E p \in Supervisors : Step(p) \/ prepare(p) \/ run(p) \/ expire(p) \/ crash(p)
  \/ another_opens

ChainSpec == ChainInit /\ [][ChainNext]_chainVars

------------------------------------------------------------------------------
Ended(p) == sup[p].ctl \in {"TERMINAL", "FAILED_NONLAUNCHABLE", "GONE"}

\* However supervisors start, crash and race, whoever was authorised to start the
\* camera is the one whose epoch consumed the authority and holds the grant: the
\* PREPARED leaf carries its CONSUMED record for ever after, and the GRANT leaf its
\* grant, so no second supervisor can ever be (consume, issue_grant,
\* authorize_grant; "There is no retry branch").
LaunchBacked ==
  \A p \in Supervisors : sup[p].used =>
    /\ leaf["PREPARED"] = Rec("CONSUMED", p)
    /\ leaf["GRANT"] # Absent
    /\ sup[p].driver = "running" => leaf["GRANT"] = Rec("ISSUED", p)

\* A run reported as TERMINAL left exactly the records that a later inspection accepts
\* as such, with the grant revoked and every retained lease closed cleanly
\* (D1N2ExecutionBridge.run, _load_existing_state); and on whichever step an attempt
\* ended, the process retains neither a lease of the approval and the preparation nor
\* the raw capability (abort_pre_bridge, the finally of the bridge).
TerminalTruthful ==
  \A p \in Supervisors :
    /\ sup[p].ctl = "TERMINAL" =>
         /\ Loaded = "TERMINAL" /\ leaf["TERMINAL"] = Rec("TERMINAL", p)
         /\ sup[p].driver = "COMPLETED" /\ sup[p].retained = "clean"
    /\ Ended(p) => sup[p].retained # "held" /\ sup[p].raw = "none"

------------------------------------------------------------------------------
\* the GRANT leaf is open for its first record
issue_in_writing == \E p \in Supervisors : sup[p].pc = "write" /\ sup[p].op = "ISSUE_GRANT"

ChainUse == INSTANCE SingleUse WITH
  Users       <- Supervisors,
  RevokeFirst <- TRUE,
  spent       <- leaf["PREPARED"].kind = "CONSUMED",
  granted     <- leaf["GRANT"] # Absent /\ ~issue_in_writing,
  valid       <- {p \in Supervisors : leaf["GRANT"] = Rec("ISSUED", p)},
  used        <- {p \in Supervisors : sup[p].used},
  ended       <- leaf["TERMINAL"].kind = "TERMINAL"

\* The canonical chain implements SingleUse: whatever fails, tears a leaf or ends a
\* process, the authority is consumed once, granted once, handed to one driver while
\* the grant on disk is still valid, and terminalized only behind a revoked grant.
ChainUsedOnce == ChainUse!Spec
=============================================================================
