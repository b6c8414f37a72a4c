--------------------------- MODULE StagedAuthority ---------------------------
(***************************************************************************)
(* The pathname authority store of D1 N2 (m2_d1_n2_authority.py), which    *)
(* the canonical chain of module AuthorityChain replaced: three JSON       *)
(* leaves, one for the authority, one for the worker grant, one for the    *)
(* terminal, written under a cross-process mutex.                          *)
(*                                                                         *)
(* A caller inspects, and later asks for a step of the lifecycle with the  *)
(* digest it saw.  A digest is the record itself.  What is written can be  *)
(* cut off by a fault or by the end of the process at any point.           *)
(***************************************************************************)
EXTENDS Integers, FiniteSets

CONSTANTS Stagers,       \* processes that call the store
          GrantTtl,      \* WORKER_GRANT_TTL_NS
          MaxStageClock  \* bound: the monotonic clock

ASSUME StagedAssumption == GrantTtl \in Nat /\ MaxStageClock \in Nat \ {0}
                           /\ "free" \notin Stagers

VARIABLES stLeaf,    \* the three files
          stMutex, \* its holder, or NoHolder
          stCall,  \* per caller: the step it is in, and its stage
          stSeen,  \* per caller: the records it last inspected
          stTold,  \* the steps whose success was returned: <<caller, step, record>>
          stClock  \* time.monotonic_ns

stagedVars == <<stLeaf, stMutex, stCall, stSeen, stTold, stClock>>

LeafNames == {"authority", "grant", "terminal"}
Missing == [state |-> "MISSING"]
TornLeaf == [state |-> "TORN"]      \* created, and not completely written
NoHolder == "free"
Idle == [step |-> "none", at |-> "idle"]
Steps == {"reserve_pending", "finalize_prepared", "consume", "issue_worker_grant",
          "revoke_worker_grant", "finalize_terminal"}

StagedInit ==
  /\ stLeaf = [l \in LeafNames |-> Missing] /\ stMutex = NoHolder
  /\ stCall = [c \in Stagers |-> Idle] /\ stSeen = [c \in Stagers |-> stLeaf]
  /\ stTold = {} /\ stClock = 1

------------------------------------------------------------------------------
(* Inspection *)

\* A record is what its parser takes for one; a file cut off in writing is not.
parse_authority_record(r) == r.state \in {"PENDING", "PREPARED", "CONSUMED"}
parse_grant(r) == r.state \in {"ISSUED", "REVOKED"}
parse_terminal(r) == r.state = "TERMINAL"

\* the bindings between the three records
terminal_bound ==
  /\ stLeaf["authority"].state = "CONSUMED" /\ stLeaf["grant"].state = "REVOKED"
  /\ stLeaf["terminal"].consumed = stLeaf["authority"] /\ stLeaf["terminal"].revoked = stLeaf["grant"]
  /\ stLeaf["grant"].consumed = stLeaf["authority"]

inspect_locked ==
  IF \A l \in LeafNames : stLeaf[l] = Missing THEN "ABSENT"
  ELSE IF \/ ~parse_authority_record(stLeaf["authority"])
          \/ stLeaf["grant"] # Missing /\ ~parse_grant(stLeaf["grant"]) THEN "INVALID"
  ELSE IF stLeaf["terminal"] # Missing
       THEN IF parse_terminal(stLeaf["terminal"]) /\ terminal_bound THEN "TERMINAL" ELSE "INVALID"
  ELSE IF stLeaf["grant"] # Missing /\ stLeaf["authority"].state # "CONSUMED" THEN "INVALID"
  ELSE stLeaf["authority"].state

matches(state, expected) == inspect_locked = state /\ stLeaf["authority"] = expected

grant_unexpired(grant) == grant.issued <= stClock /\ stClock <= grant.issued + GrantTtl

\* anyone may look, under the mutex, and act on it later
inspect(c) ==
  /\ stCall[c].at = "idle" /\ stMutex = NoHolder
  /\ stSeen' = [stSeen EXCEPT ![c] = stLeaf]
  /\ UNCHANGED <<stLeaf, stMutex, stCall, stTold, stClock>>

------------------------------------------------------------------------------
(* The steps: which leaf each writes, when it may, and what it writes *)

LeafOf(step) == CASE step \in {"reserve_pending", "finalize_prepared", "consume"} -> "authority"
                  [] step \in {"issue_worker_grant", "revoke_worker_grant"} -> "grant"
                  [] OTHER -> "terminal"

\* a file is created, and never over another one, or replaced
Creates(step) == step \in {"reserve_pending", "issue_worker_grant", "finalize_terminal"}

Permitted(c, step) ==
  LET seen == stSeen[c]
      grant == stLeaf["grant"]
  IN CASE step = "reserve_pending" -> inspect_locked = "ABSENT"
       [] step = "finalize_prepared" -> matches("PENDING", seen["authority"])
       [] step = "consume" -> matches("PREPARED", seen["authority"])
       [] step = "issue_worker_grant" -> matches("CONSUMED", seen["authority"])
       [] step = "revoke_worker_grant" ->
            grant.state = "ISSUED" /\ grant = seen["grant"] /\ grant_unexpired(grant)
       [] step = "finalize_terminal" ->
            /\ matches("CONSUMED", seen["authority"])
            /\ grant.state = "REVOKED" /\ grant = seen["grant"]
            /\ grant.consumed = seen["authority"] /\ grant_unexpired(grant)

\* The pending record has no field of its own, the others hold what their caller attested.
NewRecord(c, step) ==
  LET authority == stLeaf["authority"]
      grant == stLeaf["grant"]
  IN CASE step = "reserve_pending" -> [state |-> "PENDING"]
       [] step = "finalize_prepared" -> [state |-> "PREPARED", prepared |-> c]
       [] step = "consume" -> [state |-> "CONSUMED", prepared |-> authority.prepared, consumed |-> c]
       [] step = "issue_worker_grant" ->
            [state |-> "ISSUED", consumed |-> authority, capability |-> c, issued |-> stClock]
       [] step = "revoke_worker_grant" -> [grant EXCEPT !.state = "REVOKED"]
       [] step = "finalize_terminal" ->
            [state |-> "TERMINAL", consumed |-> authority, revoked |-> grant, code |-> c]

Becomes(c, call) == stCall' = [stCall EXCEPT ![c] = call]

\* mutant: a wait that timed out counts as acquired
acquirable_after_timeout(c) == TRUE

\* WaitForSingleObject: free, or abandoned by a process that ended
acquirable(c) == stMutex = NoHolder

\* the mutex, then the check under it
step_begins(c, step) ==
  /\ stCall[c].at = "idle" /\ acquirable(c)
  /\ Permitted(c, step)
  /\ stMutex' = c
  /\ Becomes(c, [step |-> step, at |-> "write", record |-> NewRecord(c, step)])
  /\ UNCHANGED <<stLeaf, stSeen, stTold, stClock>>

\* _create opens with "xb": the name is taken, its content is not yet there
create_opens(c) ==
  /\ stCall[c].at = "write" /\ Creates(stCall[c].step) /\ stLeaf[LeafOf(stCall[c].step)] = Missing
  /\ stLeaf' = [stLeaf EXCEPT ![LeafOf(stCall[c].step)] = TornLeaf]
  /\ Becomes(c, [stCall[c] EXCEPT !.at = "flush"])
  /\ UNCHANGED <<stMutex, stSeen, stTold, stClock>>

create_flushes(c) ==
  /\ stCall[c].at = "flush"
  /\ stLeaf' = [stLeaf EXCEPT ![LeafOf(stCall[c].step)] = stCall[c].record]
  /\ Becomes(c, [stCall[c] EXCEPT !.at = "durable"])
  /\ UNCHANGED <<stMutex, stSeen, stTold, stClock>>

\* _transition reads the leaf once more and fills a temporary file
transition_reads(c) ==
  LET l == LeafOf(stCall[c].step)
  IN /\ stCall[c].at = "write" /\ ~Creates(stCall[c].step)
     /\ stLeaf[l] = stSeen[c][l]
     /\ Becomes(c, [stCall[c] EXCEPT !.at = "replace"])
     /\ UNCHANGED <<stLeaf, stMutex, stSeen, stTold, stClock>>

transition_replaces(c) ==
  /\ stCall[c].at = "replace"
  /\ stLeaf' = [stLeaf EXCEPT ![LeafOf(stCall[c].step)] = stCall[c].record]
  /\ Becomes(c, [stCall[c] EXCEPT !.at = "durable"])
  /\ UNCHANGED <<stMutex, stSeen, stTold, stClock>>

\* a fault, a name that is taken, a leaf that moved: the result is the fallback
step_fails(c) ==
  /\ stCall[c].at \in {"write", "flush", "replace", "durable"}
  /\ Becomes(c, [step |-> stCall[c].step, at |-> "fallback"])
  /\ UNCHANGED <<stLeaf, stMutex, stSeen, stTold, stClock>>

\* the directory is flushed and the record read back
step_durable(c) ==
  /\ stCall[c].at = "durable" /\ stLeaf[LeafOf(stCall[c].step)] = stCall[c].record
  /\ Becomes(c, [stCall[c] EXCEPT !.at = "result"])
  /\ UNCHANGED <<stLeaf, stMutex, stSeen, stTold, stClock>>

\* No caller receives a result when the release failed; the handle keeps the mutex.
step_returns(c) ==
  /\ stCall[c].at \in {"result", "fallback"}
  /\ stMutex' = IF stMutex = c THEN NoHolder ELSE stMutex
  /\ stTold' = IF stCall[c].at = "result"
               THEN stTold \cup {<<c, stCall[c].step, stCall[c].record>>} ELSE stTold
  /\ Becomes(c, Idle)
  /\ UNCHANGED <<stLeaf, stSeen, stClock>>

release_fails(c) ==
  /\ stCall[c].at \in {"result", "fallback"}
  /\ Becomes(c, [step |-> "none", at |-> "stuck"])
  /\ UNCHANGED <<stLeaf, stMutex, stSeen, stTold, stClock>>

\* the process ends: the kernel gives up its mutex, an open file stays as it is
stager_ends(c) ==
  /\ stCall[c].at # "idle"
  /\ stMutex' = IF stMutex = c THEN NoHolder ELSE stMutex
  /\ Becomes(c, Idle) /\ stSeen' = [stSeen EXCEPT ![c] = [l \in LeafNames |-> Missing]]
  /\ UNCHANGED <<stLeaf, stTold, stClock>>

stage_clock ==
  /\ stClock < MaxStageClock /\ stClock' = stClock + 1
  /\ UNCHANGED <<stLeaf, stMutex, stCall, stSeen, stTold>>

\* the monotonic clock starts again, and with it every process
reboot ==
  /\ stClock > 1
  /\ stClock' = 1 /\ stMutex' = NoHolder
  /\ stCall' = [c \in Stagers |-> Idle]
  /\ stSeen' = [c \in Stagers |-> [l \in LeafNames |-> Missing]]
  /\ UNCHANGED <<stLeaf, stTold>>

StagedNext ==
  \/ \E c \in Stagers :
       \/ inspect(c) \/ \E step \in Steps : step_begins(c, step)
       \/ create_opens(c) \/ create_flushes(c) \/ transition_reads(c) \/ transition_replaces(c) \/ step_fails(c)
       \/ step_durable(c) \/ step_returns(c) \/ release_fails(c) \/ stager_ends(c)
  \/ stage_clock \/ reboot

StagedSpec == StagedInit /\ [][StagedNext]_stagedVars

------------------------------------------------------------------------------
(* What the store promises *)

\* Every step succeeds for one caller only, however the calls overlap and end, and a
\* success that was returned is one the files still bear out: the lifecycle has not gone
\* back behind it, and the terminal is bound to the records the steps before it made
\* (_under_mutex, _transition, _create, _inspect_locked).
StepsBacked ==
  /\ \A t, u \in stTold : t[2] = u[2] => t = u
  /\ \A t \in stTold :
       CASE t[2] = "reserve_pending" -> stLeaf["authority"] # Missing
         [] t[2] = "finalize_prepared" ->
              stLeaf["authority"].state \in {"PREPARED", "CONSUMED"} /\ stLeaf["authority"].prepared = t[1]
         [] t[2] = "consume" -> stLeaf["authority"] = t[3]
         [] t[2] = "issue_worker_grant" ->
              stLeaf["grant"].capability = t[1] /\ stLeaf["grant"].consumed = stLeaf["authority"]
         [] t[2] = "revoke_worker_grant" -> stLeaf["grant"] = t[3] /\ t[3].state = "REVOKED"
         [] t[2] = "finalize_terminal" -> inspect_locked = "TERMINAL"

------------------------------------------------------------------------------
\* the name of the grant is taken, and its record is still being written
grant_in_writing == \E c \in Stagers : stCall[c].at = "flush" /\ stCall[c].step = "issue_worker_grant"

StagedUse == INSTANCE SingleUse WITH
  Users       <- Stagers,
  RevokeFirst <- TRUE,
  spent       <- stLeaf["authority"].state = "CONSUMED",
  granted     <- stLeaf["grant"] # Missing /\ ~grant_in_writing,
  valid       <- {c \in Stagers : stLeaf["grant"].state = "ISSUED" /\ stLeaf["grant"].capability = c},
  used        <- {},
  ended       <- stLeaf["terminal"].state = "TERMINAL"

\* The pathname store implements SingleUse up to the camera, which it never opens: a
\* record once complete is never replaced by an earlier one, a torn grant is lost for
\* good, and the terminal is complete only behind a revoked grant, also across
\* processes that end in the middle of a step and across a reboot.
StagedUsedOnce == StagedUse!Spec
==============================================================================
