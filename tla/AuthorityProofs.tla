-------------------------- MODULE AuthorityProofs --------------------------
(***************************************************************************)
(* Proofs about the single-use authorities, for every set of callers and   *)
(* every number of calls, about the leases a preparation takes, and about  *)
(* the authority of a camera attempt, for any number of supervisors that   *)
(* race, fail at any step and end at any moment.  Last, that each of the   *)
(* three stores of an authority implements SingleUse.                      *)
(***************************************************************************)
EXTENDS AuthorityChain, NativeAuthority, StagedAuthority, BootstrapInstall, Preparation,
        FiniteSetTheorems, TLAPS

------------------------------------------------------------------------------
(* D1-N1: one capture for one authority. *)

\* The types of the three files, the mutex and the callers.
NativePcs == {"idle", "save", "liveness", "finalize", "consume", "issue", "launch", "capture",
              "revoke", "terminalize", "gone"}
NativeOutcomes == {"PASS", "NO_GO"}
NativeCallers == [pc : NativePcs, calls : Nat, candidate : NativeOutcomes, issued : BOOLEAN,
                  receipt : {"NONE", "PREPARED", "PASS", "NO_GO"}]
NativeTypeOK ==
  /\ nPrepared \in {"ABSENT", "LEGACY", "PENDING", "PREPARED", "CONSUMED"}
  /\ nGrant \in {NoGrant} \cup [state : {"ISSUED", "REVOKED"}, by : Callers]
  /\ nTerminal \in {NoTerminal} \cup [outcome : NativeOutcomes, by : Callers]
  /\ nVideo \in Callers \cup {"free"}
  /\ nCaller \in [Callers -> NativeCallers]
  /\ nCaptures \subseteq Callers

\* The steps of a caller that has consumed the authority and not terminalized it.
Spending == {"issue", "launch", "capture", "revoke", "terminalize"}

\* The consumed authority has one spender at most, and no terminal record yet.
OneSpender ==
  /\ \A c \in Callers : nCaller[c].pc \in Spending =>
       /\ nPrepared = "CONSUMED"
       /\ nTerminal = NoTerminal
       /\ \A d \in Callers : nCaller[d].pc \in Spending => d = c
  /\ nPrepared # "CONSUMED" => nGrant = NoGrant /\ nTerminal = NoTerminal

\* The grant is the spender's own, and the only callers that ever captured held it.
GrantOwned ==
  /\ \A c \in Callers :
       /\ nCaller[c].pc = "issue" => nGrant = NoGrant
       /\ nCaller[c].pc \in {"launch", "capture", "revoke"} =>
            nGrant = [state |-> "ISSUED", by |-> c]
       /\ (nCaller[c].pc = "terminalize" /\ nCaller[c].candidate = "PASS") =>
            nGrant = [state |-> "REVOKED", by |-> c]
  /\ \A c \in nCaptures : nGrant # NoGrant /\ nGrant.by = c

\* Whoever uses the camera holds the video mutex.
VideoOwned ==
  \A c \in Callers : nCaller[c].pc \in {"save", "liveness", "capture"} => nVideo = c

\* A PASS in a caller's hands is the durable terminal record.
PassBacked ==
  \A c \in Callers : nCaller[c].receipt = "PASS" =>
    /\ nTerminal = [outcome |-> "PASS", by |-> c]
    /\ nGrant = [state |-> "REVOKED", by |-> c]

NativeInv == NativeTypeOK /\ OneSpender /\ GrantOwned /\ VideoOwned /\ PassBacked

\* The first call finds no grant, no terminal record and nobody spending.
LEMMA NativeInvInit == NativeInit => NativeInv
BY DEF NativeInit, NativeInv, NativeTypeOK, NativeCallers, NativePcs, NativeOutcomes, NotCalled, OneSpender,
       Spending, GrantOwned, VideoOwned, PassBacked

\* Every store operation keeps the invariant, whichever way its guard ends.
LEMMA NativeInvStep ==
  ASSUME NativeInv, [NativeNext]_nativeVars
  PROVE  NativeInv'
<1> USE CallersAssumption DEF NativeInv
<1>0. NativeTypeOK /\ OneSpender /\ GrantOwned /\ VideoOwned /\ PassBacked
  OBVIOUS
<1>1. ASSUME NEW c \in Callers, native_prepare(c) PROVE NativeInv'
  <2>1. /\ nCaller[c].pc = "idle"
        /\ \/ /\ nCaller'[c].pc = "idle" /\ nVideo' = nVideo
           \/ nCaller'[c].pc = "save" /\ nVideo = "free" /\ nVideo' = c
        /\ nCaller'[c].receipt # "PASS"
        /\ UNCHANGED <<nPrepared, nGrant, nTerminal, nCaptures>>
        /\ \A d \in Callers : d # c => nCaller'[d] = nCaller[d]
    BY <1>1, <1>0 DEF native_prepare, nativeStore, NativeTypeOK, NativeCallers, NativePcs, NativeOutcomes
  <2>2. NativeTypeOK'
    <3>1. nCaller'[c] \in NativeCallers
      <4>1. PICK n \in Nat, r \in {"PREPARED", "NO_GO"}, pc \in {"idle", "save"} :
              nCaller' = [nCaller EXCEPT ![c].calls = n, ![c].receipt = r, ![c].pc = pc]
        <5>1. nCaller[c].calls + 1 \in Nat
          BY <1>0 DEF NativeTypeOK, NativeCallers
        <5> QED
          BY <5>1, <1>1 DEF native_prepare
      <4> QED
        BY <4>1, <1>0 DEF NativeTypeOK, NativeCallers, NativePcs, NativeOutcomes
    <3>2. nCaller' \in [Callers -> NativeCallers]
      BY <1>1, <1>0, <2>1, <3>1 DEF native_prepare, nativeStore, NativeTypeOK
    <3> QED
      BY <1>1, <1>0, <3>2 DEF native_prepare, nativeStore, NativeTypeOK, NativeCallers, NativeOutcomes
  <2>3. OneSpender'
    BY <1>0, <2>1 DEF OneSpender, Spending
  <2>4. GrantOwned'
    BY <1>0, <2>1 DEF GrantOwned, OneSpender, Spending, NoGrant
  <2>5. VideoOwned'
    BY <1>0, <2>1 DEF VideoOwned
  <2>6. PassBacked'
    BY <1>0, <2>1 DEF PassBacked, OneSpender, Spending
  <2> QED
    BY <2>2, <2>3, <2>4, <2>5, <2>6
<1>2. ASSUME NEW c \in Callers, native_save(c) PROVE NativeInv'
  <2>1. /\ nCaller[c].pc = "save" /\ nCaller'[c].pc \in {"liveness", "idle"}
        /\ nCaller'[c].pc = "liveness" => nCaller'[c].receipt = nCaller[c].receipt /\ nVideo' = nVideo
        /\ nCaller'[c].pc = "idle" => nCaller'[c].receipt = "NO_GO" /\ nVideo' = "free"
        /\ nPrepared' = nPrepared \/ (nPrepared = "ABSENT" /\ nPrepared' = "PENDING")
        /\ UNCHANGED <<nGrant, nTerminal, nCaptures>>
        /\ \A d \in Callers : d # c => nCaller'[d] = nCaller[d]
    BY <1>2, <1>0 DEF native_save, go, native_receipt, GuardEnds, NativeTypeOK, NativeCallers, NativePcs, NativeOutcomes
  <2>2. NativeTypeOK'
    BY <1>2, <1>0 DEF native_save, go, native_receipt, GuardEnds, NativeTypeOK, NativeCallers, NativePcs, NativeOutcomes
  <2>3. OneSpender'
    BY <1>0, <2>1 DEF OneSpender, Spending
  <2>4. GrantOwned'
    BY <1>0, <2>1 DEF GrantOwned, OneSpender, Spending, NoGrant
  <2>5. VideoOwned'
    BY <1>0, <2>1 DEF VideoOwned
  <2>6. PassBacked'
    BY <1>0, <2>1 DEF PassBacked, OneSpender, Spending
  <2> QED
    BY <2>2, <2>3, <2>4, <2>5, <2>6
<1>3. ASSUME NEW c \in Callers, native_liveness(c) PROVE NativeInv'
  <2>1. /\ nCaller[c].pc = "liveness" /\ nCaller'[c].pc \in {"finalize", "idle"}
        /\ nCaller'[c].receipt \in {nCaller[c].receipt, "NO_GO"} /\ nVideo' = "free"
        /\ UNCHANGED <<nPrepared, nGrant, nTerminal, nCaptures>>
        /\ \A d \in Callers : d # c => nCaller'[d] = nCaller[d]
    BY <1>3, <1>0 DEF native_liveness, go, native_receipt, nativeStore, NativeTypeOK, NativeCallers, NativePcs, NativeOutcomes
  <2>2. NativeTypeOK'
    BY <1>3, <1>0 DEF native_liveness, go, native_receipt, nativeStore, NativeTypeOK, NativeCallers, NativePcs, NativeOutcomes
  <2>3. OneSpender'
    BY <1>0, <2>1 DEF OneSpender, Spending
  <2>4. GrantOwned'
    BY <1>0, <2>1 DEF GrantOwned, OneSpender, Spending, NoGrant
  <2>5. VideoOwned'
    BY <1>0, <2>1 DEF VideoOwned
  <2>6. PassBacked'
    BY <1>0, <2>1 DEF PassBacked, OneSpender, Spending
  <2> QED
    BY <2>2, <2>3, <2>4, <2>5, <2>6
<1>4. ASSUME NEW c \in Callers, native_finalize(c) PROVE NativeInv'
  <2>1. /\ nCaller[c].pc = "finalize" /\ nCaller'[c].pc = "idle" /\ nCaller'[c].receipt # "PASS"
        /\ nPrepared' = nPrepared \/ (nPrepared = "PENDING" /\ nPrepared' = "PREPARED")
        /\ UNCHANGED <<nGrant, nTerminal, nVideo, nCaptures>>
        /\ \A d \in Callers : d # c => nCaller'[d] = nCaller[d]
    BY <1>4, <1>0 DEF native_finalize, native_receipt, GuardEnds, NativeTypeOK, NativeCallers, NativePcs, NativeOutcomes
  <2>2. NativeTypeOK'
    <3>1. nCaller'[c] \in NativeCallers
      <4>1. PICK r \in {"PREPARED", "NO_GO"} :
              nCaller' = [nCaller EXCEPT ![c].pc = "idle", ![c].receipt = r, ![c].issued = FALSE]
        BY <1>4 DEF native_finalize, native_receipt
      <4> QED
        BY <4>1, <1>0 DEF NativeTypeOK, NativeCallers, NativePcs, NativeOutcomes
    <3>2. nCaller' \in [Callers -> NativeCallers]
      BY <1>4, <1>0, <2>1, <3>1 DEF native_finalize, native_receipt, GuardEnds, NativeTypeOK
    <3> QED
      BY <1>4, <1>0, <3>2 DEF native_finalize, native_receipt, GuardEnds, NativeTypeOK, NativeCallers, NativeOutcomes
  <2>3. OneSpender'
    BY <1>0, <2>1 DEF OneSpender, Spending
  <2>4. GrantOwned'
    BY <1>0, <2>1 DEF GrantOwned, OneSpender, Spending, NoGrant
  <2>5. VideoOwned'
    BY <1>0, <2>1 DEF VideoOwned
  <2>6. PassBacked'
    BY <1>0, <2>1 DEF PassBacked, OneSpender, Spending
  <2> QED
    BY <2>2, <2>3, <2>4, <2>5, <2>6
<1>5. ASSUME NEW c \in Callers, native_take(c) PROVE NativeInv'
  <2>1. /\ nCaller[c].pc = "idle" /\ nCaller'[c].pc \in {"consume", "idle"} /\ nCaller'[c].receipt = "NO_GO"
        /\ UNCHANGED <<nPrepared, nGrant, nTerminal, nVideo, nCaptures>>
        /\ \A d \in Callers : d # c => nCaller'[d] = nCaller[d]
    BY <1>5, <1>0 DEF native_take, nativeStore, NativeTypeOK, NativeCallers, NativePcs, NativeOutcomes
  <2>2. NativeTypeOK'
    <3>1. nCaller'[c] \in NativeCallers
      <4>1. PICK n \in Nat, pc \in {"idle", "consume"} :
              nCaller' = [nCaller EXCEPT ![c].calls = n, ![c].receipt = "NO_GO", ![c].pc = pc]
        <5>1. nCaller[c].calls + 1 \in Nat
          BY <1>0 DEF NativeTypeOK, NativeCallers
        <5> QED
          BY <5>1, <1>5 DEF native_take
      <4> QED
        BY <4>1, <1>0 DEF NativeTypeOK, NativeCallers, NativePcs, NativeOutcomes
    <3>2. nCaller' \in [Callers -> NativeCallers]
      BY <1>5, <1>0, <2>1, <3>1 DEF native_take, nativeStore, NativeTypeOK
    <3> QED
      BY <1>5, <1>0, <3>2 DEF native_take, nativeStore, NativeTypeOK, NativeCallers, NativeOutcomes
  <2>3. OneSpender'
    BY <1>0, <2>1 DEF OneSpender, Spending
  <2>4. GrantOwned'
    BY <1>0, <2>1 DEF GrantOwned, OneSpender, Spending, NoGrant
  <2>5. VideoOwned'
    BY <1>0, <2>1 DEF VideoOwned
  <2>6. PassBacked'
    BY <1>0, <2>1 DEF PassBacked, OneSpender, Spending
  <2> QED
    BY <2>2, <2>3, <2>4, <2>5, <2>6
<1>6. ASSUME NEW c \in Callers, native_consume(c) PROVE NativeInv'
  <2>1. /\ nCaller[c].pc = "consume"
        /\ \/ /\ nCaller'[c].pc = "issue" /\ nCaller'[c].receipt = nCaller[c].receipt
              /\ nPrepared = "PREPARED" /\ nPrepared' = "CONSUMED" /\ nTerminal = NoTerminal
           \/ /\ nCaller'[c].pc = "idle" /\ nCaller'[c].receipt = "NO_GO"
              /\ nPrepared' = nPrepared \/ (nPrepared = "PREPARED" /\ nPrepared' = "CONSUMED")
        /\ UNCHANGED <<nGrant, nTerminal, nVideo, nCaptures>>
        /\ \A d \in Callers : d # c => nCaller'[d] = nCaller[d]
    BY <1>6, <1>0 DEF native_consume, go, native_receipt, GuardEnds, NativeTypeOK, NativeCallers, NativePcs, NativeOutcomes
  <2>2. NativeTypeOK'
    BY <1>6, <1>0 DEF native_consume, go, native_receipt, GuardEnds, NativeTypeOK, NativeCallers, NativePcs, NativeOutcomes
  <2>3. OneSpender'
    BY <1>0, <2>1 DEF OneSpender, Spending
  <2>4. GrantOwned'
    BY <1>0, <2>1 DEF GrantOwned, OneSpender, Spending, NoGrant
  <2>5. VideoOwned'
    BY <1>0, <2>1 DEF VideoOwned
  <2>6. PassBacked'
    BY <1>0, <2>1 DEF PassBacked, OneSpender, Spending
  <2> QED
    BY <2>2, <2>3, <2>4, <2>5, <2>6
<1>7. ASSUME NEW c \in Callers, native_issue(c) PROVE NativeInv'
  <2>1. /\ nCaller[c].pc = "issue" /\ nCaller'[c].receipt = nCaller[c].receipt
        /\ nCaller'[c].candidate = "NO_GO"
        /\ nGrant' = nGrant \/ (nGrant = NoGrant /\ nGrant' = [state |-> "ISSUED", by |-> c])
        /\ \/ nCaller'[c].pc = "launch" /\ nGrant' = [state |-> "ISSUED", by |-> c]
           \/ nCaller'[c].pc = "terminalize"
        /\ UNCHANGED <<nPrepared, nTerminal, nVideo, nCaptures>>
        /\ \A d \in Callers : d # c => nCaller'[d] = nCaller[d]
    BY <1>7, <1>0 DEF native_issue, GuardEnds, NativeTypeOK, NativeCallers, NativePcs, NativeOutcomes
  <2>2. NativeTypeOK'
    BY <1>7, <1>0 DEF native_issue, GuardEnds, NativeTypeOK, NativeCallers, NativePcs, NativeOutcomes
  <2>3. OneSpender'
    BY <1>0, <2>1 DEF OneSpender, Spending, GrantOwned
  <2>4. GrantOwned'
    BY <1>0, <2>1 DEF GrantOwned, OneSpender, Spending, NoGrant
  <2>5. VideoOwned'
    BY <1>0, <2>1 DEF VideoOwned
  <2>6. PassBacked'
    BY <1>0, <2>1 DEF PassBacked, OneSpender, Spending, GrantOwned, NativeTypeOK, NoTerminal
  <2> QED
    BY <2>2, <2>3, <2>4, <2>5, <2>6
<1>8. ASSUME NEW c \in Callers, worker_accepts(c) PROVE NativeInv'
  <2>1. /\ nCaller[c].pc = "launch" /\ nCaller'[c].receipt = nCaller[c].receipt
        /\ \/ /\ nCaller'[c].pc = "capture" /\ nVideo = "free" /\ nVideo' = c
              /\ nCaptures' = nCaptures \cup {c}
           \/ nCaller'[c].pc = "revoke" /\ UNCHANGED <<nVideo, nCaptures>>
        /\ UNCHANGED <<nPrepared, nGrant, nTerminal>>
        /\ \A d \in Callers : d # c => nCaller'[d] = nCaller[d]
    BY <1>8, <1>0 DEF worker_accepts, go, nativeStore, NativeTypeOK, NativeCallers, NativePcs, NativeOutcomes
  <2>2. NativeTypeOK'
    BY <1>8, <1>0 DEF worker_accepts, go, nativeStore, NativeTypeOK, NativeCallers, NativePcs, NativeOutcomes
  <2>3. OneSpender'
    BY <1>0, <2>1 DEF OneSpender, Spending
  <2>4. GrantOwned'
    BY <1>0, <2>1 DEF GrantOwned, OneSpender, Spending, NoGrant, NativeTypeOK
  <2>5. VideoOwned'
    BY <1>0, <2>1 DEF VideoOwned
  <2>6. PassBacked'
    BY <1>0, <2>1 DEF PassBacked, OneSpender, Spending
  <2> QED
    BY <2>2, <2>3, <2>4, <2>5, <2>6
<1>9. ASSUME NEW c \in Callers, worker_ends(c) PROVE NativeInv'
  <2>1. /\ nCaller[c].pc = "capture" /\ nCaller'[c].pc = "revoke"
        /\ nCaller'[c].receipt = nCaller[c].receipt
        /\ nVideo' = "free"
        /\ UNCHANGED <<nPrepared, nGrant, nTerminal, nCaptures>>
        /\ \A d \in Callers : d # c => nCaller'[d] = nCaller[d]
    BY <1>9, <1>0 DEF worker_ends, nativeStore, NativeTypeOK, NativeCallers, NativePcs, NativeOutcomes
  <2>2. NativeTypeOK'
    <3>1. nCaller'[c] \in NativeCallers
      <4>1. PICK r \in NativeOutcomes :
              nCaller' = [nCaller EXCEPT ![c].pc = "revoke", ![c].candidate = r]
        BY <1>9 DEF worker_ends, NativeOutcomes
      <4> QED
        BY <4>1, <1>0 DEF NativeTypeOK, NativeCallers, NativePcs, NativeOutcomes
    <3>2. nCaller' \in [Callers -> NativeCallers]
      BY <1>9, <1>0, <2>1, <3>1 DEF worker_ends, nativeStore, NativeTypeOK
    <3> QED
      BY <1>9, <1>0, <3>2 DEF worker_ends, nativeStore, NativeTypeOK, NativeCallers, NativeOutcomes
  <2>3. OneSpender'
    BY <1>0, <2>1 DEF OneSpender, Spending
  <2>4. GrantOwned'
    BY <1>0, <2>1 DEF GrantOwned, OneSpender, Spending, NoGrant
  <2>5. VideoOwned'
    BY <1>0, <2>1 DEF VideoOwned
  <2>6. PassBacked'
    BY <1>0, <2>1 DEF PassBacked, OneSpender, Spending
  <2> QED
    BY <2>2, <2>3, <2>4, <2>5, <2>6
<1>10. ASSUME NEW c \in Callers, native_revoke(c) PROVE NativeInv'
  <2>1. /\ nCaller[c].pc = "revoke" /\ nCaller'[c].pc = "terminalize"
        /\ nCaller'[c].receipt = nCaller[c].receipt
        /\ nGrant' \in {nGrant, [nGrant EXCEPT !.state = "REVOKED"]}
        /\ nCaller'[c].candidate = "PASS" => nGrant' = [nGrant EXCEPT !.state = "REVOKED"]
        /\ UNCHANGED <<nPrepared, nTerminal, nVideo, nCaptures>>
        /\ \A d \in Callers : d # c => nCaller'[d] = nCaller[d]
    BY <1>10, <1>0 DEF native_revoke, GuardEnds, NativeTypeOK, NativeCallers, NativePcs, NativeOutcomes
  <2>2. NativeTypeOK'
    <3>1. nCaller'[c] \in NativeCallers
      <4>1. PICK r \in NativeOutcomes :
              nCaller' = [nCaller EXCEPT ![c].pc = "terminalize", ![c].candidate = r]
        BY <1>10, <1>0 DEF native_revoke, NativeTypeOK, NativeCallers, NativeOutcomes
      <4> QED
        BY <4>1, <1>0 DEF NativeTypeOK, NativeCallers, NativePcs, NativeOutcomes
    <3>2. nCaller' \in [Callers -> NativeCallers]
      BY <1>10, <1>0, <2>1, <3>1 DEF native_revoke, GuardEnds, NativeTypeOK
    <3> QED
      BY <1>0, <2>1, <3>2 DEF NativeTypeOK, GrantOwned
  <2>3. OneSpender'
    BY <1>0, <2>1 DEF OneSpender, Spending, GrantOwned
  <2>4. GrantOwned'
    BY <1>0, <2>1 DEF GrantOwned, OneSpender, Spending, NoGrant, NativeTypeOK
  <2>5. VideoOwned'
    BY <1>0, <2>1 DEF VideoOwned
  <2>6. PassBacked'
    BY <1>0, <2>1 DEF PassBacked, OneSpender, Spending
  <2> QED
    BY <2>2, <2>3, <2>4, <2>5, <2>6
<1>11. ASSUME NEW c \in Callers, native_terminalize(c) PROVE NativeInv'
  <2>1. /\ nCaller[c].pc = "terminalize" /\ nCaller'[c].pc = "idle"
        /\ nTerminal' = nTerminal \/
          (nPrepared = "CONSUMED" /\ nTerminal' = [outcome |-> nCaller[c].candidate, by |-> c])
        /\ \/ nCaller'[c].receipt = "NO_GO"
           \/ /\ nCaller'[c].receipt = nCaller[c].candidate
              /\ nTerminal' = [outcome |-> nCaller[c].candidate, by |-> c]
        /\ UNCHANGED <<nPrepared, nGrant, nVideo, nCaptures>>
        /\ \A d \in Callers : d # c => nCaller'[d] = nCaller[d]
    BY <1>11, <1>0 DEF native_terminalize, native_receipt, GuardEnds, NativeTypeOK, NativeCallers, NativePcs, NativeOutcomes
  <2>2. NativeTypeOK'
    <3>1. nCaller'[c] \in NativeCallers
      <4>1. PICK r \in NativeOutcomes :
              nCaller' = [nCaller EXCEPT ![c].pc = "idle", ![c].receipt = r, ![c].issued = FALSE]
        BY <1>11, <1>0 DEF native_terminalize, native_receipt, NativeTypeOK, NativeCallers, NativeOutcomes
      <4> QED
        BY <4>1, <1>0 DEF NativeTypeOK, NativeCallers, NativePcs, NativeOutcomes
    <3>2. nCaller' \in [Callers -> NativeCallers]
      BY <1>11, <1>0, <2>1, <3>1 DEF native_terminalize, native_receipt, GuardEnds, NativeTypeOK
    <3> QED
      BY <1>11, <1>0, <3>2 DEF native_terminalize, native_receipt, GuardEnds, NativeTypeOK, NativeCallers, NativeOutcomes
  <2>3. OneSpender'
    BY <1>0, <2>1 DEF OneSpender, Spending
  <2>4. GrantOwned'
    BY <1>0, <2>1 DEF GrantOwned, OneSpender, Spending, NoGrant
  <2>5. VideoOwned'
    BY <1>0, <2>1 DEF VideoOwned
  <2>6. PassBacked'
    BY <1>0, <2>1 DEF PassBacked, OneSpender, Spending, GrantOwned, NativeTypeOK, NoTerminal
  <2> QED
    BY <2>2, <2>3, <2>4, <2>5, <2>6
<1>12. ASSUME NEW c \in Callers, native_crash(c) PROVE NativeInv'
  <2>1. /\ nCaller'[c].pc = "gone" /\ nCaller'[c].receipt = nCaller[c].receipt
        /\ nVideo' = nVideo \/ (nVideo = c /\ nVideo' = "free")
        /\ UNCHANGED <<nPrepared, nGrant, nTerminal, nCaptures>>
        /\ \A d \in Callers : d # c => nCaller'[d] = nCaller[d]
    BY <1>12, <1>0 DEF native_crash, go, nativeStore, NativeTypeOK, NativeCallers, NativePcs, NativeOutcomes
  <2>2. NativeTypeOK'
    BY <1>12, <1>0 DEF native_crash, go, nativeStore, NativeTypeOK, NativeCallers, NativePcs, NativeOutcomes
  <2>3. OneSpender'
    BY <1>0, <2>1 DEF OneSpender, Spending
  <2>4. GrantOwned'
    BY <1>0, <2>1 DEF GrantOwned, OneSpender, Spending, NoGrant
  <2>5. VideoOwned'
    BY <1>0, <2>1 DEF VideoOwned
  <2>6. PassBacked'
    BY <1>0, <2>1 DEF PassBacked, OneSpender, Spending
  <2> QED
    BY <2>2, <2>3, <2>4, <2>5, <2>6
<1>13. CASE UNCHANGED nativeVars
  BY <1>13 DEF nativeVars, NativeTypeOK, OneSpender, GrantOwned, VideoOwned, PassBacked
<1> QED
  BY <1>1, <1>2, <1>3, <1>4, <1>5, <1>6, <1>7, <1>8, <1>9, <1>10, <1>11, <1>12, <1>13 DEF NativeNext

\* However callers race, crash and call again, one authority opens the camera once,
\* for the owner of the grant, and a PASS is the one on disk.
THEOREM NativeSingleCaptureInvariant == NativeSpec => []NativeSingleCapture
<1>1. NativeInv => NativeSingleCapture
  <2> SUFFICES ASSUME NativeInv PROVE NativeSingleCapture
    OBVIOUS
  <2>1. nCaptures \subseteq {nGrant.by}
    BY DEF NativeInv, GrantOwned
  <2>2. Cardinality(nCaptures) <= 1
    <3> DEFINE owner == {nGrant.by}
    <3>1. IsFiniteSet(owner) /\ Cardinality(owner) = 1
      BY FS_Singleton
    <3>2. nCaptures \in SUBSET owner
      BY <2>1
    <3> HIDE DEF owner
    <3> QED
      BY <3>1, <3>2, FS_Subset
  <2> QED
    BY <2>2 DEF NativeInv, OneSpender, GrantOwned, VideoOwned, PassBacked, Spending, NativeSingleCapture
<1> QED
  BY <1>1, NativeInvInit, NativeInvStep, PTL DEF NativeSpec

------------------------------------------------------------------------------
(* The pathname store: every step of the lifecycle succeeds once. *)

\* The records each of the three leaves may hold.
Authorities ==
  [state : {"PENDING"}] \cup [state : {"PREPARED"}, prepared : Stagers]
    \cup [state : {"CONSUMED"}, prepared : Stagers, consumed : Stagers]
Grants == [state : {"ISSUED", "REVOKED"}, consumed : Authorities, capability : Stagers, issued : Nat]
Terminals == [state : {"TERMINAL"}, consumed : Authorities, revoked : Grants, code : Stagers]
StagedRecords == Authorities \cup Grants \cup Terminals

WritingAt == {"write", "flush", "replace", "durable", "result"}
SettledAt == {"idle", "fallback", "stuck"}
StagedCalls == [step : Steps, at : WritingAt, record : StagedRecords]
                 \cup [step : Steps \cup {"none"}, at : SettledAt]
StagedTypeOK ==
  /\ stLeaf \in [LeafNames -> {Missing, TornLeaf} \cup StagedRecords]
  /\ stLeaf["authority"] \in {Missing, TornLeaf} \cup Authorities
  /\ stLeaf["grant"] \in {Missing, TornLeaf} \cup Grants
  /\ stLeaf["terminal"] \in {Missing, TornLeaf} \cup Terminals
  /\ stCall \in [Stagers -> StagedCalls]
  /\ stTold \subseteq Stagers \X Steps \X StagedRecords
  /\ stClock \in Nat

\* Whoever is in a step, or could not release the mutex after one, holds it.
StagedExclusion == \A c \in Stagers : stCall[c].at # "idle" => stMutex = c

\* How the three leaves hang together, torn ones included.
LeavesBound ==
  /\ stLeaf["grant"] # Missing => stLeaf["authority"].state = "CONSUMED"
  /\ stLeaf["grant"] \in Grants => stLeaf["grant"].consumed = stLeaf["authority"]
  /\ stLeaf["terminal"] # Missing => stLeaf["grant"].state = "REVOKED"
  /\ stLeaf["terminal"] \in Terminals =>
       /\ stLeaf["terminal"].consumed = stLeaf["authority"]
       /\ stLeaf["terminal"].revoked = stLeaf["grant"]

\* What the check under the mutex established, and the record made from it: both hold
\* until the leaf is replaced, because nobody else may write meanwhile.
Ready(c) ==
  LET authority == stLeaf["authority"]
      grant == stLeaf["grant"]
      step == stCall[c].step
  IN /\ step = "reserve_pending" => authority = Missing
     /\ step = "finalize_prepared" => authority.state = "PENDING"
     /\ step = "consume" => authority.state = "PREPARED"
     /\ step = "issue_worker_grant" => authority.state = "CONSUMED"
     /\ step = "revoke_worker_grant" => grant.state = "ISSUED"
     /\ step = "finalize_terminal" => grant.state = "REVOKED"
Made(c) ==
  LET authority == stLeaf["authority"]
      grant == stLeaf["grant"]
      step == stCall[c].step
      record == stCall[c].record
  IN /\ step = "reserve_pending" => record = [state |-> "PENDING"]
     /\ step = "finalize_prepared" => record = [state |-> "PREPARED", prepared |-> c]
     /\ step = "consume" =>
          record = [state |-> "CONSUMED", prepared |-> authority.prepared, consumed |-> c]
     /\ step = "issue_worker_grant" =>
          record \in Grants /\ record.state = "ISSUED" /\ record.consumed = authority /\ record.capability = c
     /\ step = "revoke_worker_grant" => record = [grant EXCEPT !.state = "REVOKED"]
     /\ step = "finalize_terminal" =>
          record \in Terminals /\ record.consumed = authority /\ record.revoked = grant

\* What is on the leaf once the step has written it.
Written(c) ==
  LET authority == stLeaf["authority"]
      grant == stLeaf["grant"]
      step == stCall[c].step
  IN /\ stLeaf[LeafOf(step)] = stCall[c].record
     /\ step = "finalize_prepared" => authority.state = "PREPARED" /\ authority.prepared = c
     /\ step = "consume" => authority.state = "CONSUMED"
     /\ step = "issue_worker_grant" => grant.state = "ISSUED" /\ grant.capability = c
     /\ step = "revoke_worker_grant" => grant.state = "REVOKED"
     /\ step = "finalize_terminal" => stLeaf["terminal"].state = "TERMINAL"

CallSound(c) ==
  /\ stCall[c].at \in {"write", "replace"} => Ready(c) /\ Made(c)
  /\ stCall[c].at = "replace" => ~Creates(stCall[c].step)
  /\ stCall[c].at = "flush" =>
       /\ Creates(stCall[c].step) /\ Made(c)
       /\ stLeaf[LeafOf(stCall[c].step)] = TornLeaf
  /\ stCall[c].at \in {"durable", "result"} => Written(c)
  /\ stCall[c].at \in {"flush", "replace", "durable", "result"} =>
       \A t \in stTold : t[2] # stCall[c].step
CallsSound == \A c \in Stagers : CallSound(c)

\* What a returned success leaves behind for good.
ToldBacked ==
  /\ \A t, u \in stTold : t[2] = u[2] => t = u
  /\ \A t \in stTold :
       /\ t[2] = "reserve_pending" => stLeaf["authority"] # Missing
       /\ t[2] = "finalize_prepared" =>
            stLeaf["authority"].state \in {"PREPARED", "CONSUMED"} /\ stLeaf["authority"].prepared = t[1]
       /\ t[2] = "consume" => stLeaf["authority"].state = "CONSUMED" /\ stLeaf["authority"] = t[3]
       /\ t[2] = "issue_worker_grant" =>
            stLeaf["grant"].state \in {"ISSUED", "REVOKED"} /\ stLeaf["grant"].capability = t[1]
       /\ t[2] = "revoke_worker_grant" => stLeaf["grant"].state = "REVOKED" /\ stLeaf["grant"] = t[3]
       /\ t[2] = "finalize_terminal" => stLeaf["terminal"].state = "TERMINAL"

StagedInv == StagedTypeOK /\ StagedExclusion /\ LeavesBound /\ CallsSound /\ ToldBacked

\* A leaf's state tells what kind of record it holds.
LEMMA StagedShapes ==
  ASSUME StagedTypeOK
  PROVE  /\ stLeaf["authority"].state \in {"PENDING", "PREPARED", "CONSUMED"} <=> stLeaf["authority"] \in Authorities
         /\ stLeaf["grant"].state \in {"ISSUED", "REVOKED"} <=> stLeaf["grant"] \in Grants
         /\ stLeaf["terminal"].state = "TERMINAL" <=> stLeaf["terminal"] \in Terminals
         /\ Missing.state = "MISSING" /\ TornLeaf.state = "TORN"
         /\ stLeaf["authority"].state = "PREPARED" =>
              stLeaf["authority"].prepared \in Stagers
BY DEF StagedTypeOK, Authorities, Grants, Terminals, Missing, TornLeaf

\* What the check under the mutex gives, whatever the clock says.
LEMMA PermittedReady ==
  ASSUME StagedTypeOK, LeavesBound, NEW c \in Stagers, NEW step \in Steps, Permitted(c, step)
  PROVE  /\ step = "reserve_pending" => stLeaf["authority"] = Missing
         /\ step = "finalize_prepared" => stLeaf["authority"].state = "PENDING"
         /\ step = "consume" => stLeaf["authority"].state = "PREPARED"
         /\ step = "issue_worker_grant" => stLeaf["authority"].state = "CONSUMED"
         /\ step = "revoke_worker_grant" => stLeaf["grant"].state = "ISSUED"
         /\ step = "finalize_terminal" =>
              stLeaf["authority"].state = "CONSUMED" /\ stLeaf["grant"].state = "REVOKED"
<1>1. ASSUME NEW s \in {"PENDING", "PREPARED", "CONSUMED"}, inspect_locked = s
      PROVE  stLeaf["authority"].state = s
  BY <1>1 DEF inspect_locked
<1>2. inspect_locked = "ABSENT" => stLeaf["authority"] = Missing
  <2>1. stLeaf["authority"].state # "ABSENT"
    BY DEF StagedTypeOK, Authorities, Missing, TornLeaf
  <2> QED
    BY <2>1 DEF inspect_locked, LeafNames
<1> QED
  BY <1>1, <1>2 DEF Permitted, matches, Steps

\* The record a step makes has the type of its leaf.
LEMMA NewRecordType ==
  ASSUME StagedTypeOK, LeavesBound, NEW c \in Stagers, NEW step \in Steps, Permitted(c, step)
  PROVE  /\ NewRecord(c, step) \in StagedRecords
         /\ step = "issue_worker_grant" => NewRecord(c, step) \in Grants
         /\ step = "finalize_terminal" => NewRecord(c, step) \in Terminals
<1> DEFINE authority == stLeaf["authority"]
           grant == stLeaf["grant"]
<1>1. CASE step = "reserve_pending"
  BY <1>1 DEF NewRecord, StagedRecords, Authorities
<1>2. CASE step = "finalize_prepared"
  BY <1>2 DEF NewRecord, StagedRecords, Authorities
<1>3. CASE step = "consume"
  <2>1. authority.prepared \in Stagers
    BY <1>3, PermittedReady, StagedShapes
  <2> QED
    BY <1>3, <2>1 DEF NewRecord, StagedRecords, Authorities
<1>4. CASE step = "issue_worker_grant"
  <2>1. authority \in Authorities
    BY <1>4, PermittedReady, StagedShapes
  <2> QED
    BY <1>4, <2>1 DEF NewRecord, StagedRecords, Grants, StagedTypeOK
<1>5. CASE step = "revoke_worker_grant"
  <2>1. grant \in Grants
    BY <1>5, PermittedReady, StagedShapes
  <2> QED
    BY <1>5, <2>1 DEF NewRecord, StagedRecords, Grants
<1>6. CASE step = "finalize_terminal"
  <2>1. authority \in Authorities /\ grant \in Grants
    BY <1>6, PermittedReady, StagedShapes
  <2> QED
    BY <1>6, <2>1 DEF NewRecord, StagedRecords, Terminals
<1> QED
  BY <1>1, <1>2, <1>3, <1>4, <1>5, <1>6 DEF Steps

\* A caller between two steps, or one that keeps the mutex, has nothing to prove.
LEMMA StagedSettled ==
  ASSUME StagedInv, NEW c \in Stagers, stCall[c].at # "idle",
         stCall' \in [Stagers -> StagedCalls], stCall'[c].at \in SettledAt,
         \A d \in Stagers : d # c => stCall'[d] = stCall[d],
         \/ stMutex' = stMutex
         \/ stCall'[c].at = "idle" /\ stMutex = c /\ stMutex' = NoHolder,
         UNCHANGED <<stLeaf, stTold, stClock>>
  PROVE  StagedInv'
<1> USE StagedAssumption DEF StagedInv
<1>1. StagedTypeOK'
  BY DEF StagedTypeOK
<1>2. StagedExclusion'
  BY DEF StagedExclusion, NoHolder
<1>3. LeavesBound' /\ ToldBacked'
  BY DEF LeavesBound, ToldBacked
<1>4. \A d \in Stagers : stCall'[d].at \in SettledAt
  BY DEF StagedExclusion, SettledAt
<1>5. CallsSound'
  BY <1>4 DEF CallsSound, CallSound, SettledAt
<1> QED
  BY <1>1, <1>2, <1>3, <1>5

\* The holder goes on with its step and no leaf changes.
LEMMA StagedContinues ==
  ASSUME StagedInv, NEW c \in Stagers, NEW at \in WritingAt,
         stCall[c].at \in WritingAt,
         stCall' = [stCall EXCEPT ![c] = [stCall[c] EXCEPT !.at = at]],
         UNCHANGED <<stLeaf, stMutex, stTold, stClock>>
  PROVE  /\ StagedTypeOK' /\ StagedExclusion' /\ LeavesBound' /\ ToldBacked'
         /\ stCall'[c].at = at /\ stCall'[c].step = stCall[c].step
         /\ stCall'[c].record = stCall[c].record
         /\ \A d \in Stagers : d # c => stCall'[d] = stCall[d] /\ stCall[d].at = "idle"
<1> USE DEF StagedInv
<1>1. stCall[c] \in [step : Steps, at : WritingAt, record : StagedRecords]
  BY DEF StagedTypeOK, StagedCalls, SettledAt, WritingAt
<1>2. /\ stCall'[c] \in [step : Steps, at : WritingAt, record : StagedRecords]
      /\ stCall'[c].at = at /\ stCall'[c].step = stCall[c].step
      /\ stCall'[c].record = stCall[c].record
      /\ \A d \in Stagers : d # c => stCall'[d] = stCall[d]
  BY <1>1 DEF StagedTypeOK
<1>3. StagedTypeOK'
  BY <1>2 DEF StagedTypeOK, StagedCalls
<1>4. \A d \in Stagers : d # c => stCall[d].at = "idle"
  BY DEF StagedExclusion, WritingAt
<1> QED
  BY <1>2, <1>3, <1>4 DEF StagedExclusion, LeavesBound, ToldBacked, WritingAt

\* The pathname store keeps its invariant: the mutex, the check under it and the
\* exclusive creation of a leaf carry it, crashes at any point included.
LEMMA StagedInvStep ==
  ASSUME StagedInv, [StagedNext]_stagedVars
  PROVE  StagedInv'
<1> USE StagedAssumption
<1>0. StagedTypeOK /\ StagedExclusion /\ LeavesBound /\ CallsSound /\ ToldBacked
  BY DEF StagedInv
<1>a. Idle \in StagedCalls /\ Idle.at = "idle"
  BY DEF Idle, StagedCalls, SettledAt
<1>b. ASSUME NEW c \in Stagers, NEW call \in StagedCalls, stCall' = [stCall EXCEPT ![c] = call]
      PROVE  /\ stCall' \in [Stagers -> StagedCalls] /\ stCall'[c] = call
             /\ \A d \in Stagers : d # c => stCall'[d] = stCall[d]
  BY <1>0, <1>b DEF StagedTypeOK
<1>1. ASSUME NEW c \in Stagers, inspect(c) PROVE StagedInv'
  <2>1. UNCHANGED <<stLeaf, stMutex, stCall, stTold, stClock>>
    BY <1>1 DEF inspect
  <2> QED
    BY <2>1, <1>0 DEF StagedInv, StagedTypeOK, StagedExclusion, LeavesBound, CallsSound, CallSound,
       Ready, Made, Written, ToldBacked
<1>2. ASSUME NEW c \in Stagers, NEW step \in Steps, step_begins(c, step) PROVE StagedInv'
  <2> DEFINE call == [step |-> step, at |-> "write", record |-> NewRecord(c, step)]
  <2>1. /\ stCall[c].at = "idle" /\ stMutex = NoHolder /\ Permitted(c, step)
        /\ stMutex' = c /\ stCall' = [stCall EXCEPT ![c] = call]
        /\ UNCHANGED <<stLeaf, stTold, stClock>>
    BY <1>2 DEF step_begins, Becomes, acquirable
  <2>2. NewRecord(c, step) \in StagedRecords
    BY <1>0, <2>1, NewRecordType
  <2>3. call \in [step : Steps, at : WritingAt, record : StagedRecords]
    BY <2>2 DEF WritingAt
  <2>4. stCall'[c] = call /\ \A d \in Stagers : d # c => stCall'[d] = stCall[d]
    BY <1>0, <2>1 DEF StagedTypeOK
  <2>5. StagedTypeOK'
    BY <1>0, <2>1, <2>3 DEF StagedTypeOK, StagedCalls
  <2>6. \A d \in Stagers : d # c => stCall'[d].at = "idle"
    BY <1>0, <2>1, <2>4 DEF StagedExclusion, NoHolder
  <2>7. StagedExclusion'
    BY <2>1, <2>6 DEF StagedExclusion
  <2>8. LeavesBound' /\ ToldBacked'
    BY <1>0, <2>1 DEF LeavesBound, ToldBacked
  <2>9. Ready(c)'
    BY <1>0, <2>1, <2>4, PermittedReady DEF Ready
  <2>10. Made(c)'
    <3>1. stCall'[c].step = step /\ stCall'[c].record = NewRecord(c, step)
      BY <2>4
    <3> HIDE DEF call
    <3> QED
      BY <1>0, <2>1, <3>1, NewRecordType DEF Made, NewRecord
  <2>11. CallsSound'
    BY <2>4, <2>6, <2>9, <2>10 DEF CallsSound, CallSound
  <2> QED
    BY <2>5, <2>7, <2>8, <2>11 DEF StagedInv
<1>3. ASSUME NEW c \in Stagers, transition_reads(c) PROVE StagedInv'
  <2>1. /\ stCall[c].at = "write" /\ ~Creates(stCall[c].step)
        /\ stCall' = [stCall EXCEPT ![c] = [stCall[c] EXCEPT !.at = "replace"]]
        /\ UNCHANGED <<stLeaf, stMutex, stTold, stClock>>
    BY <1>3 DEF transition_reads, Becomes
  <2>2. /\ StagedTypeOK' /\ StagedExclusion' /\ LeavesBound' /\ ToldBacked'
        /\ stCall'[c].at = "replace" /\ stCall'[c].step = stCall[c].step
        /\ stCall'[c].record = stCall[c].record
        /\ \A d \in Stagers : d # c => stCall'[d] = stCall[d] /\ stCall[d].at = "idle"
    BY <2>1, StagedContinues DEF WritingAt
  <2>3. stCall[c].step \in Steps
    BY <1>0, <2>1 DEF StagedTypeOK, StagedCalls, SettledAt
  <2>4. Ready(c) /\ Made(c)
    BY <1>0, <2>1 DEF CallsSound, CallSound
  <2>5. \A t \in stTold : t[2] # stCall[c].step
    BY <1>0, <2>1, <2>3, <2>4 DEF ToldBacked, Ready, Creates, Steps
  <2>6. CallSound(c)'
    BY <2>1, <2>2, <2>4, <2>5 DEF CallSound, Ready, Made
  <2>7. CallsSound'
    BY <2>2, <2>6 DEF CallsSound, CallSound
  <2> QED
    BY <2>2, <2>7 DEF StagedInv
<1>4. ASSUME NEW c \in Stagers, step_durable(c) PROVE StagedInv'
  <2>1. /\ stCall[c].at = "durable"
        /\ stCall' = [stCall EXCEPT ![c] = [stCall[c] EXCEPT !.at = "result"]]
        /\ UNCHANGED <<stLeaf, stMutex, stTold, stClock>>
    BY <1>4 DEF step_durable, Becomes
  <2>2. /\ StagedTypeOK' /\ StagedExclusion' /\ LeavesBound' /\ ToldBacked'
        /\ stCall'[c].at = "result" /\ stCall'[c].step = stCall[c].step
        /\ stCall'[c].record = stCall[c].record
        /\ \A d \in Stagers : d # c => stCall'[d] = stCall[d] /\ stCall[d].at = "idle"
    BY <2>1, StagedContinues DEF WritingAt
  <2>3. CallSound(c)'
    BY <1>0, <2>1, <2>2 DEF CallsSound, CallSound, Written
  <2>4. CallsSound'
    BY <2>2, <2>3 DEF CallsSound, CallSound
  <2> QED
    BY <2>2, <2>4 DEF StagedInv
<1>5. ASSUME NEW c \in Stagers, step_fails(c) PROVE StagedInv'
  <2> DEFINE call == [step |-> stCall[c].step, at |-> "fallback"]
  <2>1. /\ stCall[c].at \in WritingAt
        /\ stCall' = [stCall EXCEPT ![c] = call]
        /\ UNCHANGED <<stLeaf, stMutex, stTold, stClock>>
    BY <1>5 DEF step_fails, Becomes, WritingAt
  <2>2. call \in StagedCalls /\ call.at = "fallback" /\ stCall[c].at # "idle"
    BY <1>0, <2>1 DEF StagedTypeOK, StagedCalls, SettledAt, WritingAt
  <2> HIDE DEF call
  <2>3. /\ stCall' \in [Stagers -> StagedCalls] /\ stCall'[c] = call
        /\ \A d \in Stagers : d # c => stCall'[d] = stCall[d]
    BY <1>0, <2>1, <2>2 DEF StagedTypeOK
  <2> QED
    BY <2>1, <2>2, <2>3, StagedSettled DEF SettledAt
<1>6. ASSUME NEW c \in Stagers, release_fails(c) PROVE StagedInv'
  <2> DEFINE call == [step |-> "none", at |-> "stuck"]
  <2>1. /\ stCall[c].at # "idle" /\ stCall' = [stCall EXCEPT ![c] = call]
        /\ UNCHANGED <<stLeaf, stMutex, stTold, stClock>>
    BY <1>6 DEF release_fails, Becomes
  <2>2. call \in StagedCalls /\ call.at = "stuck"
    BY DEF StagedCalls, SettledAt
  <2> HIDE DEF call
  <2> QED
    BY <1>b, <2>1, <2>2, StagedSettled DEF SettledAt
<1>7. ASSUME NEW c \in Stagers, stager_ends(c) PROVE StagedInv'
  <2>1. /\ stCall[c].at # "idle" /\ stCall' = [stCall EXCEPT ![c] = Idle]
        /\ stMutex = c /\ stMutex' = NoHolder
        /\ UNCHANGED <<stLeaf, stTold, stClock>>
    BY <1>7, <1>0 DEF stager_ends, Becomes, StagedExclusion
  <2> QED
    BY <1>a, <1>b, <2>1, StagedSettled DEF SettledAt
<1>8. ASSUME NEW c \in Stagers, step_returns(c) PROVE StagedInv'
  <2>1. /\ stCall[c].at \in {"result", "fallback"} /\ stMutex = c /\ stMutex' = NoHolder
        /\ stCall' = [stCall EXCEPT ![c] = Idle]
        /\ UNCHANGED <<stLeaf, stClock>>
    BY <1>8, <1>0 DEF step_returns, Becomes, StagedExclusion
  <2>2. CASE stCall[c].at = "fallback"
    <3>1. stTold' = stTold
      BY <1>8, <2>2 DEF step_returns
    <3> QED
      BY <1>a, <1>b, <2>1, <3>1, <2>2, StagedSettled DEF SettledAt
  <2>3. CASE stCall[c].at = "result"
    <3> DEFINE told == <<c, stCall[c].step, stCall[c].record>>
    <3>1. stTold' = stTold \cup {told}
      BY <1>8, <2>3 DEF step_returns
    <3>2. stCall[c].step \in Steps /\ stCall[c].record \in StagedRecords
      BY <1>0, <2>3 DEF StagedTypeOK, StagedCalls, SettledAt
    <3>3. Written(c) /\ \A t \in stTold : t[2] # stCall[c].step
      BY <1>0, <2>3 DEF CallsSound, CallSound
    <3>4. StagedTypeOK'
      BY <1>0, <2>1, <3>1, <3>2 DEF StagedTypeOK, StagedCalls, SettledAt, Idle
    <3>5. \A d \in Stagers : stCall'[d].at = "idle"
      BY <1>0, <2>1 DEF StagedExclusion, StagedTypeOK, Idle
    <3>6. StagedExclusion' /\ LeavesBound' /\ CallsSound'
      BY <1>0, <2>1, <3>5 DEF StagedExclusion, LeavesBound, CallsSound, CallSound
    <3>7. stCall[c].step = "reserve_pending" => stLeaf["authority"] # Missing
      BY <1>0, <3>3, <3>2, StagedShapes DEF Written, LeafOf, StagedRecords, Authorities, Grants, Terminals
    <3>8. ToldBacked'
      BY <1>0, <2>1, <3>1, <3>3, <3>7 DEF ToldBacked, Written, LeafOf
    <3> QED
      BY <3>4, <3>6, <3>8 DEF StagedInv
  <2> QED
    BY <2>1, <2>2, <2>3
<1>9. ASSUME stage_clock \/ reboot PROVE StagedInv'
  <2>1. UNCHANGED <<stLeaf, stTold>> /\ stClock' \in Nat
    BY <1>9, <1>0 DEF stage_clock, reboot, StagedTypeOK
  <2>2. CASE stage_clock
    <3>1. UNCHANGED <<stCall, stMutex>>
      BY <2>2 DEF stage_clock
    <3> QED
      BY <2>1, <3>1, <1>0 DEF StagedInv, StagedTypeOK, StagedExclusion, LeavesBound, CallsSound, CallSound,
         Ready, Made, Written, ToldBacked
  <2>3. CASE reboot
    <3>1. stCall' = [c \in Stagers |-> Idle]
      BY <2>3 DEF reboot
    <3>2. \A c \in Stagers : stCall'[c].at = "idle"
      BY <3>1 DEF Idle
    <3>3. StagedTypeOK'
      BY <1>0, <2>1, <3>1 DEF StagedTypeOK, StagedCalls, SettledAt, Idle
    <3> QED
      BY <2>1, <3>2, <3>3, <1>0 DEF StagedInv, StagedExclusion, LeavesBound, CallsSound, CallSound, ToldBacked
  <2> QED
    BY <1>9, <2>2, <2>3
<1>10. ASSUME NEW c \in Stagers, create_opens(c) PROVE StagedInv'
  <2> DEFINE step == stCall[c].step
  <2>1. /\ stCall[c].at = "write" /\ Creates(step) /\ stLeaf[LeafOf(step)] = Missing
        /\ stLeaf' = [stLeaf EXCEPT ![LeafOf(step)] = TornLeaf]
        /\ stCall' = [stCall EXCEPT ![c] = [stCall[c] EXCEPT !.at = "flush"]]
        /\ UNCHANGED <<stMutex, stTold, stClock>>
    BY <1>10 DEF create_opens, Becomes
  <2>2. stCall[c] \in [step : Steps, at : WritingAt, record : StagedRecords]
    BY <1>0, <2>1 DEF StagedTypeOK, StagedCalls, SettledAt
  <2>3. /\ stCall' \in [Stagers -> StagedCalls]
        /\ stCall'[c].at = "flush" /\ stCall'[c].step = step /\ stCall'[c].record = stCall[c].record
        /\ \A d \in Stagers : d # c => stCall'[d] = stCall[d]
    BY <1>0, <2>1, <2>2 DEF StagedTypeOK, StagedCalls, WritingAt
  <2>4. \A d \in Stagers : d # c => stCall'[d].at = "idle"
    BY <1>0, <2>1, <2>3 DEF StagedExclusion
  <2>5. StagedExclusion'
    BY <1>0, <2>1, <2>3, <2>4 DEF StagedExclusion
  <2>6. Ready(c) /\ Made(c)
    BY <1>0, <2>1 DEF CallsSound, CallSound
  <2>7. LeafOf(step) \in LeafNames /\ stLeaf'[LeafOf(step)] = TornLeaf
        /\ \A l \in LeafNames : l # LeafOf(step) => stLeaf'[l] = stLeaf[l]
    BY <1>0, <2>1 DEF StagedTypeOK, LeafOf, LeafNames
  <2>8. StagedTypeOK'
    BY <1>0, <2>1, <2>3, <2>7 DEF StagedTypeOK, LeafNames
  <2>9. \A t \in stTold : t[2] # step
    BY <1>0, <2>1, StagedShapes DEF ToldBacked, Creates, LeafOf
  <2>10. LeavesBound'
    BY <1>0, <2>1, <2>6, <2>7, StagedShapes DEF LeavesBound, Ready, Creates, LeafOf, LeafNames,
       Grants, Terminals
  <2>11. ToldBacked'
    BY <1>0, <2>1, <2>6, <2>7, StagedShapes DEF ToldBacked, LeavesBound, Ready, Creates, LeafOf, LeafNames
  <2>12. Made(c)'
    BY <2>1, <2>3, <2>6, <2>7 DEF Made, Creates, LeafOf, LeafNames
  <2>13. CallsSound'
    BY <2>1, <2>3, <2>4, <2>7, <2>9, <2>12 DEF CallsSound, CallSound
  <2> QED
    BY <2>5, <2>8, <2>10, <2>11, <2>13 DEF StagedInv
<1>11. ASSUME NEW c \in Stagers, create_flushes(c) \/ transition_replaces(c) PROVE StagedInv'
  <2> DEFINE step == stCall[c].step
             record == stCall[c].record
  <2>1. /\ stCall[c].at \in {"flush", "replace"}
        /\ stLeaf' = [stLeaf EXCEPT ![LeafOf(step)] = record]
        /\ stCall' = [stCall EXCEPT ![c] = [stCall[c] EXCEPT !.at = "durable"]]
        /\ UNCHANGED <<stMutex, stTold, stClock>>
    BY <1>11 DEF create_flushes, transition_replaces, Becomes
  <2>2. stCall[c] \in [step : Steps, at : WritingAt, record : StagedRecords]
    BY <1>0, <2>1 DEF StagedTypeOK, StagedCalls, SettledAt
  <2>3. /\ stCall' \in [Stagers -> StagedCalls]
        /\ stCall'[c].at = "durable" /\ stCall'[c].step = step /\ stCall'[c].record = record
        /\ \A d \in Stagers : d # c => stCall'[d] = stCall[d]
    BY <1>0, <2>1, <2>2 DEF StagedTypeOK, StagedCalls, WritingAt
  <2>4. \A d \in Stagers : d # c => stCall'[d].at = "idle"
    BY <1>0, <2>1, <2>3 DEF StagedExclusion
  <2>5. StagedExclusion'
    BY <1>0, <2>1, <2>3, <2>4 DEF StagedExclusion
  <2>6. /\ Made(c) /\ \A t \in stTold : t[2] # step
        /\ stCall[c].at = "flush" => Creates(step) /\ stLeaf[LeafOf(step)] = TornLeaf
        /\ stCall[c].at = "replace" => ~Creates(step) /\ Ready(c)
    BY <1>0, <2>1 DEF CallsSound, CallSound
  <2>7. LeafOf(step) \in LeafNames /\ stLeaf'[LeafOf(step)] = record
        /\ \A l \in LeafNames : l # LeafOf(step) => stLeaf'[l] = stLeaf[l]
    BY <1>0, <2>1 DEF StagedTypeOK, LeafOf, LeafNames
  <2>8. stLeaf' \in [LeafNames -> {Missing, TornLeaf} \cup StagedRecords]
    BY <1>0, <2>1, <2>2, <2>7 DEF StagedTypeOK
  <2>9. step \in Steps
    BY <2>2
  <2> HIDE DEF step, record
  <2>10. Written(c)' /\ LeavesBound' /\ ToldBacked' /\ StagedTypeOK'
    <3> USE DEF LeafOf, Creates, LeafNames
    <3>1. CASE step = "reserve_pending"
      <4>1. stCall[c].at = "flush" /\ stLeaf["authority"] = TornLeaf /\ record = [state |-> "PENDING"]
        BY <3>1, <2>1, <2>6 DEF Made, step, record
      <4>2. stLeaf'["authority"] = record /\ stLeaf'["grant"] = stLeaf["grant"]
            /\ stLeaf'["terminal"] = stLeaf["terminal"]
        BY <3>1, <2>7
      <4>3. stLeaf["grant"] = Missing /\ stLeaf["terminal"] = Missing
        BY <1>0, <4>1, StagedShapes DEF LeavesBound
      <4>4. StagedTypeOK'
        BY <1>0, <2>1, <2>3, <2>8, <4>1, <4>2 DEF StagedTypeOK, Authorities
      <4>5. LeavesBound'
        BY <4>2, <4>3 DEF LeavesBound, Grants, Terminals, Missing
      <4>6. ToldBacked'
        BY <1>0, <2>1, <4>1, <4>2, <4>3, StagedShapes DEF ToldBacked
      <4>7. Written(c)'
        BY <2>3, <2>7, <3>1 DEF Written
      <4> QED
        BY <4>4, <4>5, <4>6, <4>7
    <3>2. CASE step = "finalize_prepared"
      <4>1. stLeaf["authority"].state = "PENDING" /\ record = [state |-> "PREPARED", prepared |-> c]
        BY <3>2, <2>1, <2>6 DEF Made, Ready, step, record
      <4>2. stLeaf'["authority"] = record /\ stLeaf'["grant"] = stLeaf["grant"]
            /\ stLeaf'["terminal"] = stLeaf["terminal"]
        BY <3>2, <2>7
      <4>3. stLeaf["grant"] = Missing /\ stLeaf["terminal"] = Missing
        BY <1>0, <4>1, StagedShapes DEF LeavesBound
      <4>4. StagedTypeOK'
        BY <1>0, <2>1, <2>3, <2>8, <4>1, <4>2, <4>3 DEF StagedTypeOK, Authorities
      <4>5. LeavesBound'
        BY <1>0, <4>1, <4>2, <4>3, StagedShapes DEF LeavesBound, Grants, Terminals, Missing
      <4>6. ToldBacked'
        BY <1>0, <2>1, <2>6, <4>1, <4>2, <4>3, StagedShapes, <3>2 DEF ToldBacked
      <4>7. Written(c)'
        BY <2>3, <2>7, <3>2, <4>1, <4>3 DEF Written
      <4> QED
        BY <4>4, <4>5, <4>6, <4>7
    <3>3. CASE step = "consume"
      <4>1. /\ stLeaf["authority"].state = "PREPARED"
            /\ record = [state |-> "CONSUMED", prepared |-> stLeaf["authority"].prepared, consumed |-> c]
        BY <3>3, <2>1, <2>6 DEF Made, Ready, step, record
      <4>2. stLeaf'["authority"] = record /\ stLeaf'["grant"] = stLeaf["grant"]
            /\ stLeaf'["terminal"] = stLeaf["terminal"]
        BY <3>3, <2>7
      <4>3. /\ stLeaf["grant"] = Missing /\ stLeaf["terminal"] = Missing
            /\ stLeaf["authority"].prepared \in Stagers
        BY <1>0, <4>1, StagedShapes DEF LeavesBound
      <4>4. StagedTypeOK'
        BY <1>0, <2>1, <2>3, <2>8, <4>1, <4>2, <4>3 DEF StagedTypeOK, Authorities
      <4>5. LeavesBound'
        BY <1>0, <4>1, <4>2, <4>3, StagedShapes DEF LeavesBound, Grants, Terminals, Missing
      <4>6. ToldBacked'
        BY <1>0, <2>1, <2>6, <4>1, <4>2, <4>3, StagedShapes, <3>3 DEF ToldBacked
      <4>7. Written(c)'
        BY <2>3, <2>7, <3>3, <4>1, <4>3 DEF Written
      <4> QED
        BY <4>4, <4>5, <4>6, <4>7
    <3>4. CASE step = "issue_worker_grant"
      <4>1. /\ stLeaf["grant"] = TornLeaf /\ record \in Grants /\ record.state = "ISSUED"
            /\ record.consumed = stLeaf["authority"] /\ record.capability = c
        BY <3>4, <2>1, <2>6 DEF Made, Ready, step, record
      <4>2. stLeaf'["grant"] = record /\ stLeaf'["authority"] = stLeaf["authority"]
            /\ stLeaf'["terminal"] = stLeaf["terminal"]
        BY <3>4, <2>7
      <4>3. stLeaf["authority"].state = "CONSUMED" /\ stLeaf["terminal"] = Missing
        BY <1>0, <4>1, StagedShapes DEF LeavesBound, Missing, TornLeaf
      <4>4. StagedTypeOK'
        BY <1>0, <2>1, <2>3, <2>8, <4>1, <4>2, <4>3 DEF StagedTypeOK
      <4>5. LeavesBound'
        BY <1>0, <4>1, <4>2, <4>3, StagedShapes DEF LeavesBound, Grants, Terminals, Missing
      <4>6. ToldBacked'
        BY <1>0, <2>1, <2>6, <4>1, <4>2, <4>3, StagedShapes, <3>4 DEF ToldBacked
      <4>7. Written(c)'
        BY <2>3, <2>7, <3>4, <4>1, <4>3 DEF Written
      <4> QED
        BY <4>4, <4>5, <4>6, <4>7
    <3>5. CASE step = "revoke_worker_grant"
      <4>1. stLeaf["grant"].state = "ISSUED" /\ record = [stLeaf["grant"] EXCEPT !.state = "REVOKED"]
        BY <3>5, <2>1, <2>6 DEF Made, Ready, step, record
      <4>2. stLeaf'["grant"] = record /\ stLeaf'["authority"] = stLeaf["authority"]
            /\ stLeaf'["terminal"] = stLeaf["terminal"]
        BY <3>5, <2>7
      <4>3. /\ stLeaf["grant"] \in Grants /\ stLeaf["terminal"] = Missing
            /\ record \in Grants /\ record.state = "REVOKED"
            /\ record.consumed = stLeaf["grant"].consumed /\ record.capability = stLeaf["grant"].capability
            /\ stLeaf["authority"].state = "CONSUMED"
        <5>1. stLeaf["grant"] \in Grants
          BY <1>0, <4>1, StagedShapes
        <5>2. stLeaf["terminal"] = Missing /\ stLeaf["authority"].state = "CONSUMED"
          BY <1>0, <4>1, <5>1, StagedShapes DEF LeavesBound
        <5> QED
          BY <4>1, <5>1, <5>2 DEF Grants
      <4>4. StagedTypeOK'
        BY <1>0, <2>1, <2>3, <2>8, <4>1, <4>2, <4>3 DEF StagedTypeOK
      <4>5. LeavesBound'
        BY <1>0, <4>1, <4>2, <4>3, StagedShapes DEF LeavesBound, Grants, Terminals, Missing
      <4>6. ToldBacked'
        BY <1>0, <2>1, <2>6, <4>1, <4>2, <4>3, StagedShapes, <3>5 DEF ToldBacked
      <4>7. Written(c)'
        BY <2>3, <2>7, <3>5, <4>1, <4>3 DEF Written
      <4> QED
        BY <4>4, <4>5, <4>6, <4>7
    <3>6. CASE step = "finalize_terminal"
      <4>1. /\ stLeaf["terminal"] = TornLeaf /\ record \in Terminals
            /\ record.consumed = stLeaf["authority"] /\ record.revoked = stLeaf["grant"]
        BY <3>6, <2>1, <2>6 DEF Made, Ready, step, record
      <4>2. stLeaf'["terminal"] = record /\ stLeaf'["authority"] = stLeaf["authority"]
            /\ stLeaf'["grant"] = stLeaf["grant"]
        BY <3>6, <2>7
      <4>3. record.state = "TERMINAL" /\ stLeaf["grant"].state = "REVOKED"
        BY <1>0, <4>1, StagedShapes DEF LeavesBound, Missing, TornLeaf, Terminals
      <4>4. StagedTypeOK'
        BY <1>0, <2>1, <2>3, <2>8, <4>1, <4>2, <4>3 DEF StagedTypeOK
      <4>5. LeavesBound'
        BY <1>0, <4>1, <4>2, <4>3, StagedShapes DEF LeavesBound, Grants, Terminals, Missing
      <4>6. ToldBacked'
        BY <1>0, <2>1, <2>6, <4>1, <4>2, <4>3, StagedShapes, <3>6 DEF ToldBacked
      <4>7. Written(c)'
        BY <2>3, <2>7, <3>6, <4>1, <4>3 DEF Written
      <4> QED
        BY <4>4, <4>5, <4>6, <4>7
    <3> QED
      BY <2>9, <3>1, <3>2, <3>3, <3>4, <3>5, <3>6 DEF Steps
  <2>11. CallsSound'
    BY <2>1, <2>3, <2>4, <2>6, <2>10 DEF CallsSound, CallSound
  <2> QED
    BY <2>5, <2>10, <2>11 DEF StagedInv
<1>12. CASE UNCHANGED stagedVars
  BY <1>12, <1>0 DEF stagedVars, StagedInv, StagedTypeOK, StagedExclusion, LeavesBound, CallsSound,
     CallSound, Ready, Made, Written, ToldBacked
<1> QED
  BY <1>1, <1>2, <1>3, <1>4, <1>5, <1>6, <1>7, <1>8, <1>9, <1>10, <1>11, <1>12 DEF StagedNext

\* Nothing is on disk, and nobody is in a step.
LEMMA StagedInvInit == StagedInit => StagedInv
<1> SUFFICES ASSUME StagedInit PROVE StagedInv
  OBVIOUS
<1>1. \A c \in Stagers : stCall[c].at = "idle"
  BY DEF StagedInit, Idle
<1>2. StagedTypeOK
  BY DEF StagedInit, StagedTypeOK, LeafNames, StagedCalls, SettledAt, Idle
<1>3. StagedExclusion /\ CallsSound
  BY <1>1 DEF StagedExclusion, CallsSound, CallSound
<1>4. LeavesBound
  BY DEF StagedInit, LeavesBound, LeafNames, Grants, Terminals, Missing
<1> QED
  BY <1>2, <1>3, <1>4 DEF StagedInv, ToldBacked, StagedInit

\* A step of the pathname lifecycle succeeds for one caller, and what it reported is
\* what the three files still say, for any number of callers and reboots.
THEOREM StepsBackedInvariant == StagedSpec => []StepsBacked
<1>1. StagedInv => StepsBacked
  <2> SUFFICES ASSUME StagedInv PROVE StepsBacked
    OBVIOUS
  <2>1. StagedTypeOK /\ LeavesBound /\ ToldBacked
    BY DEF StagedInv
  <2>2. stLeaf["grant"].state \in {"ISSUED", "REVOKED"} => stLeaf["grant"].consumed = stLeaf["authority"]
    BY <2>1, StagedShapes DEF LeavesBound
  <2>3. stLeaf["terminal"].state = "TERMINAL" => inspect_locked = "TERMINAL"
    <3> SUFFICES ASSUME stLeaf["terminal"].state = "TERMINAL" PROVE inspect_locked = "TERMINAL"
      OBVIOUS
    <3>1. stLeaf["terminal"] # Missing /\ stLeaf["terminal"] \in Terminals
      BY <2>1, StagedShapes
    <3>2. stLeaf["grant"].state = "REVOKED" /\ stLeaf["authority"].state = "CONSUMED"
      BY <2>1, <3>1, StagedShapes DEF LeavesBound
    <3>3. terminal_bound
      BY <2>1, <2>2, <3>1, <3>2 DEF terminal_bound, LeavesBound
    <3> QED
      BY <3>1, <3>2, <3>3 DEF inspect_locked, parse_authority_record, parse_grant, parse_terminal, LeafNames
  <2>4. \A t \in stTold : t[2] \in Steps
    BY <2>1 DEF StagedTypeOK
  <2> QED
    BY <2>1, <2>2, <2>3, <2>4 DEF StepsBacked, ToldBacked, Steps
<1> QED
  BY <1>1, StagedInvInit, StagedInvStep, PTL DEF StagedSpec

------------------------------------------------------------------------------
(* The bootstrap: a published receipt stays true. *)

\* The types of the files, the handles, the mutex and the processes.
BootFiles == {NoFile} \cup [kind : {"bundle", "receipt"}, by : Installers, whole : BOOLEAN]
MutexPcs == {"bundle", "receipt", "partial", "create", "write", "close_partial", "promote", "verify",
             "create_receipt", "write_receipt", "close_all"}
BootPcs == {"idle", "acquire", "publish", "done"} \cup MutexPcs
BootFailures == {"INVALID_INPUT", "ALREADY_EXISTS", "WRITE_FAILED", "DURABILITY_FAILED", "READBACK_FAILED",
                 "CLEANUP_FAILED"}
BootInstallers == [pc : BootPcs, result : BootFailures \cup {"NONE", "INSTALLED"}]
BootReaders == [pc : {"idle", "bundle", "receipt", "decide", "installed", "absent", "poisoned"},
                seen : SUBSET BootLeaves, blind : BOOLEAN]
BootTypeOK ==
  /\ bFile \in [BootLeaves -> BootFiles]
  /\ bOpen \in [BootLeaves -> Installers \cup Readers \cup {"none"}]
  /\ bMutex \in Installers \cup {"free", "abandoned"}
  /\ bInst \in [Installers -> BootInstallers]
  /\ bRead \in [Readers -> BootReaders]

\* The mutex is held from the first look at the names until everything was closed; a
\* file nobody made is nobody's to hold open.
BootExclusion ==
  /\ \A p \in Installers : bInst[p].pc \in MutexPcs => bMutex = p
  /\ \A l \in BootLeaves : bFile[l] = NoFile => bOpen[l] = "none"

\* What an installer knows of the three names at each step.
Progress(p) ==
  LET pc == bInst[p].pc
      bundle == File(p, "bundle", TRUE)
  IN /\ pc \in {"receipt", "partial", "create"} => bFile["bundle"] = NoFile \/ bOpen["bundle"] = p
     /\ pc \in {"write", "close_partial", "promote"} => bFile["bundle"] = NoFile
     /\ pc = "write" => bFile["partial"] = File(p, "bundle", FALSE) /\ bOpen["partial"] = p
     /\ pc = "close_partial" => bFile["partial"] = bundle /\ bOpen["partial"] = p
     /\ pc = "promote" => bFile["partial"] = bundle
     /\ pc \in {"verify", "create_receipt", "write_receipt", "close_all", "publish"} =>
          bFile["bundle"] = bundle /\ bFile["receipt"] = NoFile
     /\ pc = "write_receipt" => bFile["partial"] = File(p, "receipt", FALSE)
     /\ pc \in {"close_all", "publish"} => bFile["partial"] = File(p, "receipt", TRUE)
     /\ pc = "publish" => Owned(p) = {}

\* Once the receipt is in place its installer has ended and owns nothing, and the
\* pair it made is what the names hold.
Published ==
  /\ bFile["bundle"] = NoFile => bFile["receipt"] = NoFile
  /\ bFile["receipt"] # NoFile =>
       LET p == bFile["receipt"].by IN
       /\ bFile["receipt"] = File(p, "receipt", TRUE) /\ bFile["bundle"] = File(p, "bundle", TRUE)
       /\ bFile["partial"] = NoFile
       /\ bInst[p].pc = "done" /\ Owned(p) = {}
  /\ \A p \in Installers : bInst[p].result = "INSTALLED" => bFile["receipt"] = File(p, "receipt", TRUE)

\* A reader holds open what it has seen.
ReadersHold ==
  \A r \in Readers :
    /\ bRead[r].pc \in {"idle", "bundle"} => Opens(r) = {} /\ bRead[r].seen = {}
    /\ bRead[r].pc \in {"receipt", "decide", "installed", "absent"} => Opens(r) = bRead[r].seen
    /\ bRead[r].pc = "receipt" => bRead[r].seen \subseteq {"bundle"}
    /\ bRead[r].pc = "installed" =>
         bRead[r].seen = {"bundle", "receipt"} /\ Matches(bFile["bundle"], bFile["receipt"])

BootInv ==
  /\ BootTypeOK /\ BootExclusion /\ (\A p \in Installers : Progress(p)) /\ Published /\ ReadersHold

\* To own nothing is to hold no file open and not to hold the mutex.
LEMMA OwnsNothing ==
  ASSUME NEW p
  PROVE  Owned(p) = {} <=> bMutex # p /\ \A l \in BootLeaves : bOpen[l] # p
BY DEF Owned, Opens

\* The same in the next state.
LEMMA OwnsNothingNext ==
  ASSUME NEW p
  PROVE  Owned(p)' = {} <=> bMutex' # p /\ \A l \in BootLeaves : bOpen'[l] # p
BY DEF Owned, Opens

\* An installer that gives up, or whose process ends, changes no file and can only lose
\* what it holds: nobody else notices.
LEMMA BootGivesUp ==
  ASSUME BootInv, NEW p \in Installers,
         UNCHANGED <<bFile, bRead>>,
         bOpen' \in [BootLeaves -> Installers \cup Readers \cup {"none"}],
         \A l \in BootLeaves : bOpen'[l] = bOpen[l] \/ (bOpen[l] = p /\ bOpen'[l] = "none"),
         bMutex' \in Installers \cup {"free", "abandoned"},
         \A q \in Installers : q # p => (bMutex' = q <=> bMutex = q),
         bInst[p].pc = "done" => (bMutex' = p => bMutex = p),
         bInst' \in [Installers -> BootInstallers], bInst'[p].pc = "done",
         bInst'[p].result \in BootFailures \cup {bInst[p].result},
         \A q \in Installers : q # p => bInst'[q] = bInst[q]
  PROVE  BootInv'
<1> USE BootAssumption
<1>0. BootTypeOK /\ BootExclusion /\ (\A q \in Installers : Progress(q)) /\ Published /\ ReadersHold
  BY DEF BootInv
<1>1. BootTypeOK'
  BY <1>0 DEF BootTypeOK
<1>2. BootExclusion'
  BY <1>0 DEF BootExclusion, MutexPcs
<1>3. ASSUME NEW q \in Installers PROVE Progress(q)'
  <2>1. CASE q = p
    BY <2>1 DEF Progress
  <2>2. CASE q # p
    <3>1. bInst[q].pc = "publish" => Owned(q)' = {}
      <4> SUFFICES ASSUME bInst[q].pc = "publish" PROVE Owned(q)' = {}
        OBVIOUS
      <4>1. Owned(q) = {}
        BY <1>0 DEF Progress
      <4>2. bMutex # q /\ \A l \in BootLeaves : bOpen[l] # q
        BY <4>1, OwnsNothing
      <4>3. bMutex' # q /\ \A l \in BootLeaves : bOpen'[l] # q
        BY <2>2, <4>2
      <4> QED
        BY <4>3, OwnsNothingNext
    <3>2. \A l \in BootLeaves : bOpen[l] = q => bOpen'[l] = q
      BY <2>2
    <3>3. Progress(q) /\ bInst'[q] = bInst[q] /\ bFile' = bFile
      BY <1>0, <2>2
    <3>4. (bOpen["bundle"] = q => bOpen'["bundle"] = q) /\ (bOpen["partial"] = q => bOpen'["partial"] = q)
      BY <3>2 DEF BootLeaves
    <3> QED
      BY <3>1, <3>3, <3>4 DEF Progress
  <2> QED
    BY <2>1, <2>2
<1>4. Published'
  <2>1. ASSUME bFile["receipt"] # NoFile
        PROVE  bInst'[bFile["receipt"].by].pc = "done" /\ Owned(bFile["receipt"].by)' = {}
    <3> DEFINE by == bFile["receipt"].by
    <3>1. by \in Installers /\ bInst[by].pc = "done" /\ Owned(by) = {}
      BY <1>0, <2>1 DEF Published, BootTypeOK, BootFiles, BootLeaves
    <3> HIDE DEF by
    <3>2. bMutex # by /\ \A l \in BootLeaves : bOpen[l] # by
      BY <3>1, OwnsNothing
    <3>3. bMutex' # by /\ \A l \in BootLeaves : bOpen'[l] # by
      BY <3>1, <3>2
    <3> QED
      BY <3>1, <3>3, OwnsNothingNext DEF by
  <2>2. \A q \in Installers : bInst'[q].result = "INSTALLED" => bInst[q].result = "INSTALLED"
    BY DEF BootFailures
  <2> QED
    BY <1>0, <2>1, <2>2 DEF Published
<1>5. ReadersHold'
  <2>1. \A r \in Readers : Opens(r)' = Opens(r)
    BY DEF Opens
  <2> QED
    BY <1>0, <2>1 DEF ReadersHold
<1> QED
  BY <1>1, <1>2, <1>3, <1>4, <1>5 DEF BootInv

\* The step of the installer that holds the mutex: if it keeps what it knows itself,
\* it disturbs neither the readers nor an installer that is about to publish.
LEMMA BootProceeds ==
  ASSUME BootInv, NEW p \in Installers, bInst[p].pc \in MutexPcs,
         bRead' = bRead,
         bFile' \in [BootLeaves -> BootFiles],
         bOpen' \in [BootLeaves -> Installers \cup Readers \cup {"none"}],
         \A l \in BootLeaves : \/ bOpen'[l] = bOpen[l]
                               \/ bOpen[l] \in {p, "none"} /\ bOpen'[l] \in {p, "none"},
         \A l \in BootLeaves : bFile'[l] = NoFile => bOpen'[l] = "none",
         bInst' \in [Installers -> BootInstallers],
         bInst'[p].result = bInst[p].result,
         \A q \in Installers : q # p => bInst'[q] = bInst[q],
         \/ bInst'[p].pc \in MutexPcs /\ bMutex' = p
         \/ bInst'[p].pc = "publish" /\ bMutex' = "free",
         Progress(p)',
         bFile'["receipt"] = bFile["receipt"],
         bFile' = bFile \/ bFile["bundle"] \in {NoFile, File(p, "bundle", TRUE)},
         bFile' = bFile \/ bFile["receipt"] = NoFile
  PROVE  BootInv'
<1> USE BootAssumption
<1>0. BootTypeOK /\ BootExclusion /\ (\A q \in Installers : Progress(q)) /\ Published /\ ReadersHold
  BY DEF BootInv
<1>a. bMutex = p
  BY <1>0 DEF BootExclusion
<1>1. BootTypeOK'
  BY <1>0 DEF BootTypeOK
<1>2. \A q \in Installers : q # p => bInst[q].pc \notin MutexPcs
  BY <1>0, <1>a DEF BootExclusion
<1>3. BootExclusion'
  BY <1>2 DEF BootExclusion, MutexPcs
<1>4. ASSUME NEW q \in Installers, q # p PROVE Progress(q)'
  <2>1. CASE bInst[q].pc # "publish"
    BY <1>2, <1>4, <2>1 DEF Progress, MutexPcs
  <2>2. CASE bInst[q].pc = "publish"
    <3>1. bFile["bundle"] = File(q, "bundle", TRUE) /\ Owned(q) = {}
      BY <1>0, <2>2 DEF Progress
    <3>2. File(q, "bundle", TRUE) # NoFile /\ File(q, "bundle", TRUE) # File(p, "bundle", TRUE)
      BY <1>4 DEF File, NoFile
    <3>3. bFile' = bFile
      BY <3>1, <3>2
    <3>4. bMutex # q /\ \A l \in BootLeaves : bOpen[l] # q
      BY <3>1, OwnsNothing
    <3>5. bMutex' # q /\ \A l \in BootLeaves : bOpen'[l] # q
      BY <1>4, <3>4
    <3>6. Owned(q)' = {}
      BY <3>5, OwnsNothingNext
    <3> QED
      BY <1>0, <1>4, <2>2, <3>3, <3>6 DEF Progress
  <2> QED
    BY <2>1, <2>2
<1>5. Published'
  <2>1. CASE bFile["receipt"] = NoFile
    BY <1>0, <2>1 DEF Published, File, NoFile
  <2>2. CASE bFile["receipt"] # NoFile
    <3>1. PICK by \in Installers :
            by = bFile["receipt"].by /\ bInst[by].pc = "done" /\ Owned(by) = {}
      BY <1>0, <2>2 DEF Published, BootTypeOK, BootFiles, BootLeaves
    <3>2. by # p
      BY <3>1 DEF MutexPcs
    <3>3. bMutex # by /\ \A l \in BootLeaves : bOpen[l] # by
      BY <3>1, OwnsNothing
    <3>4. bMutex' # by /\ \A l \in BootLeaves : bOpen'[l] # by
      BY <3>1, <3>2, <3>3
    <3>5. Owned(by)' = {}
      BY <3>4, OwnsNothingNext
    <3>6. bFile' = bFile /\ bInst'[by] = bInst[by]
      BY <2>2, <3>1, <3>2
    <3> QED
      BY <1>0, <3>1, <3>5, <3>6 DEF Published
  <2> QED
    BY <2>1, <2>2
<1>6. ReadersHold'
  <2>1. \A r \in Readers : Opens(r)' = Opens(r)
    BY DEF Opens
  <2>2. ASSUME NEW r \in Readers, bRead[r].pc = "installed"
        PROVE  Matches(bFile'["bundle"], bFile'["receipt"])
    <3>1. Matches(bFile["bundle"], bFile["receipt"])
      BY <1>0, <2>2 DEF ReadersHold
    <3>2. bFile["receipt"] # NoFile
      BY <3>1 DEF Matches, NoFile
    <3> QED
      BY <3>1, <3>2
  <2> QED
    BY <1>0, <2>1, <2>2 DEF ReadersHold
<1> QED
  BY <1>1, <1>3, <1>4, <1>5, <1>6 DEF BootInv

\* A reader's step: it opens what nobody holds or closes its own, and disturbs nobody.
LEMMA BootReads ==
  ASSUME BootInv, NEW r \in Readers, UNCHANGED <<bFile, bMutex, bInst>>,
         bOpen' \in [BootLeaves -> Installers \cup Readers \cup {"none"}],
         \A l \in BootLeaves : \/ bOpen'[l] = bOpen[l]
                               \/ bOpen[l] \in {r, "none"} /\ bOpen'[l] \in {r, "none"},
         \A l \in BootLeaves : bFile[l] = NoFile => bOpen'[l] = "none",
         bRead' \in [Readers -> BootReaders],
         \A x \in Readers : x # r => bRead'[x] = bRead[x],
         bRead'[r].pc \in {"idle", "bundle"} => Opens(r)' = {} /\ bRead'[r].seen = {},
         bRead'[r].pc \in {"receipt", "decide", "installed", "absent"} => Opens(r)' = bRead'[r].seen,
         bRead'[r].pc = "receipt" => bRead'[r].seen \subseteq {"bundle"},
         bRead'[r].pc = "installed" =>
           bRead'[r].seen = {"bundle", "receipt"} /\ Matches(bFile["bundle"], bFile["receipt"])
  PROVE  BootInv'
<1> USE BootAssumption
<1>0. BootTypeOK /\ BootExclusion /\ (\A q \in Installers : Progress(q)) /\ Published /\ ReadersHold
  BY DEF BootInv
<1>1. BootTypeOK'
  BY <1>0 DEF BootTypeOK
<1>2. BootExclusion'
  BY <1>0 DEF BootExclusion
<1>3. \A q \in Installers : Owned(q)' = Owned(q)
  BY DEF Owned, Opens
<1>4. ASSUME NEW q \in Installers PROVE Progress(q)'
  <2>1. Progress(q) /\ Owned(q)' = Owned(q)
    BY <1>0, <1>3
  <2>2. \A l \in BootLeaves : bOpen[l] = q => bOpen'[l] = q
    OBVIOUS
  <2> QED
    BY <2>1, <2>2 DEF Progress, BootLeaves
<1>5. Published'
  <2>1. bFile["receipt"] # NoFile => bFile["receipt"].by \in Installers
    BY <1>0 DEF BootTypeOK, BootFiles, BootLeaves
  <2> QED
    BY <1>0, <1>3, <2>1 DEF Published
<1>6. ReadersHold'
  <2>1. \A x \in Readers : x # r => Opens(x)' = Opens(x)
    BY DEF Opens
  <2> QED
    BY <1>0, <2>1 DEF ReadersHold
<1> QED
  BY <1>1, <1>2, <1>4, <1>5, <1>6 DEF BootInv

\* Writing the rest of a file makes it whole.
LEMMA FileWhole ==
  ASSUME NEW p \in Installers, NEW kind \in {"bundle", "receipt"}
  PROVE  [File(p, kind, FALSE) EXCEPT !.whole = TRUE] = File(p, kind, TRUE)
<1> DEFINE R == [kind : {"bundle", "receipt"}, by : Installers, whole : BOOLEAN]
           f == File(p, kind, FALSE)
           g == [f EXCEPT !.whole = TRUE]
           h == File(p, kind, TRUE)
<1>1. /\ f \in R /\ f.kind = kind /\ f.by = p
      /\ h \in R /\ h.kind = kind /\ h.by = p /\ h.whole = TRUE
  BY DEF File
<1> HIDE DEF f, h
<1>2. g \in R /\ g.kind = kind /\ g.by = p /\ g.whole = TRUE
  BY <1>1
<1>3. g = h
  <2> HIDE DEF g
  <2> QED
    BY <1>1, <1>2
<1> QED
  BY <1>3 DEF f, g, h

\* A step that only moves the installer's program counter.
LEMMA BootStepType ==
  ASSUME BootTypeOK, NEW p \in Installers, NEW pc \in BootPcs, boot_step(p, pc)
  PROVE  /\ bInst' \in [Installers -> BootInstallers]
         /\ bInst'[p].pc = pc /\ bInst'[p].result = bInst[p].result
         /\ \A q \in Installers : q # p => bInst'[q] = bInst[q]
BY DEF BootTypeOK, BootInstallers, boot_step

\* _failure, from any step under the mutex.
LEMMA BootFailed ==
  ASSUME BootInv, NEW p \in Installers, NEW primary \in BootFailures, bInst[p].pc # "done",
         boot_failure(p, primary), UNCHANGED <<bFile, bRead>>
  PROVE  BootInv'
<1>1. PICK kept \in SUBSET Owned(p) :
        give_back(p, kept) /\ boot_returns(p, IF kept = {} THEN primary ELSE "CLEANUP_FAILED")
  BY DEF boot_failure
<1>2. BootTypeOK
  BY DEF BootInv
<1>3. PICK result \in BootFailures : bInst' = [bInst EXCEPT ![p] = [pc |-> "done", result |-> result]]
  BY <1>1 DEF boot_returns, BootFailures
<1>4. /\ bInst' \in [Installers -> BootInstallers]
      /\ bInst'[p].pc = "done" /\ bInst'[p].result = result
      /\ \A q \in Installers : q # p => bInst'[q] = bInst[q]
  BY <1>2, <1>3 DEF BootTypeOK, BootInstallers, BootPcs
<1>5. /\ bOpen' \in [BootLeaves -> Installers \cup Readers \cup {"none"}]
      /\ \A l \in BootLeaves : bOpen'[l] = bOpen[l] \/ (bOpen[l] = p /\ bOpen'[l] = "none")
  BY <1>1, <1>2 DEF give_back, Freed, BootTypeOK
<1>6. bMutex' = bMutex \/ (bMutex = p /\ bMutex' = "free")
  BY <1>1 DEF give_back
<1>7. /\ bMutex' \in Installers \cup {"free", "abandoned"}
      /\ \A q \in Installers : q # p => (bMutex' = q <=> bMutex = q)
  BY <1>2, <1>6, BootAssumption DEF BootTypeOK
<1> QED
  BY <1>4, <1>5, <1>7, BootGivesUp

\* Every step of an installer keeps the invariant.
LEMMA BootInstallerStep ==
  ASSUME BootInv, NEW p \in Installers, InstallerStep(p)
  PROVE  BootInv'
<1> USE BootAssumption
<1>0. BootTypeOK /\ BootExclusion /\ (\A q \in Installers : Progress(q)) /\ Published /\ ReadersHold
  BY DEF BootInv
<1>b. /\ bFile \in [BootLeaves -> BootFiles]
      /\ bOpen \in [BootLeaves -> Installers \cup Readers \cup {"none"}]
      /\ \A l \in BootLeaves : bFile[l] = NoFile => bOpen[l] = "none"
  BY <1>0 DEF BootTypeOK, BootExclusion
<1>c. \A k \in {"bundle", "receipt"}, w \in BOOLEAN : File(p, k, w) \in BootFiles /\ File(p, k, w) # NoFile
  BY DEF File, NoFile, BootFiles
<1>d. /\ Progress(p) /\ bInst[p].pc \in BootPcs
      /\ bInst[p].pc \in MutexPcs => bMutex = p
  BY <1>0 DEF BootTypeOK, BootInstallers, BootExclusion
<1>e. bFile["bundle"] = NoFile => bFile["receipt"] = NoFile
  BY <1>0 DEF Published
<1>1. CASE install(p)
  <2>1. CASE boot_step(p, "acquire")
    <3>1. /\ bInst' \in [Installers -> BootInstallers]
          /\ bInst'[p].pc = "acquire" /\ bInst'[p].result = bInst[p].result
          /\ \A q \in Installers : q # p => bInst'[q] = bInst[q]
      BY <1>0, <2>1, BootStepType DEF BootPcs
    <3>2. UNCHANGED <<bFile, bOpen, bMutex, bRead>> /\ bInst[p].pc = "idle"
      BY <1>1 DEF install, boot_at
    <3>3. \A q \in Installers : Owned(q)' = Owned(q)
      BY <3>2 DEF Owned, Opens
    <3>4. ASSUME NEW q \in Installers PROVE Progress(q)'
      <4>1. CASE q = p
        BY <3>1, <4>1 DEF Progress
      <4>2. CASE q # p
        <5>1. bInst'[q] = bInst[q] /\ Owned(q)' = Owned(q) /\ Progress(q)
          BY <1>0, <3>1, <3>3, <4>2
        <5> QED
          BY <3>2, <5>1 DEF Progress
      <4> QED
        BY <4>1, <4>2
    <3>5. Published'
      <4>1. bFile["receipt"] # NoFile => bFile["receipt"].by \in Installers /\ bInst[bFile["receipt"].by].pc = "done"
        BY <1>0 DEF BootTypeOK, BootFiles, BootLeaves, Published
      <4>2. Owned(bFile["receipt"].by)' = Owned(bFile["receipt"].by)
        BY <3>2 DEF Owned, Opens
      <4> QED
        BY <1>0, <3>1, <3>2, <4>1, <4>2 DEF Published
    <3>6. BootTypeOK' /\ BootExclusion' /\ ReadersHold'
      BY <1>0, <3>1, <3>2 DEF BootTypeOK, BootExclusion, ReadersHold, MutexPcs, Opens
    <3> QED
      BY <3>4, <3>5, <3>6 DEF BootInv
  <2>2. CASE boot_returns(p, "INVALID_INPUT")
    <3>1. /\ bInst' \in [Installers -> BootInstallers]
          /\ bInst'[p].pc = "done" /\ bInst'[p].result = "INVALID_INPUT"
          /\ \A q \in Installers : q # p => bInst'[q] = bInst[q]
      BY <1>0, <2>2 DEF boot_returns, BootTypeOK, BootInstallers, BootFailures, BootPcs
    <3>2. UNCHANGED <<bFile, bOpen, bMutex, bRead>>
      BY <1>1 DEF install
    <3> QED
      BY <1>0, <3>1, <3>2, BootGivesUp DEF BootTypeOK, BootFailures
  <2> QED
    BY <1>1, <2>1, <2>2 DEF install
<1>2. CASE boot_acquire(p)
  <2>1. CASE bMutex = "free" /\ bMutex' = p /\ boot_step(p, "bundle")
    <3>1. /\ bInst' \in [Installers -> BootInstallers]
          /\ bInst'[p].pc = "bundle" /\ bInst'[p].result = bInst[p].result
          /\ \A q \in Installers : q # p => bInst'[q] = bInst[q]
      BY <1>0, <2>1, BootStepType DEF BootPcs, MutexPcs
    <3>2. UNCHANGED <<bFile, bOpen, bRead>> /\ bInst[p].pc = "acquire"
      BY <1>2 DEF boot_acquire, boot_at
    <3>3. \A q \in Installers : q # p => Owned(q)' = Owned(q)
      BY <2>1, <3>2 DEF Owned, Opens
    <3>4. ASSUME NEW q \in Installers PROVE Progress(q)'
      <4>1. CASE q = p
        BY <3>1, <4>1 DEF Progress
      <4>2. CASE q # p
        <5>1. bInst'[q] = bInst[q] /\ Owned(q)' = Owned(q) /\ Progress(q)
          BY <1>0, <3>1, <3>3, <4>2
        <5> QED
          BY <3>2, <5>1 DEF Progress
      <4> QED
        BY <4>1, <4>2
    <3>5. Published'
      <4>1. bFile["receipt"] # NoFile =>
              /\ bFile["receipt"].by \in Installers /\ bFile["receipt"].by # p
              /\ bInst[bFile["receipt"].by].pc = "done"
        BY <1>0, <3>2 DEF BootTypeOK, BootFiles, BootLeaves, Published
      <4>2. bFile["receipt"] # NoFile => Owned(bFile["receipt"].by)' = Owned(bFile["receipt"].by)
        BY <2>1, <3>2, <4>1 DEF Owned, Opens
      <4> QED
        BY <1>0, <3>1, <3>2, <4>1, <4>2 DEF Published
    <3>6. BootTypeOK' /\ BootExclusion' /\ ReadersHold'
      BY <1>0, <2>1, <3>1, <3>2 DEF BootTypeOK, BootExclusion, ReadersHold, MutexPcs, Opens
    <3> QED
      BY <3>4, <3>5, <3>6 DEF BootInv
  <2>2. CASE /\ \E res \in BootFailures : boot_returns(p, res)
             /\ bMutex' = bMutex \/ (bMutex \in {"free", "abandoned"} /\ bMutex' \in {p, "free"})
    <3>1. PICK res \in BootFailures : boot_returns(p, res)
      BY <2>2
    <3>2. /\ bInst' \in [Installers -> BootInstallers]
          /\ bInst'[p].pc = "done" /\ bInst'[p].result = res
          /\ \A q \in Installers : q # p => bInst'[q] = bInst[q]
      BY <1>0, <3>1 DEF boot_returns, BootTypeOK, BootInstallers, BootPcs
    <3>3. UNCHANGED <<bFile, bOpen, bRead>> /\ bInst[p].pc = "acquire"
      BY <1>2 DEF boot_acquire, boot_at
    <3>4. /\ bMutex' \in Installers \cup {"free", "abandoned"}
          /\ \A q \in Installers : q # p => (bMutex' = q <=> bMutex = q)
      BY <1>0, <2>2 DEF BootTypeOK
    <3> QED
      BY <1>b, <3>2, <3>3, <3>4, BootGivesUp
  <2> QED
    BY <1>2, <2>1, <2>2 DEF boot_acquire, BootFailures
<1>3. CASE preflight_absence(p)
  <2>1. PICK l \in BootLeaves :
          /\ bInst[p].pc = l /\ boot_step(p, NextName[l])
          /\ bOpen' = IF bFile[l] # NoFile /\ bOpen[l] = "none" THEN [bOpen EXCEPT ![l] = p] ELSE bOpen
          /\ bFile[l] = NoFile \/ bOpen[l] = "none"
          /\ UNCHANGED <<bFile, bMutex, bRead>>
    BY <1>3 DEF preflight_absence, boot_at
  <2>2. NextName[l] \in {"receipt", "partial", "create"} /\ bInst[p].pc \in MutexPcs
        /\ NextName[l] \in BootPcs /\ NextName[l] \in MutexPcs
    BY <2>1 DEF NextName, BootLeaves, MutexPcs, BootPcs
  <2>3. /\ bInst' \in [Installers -> BootInstallers]
        /\ bInst'[p].pc = NextName[l] /\ bInst'[p].result = bInst[p].result
        /\ \A q \in Installers : q # p => bInst'[q] = bInst[q]
    BY <1>0, <2>1, <2>2, BootStepType
  <2>4. /\ bOpen' \in [BootLeaves -> Installers \cup Readers \cup {"none"}]
        /\ \A m \in BootLeaves : \/ bOpen'[m] = bOpen[m]
                                 \/ bOpen[m] \in {p, "none"} /\ bOpen'[m] \in {p, "none"}
        /\ \A m \in BootLeaves : bFile'[m] = NoFile => bOpen'[m] = "none"
        /\ bOpen["bundle"] = p => bOpen'["bundle"] = p
        /\ l = "bundle" /\ bFile["bundle"] # NoFile => bOpen'["bundle"] = p
    BY <1>b, <2>1 DEF BootLeaves
  <2>5. Progress(p)'
    BY <1>d, <2>1, <2>2, <2>3, <2>4 DEF Progress, BootLeaves
  <2> QED
    BY <1>b, <1>d, <2>1, <2>2, <2>3, <2>4, <2>5, BootProceeds
<1>4. CASE preflight_ambiguous(p)
  BY <1>4, BootFailed DEF preflight_ambiguous, BootFailures, BootLeaves
<1>5. CASE create_partial(p)
  <2>1. bInst[p].pc = "create" /\ bInst[p].pc \in MutexPcs /\ bRead' = bRead /\ bInst[p].pc # "done"
    BY <1>5 DEF create_partial, boot_at, MutexPcs
  <2>2. CASE boot_failure(p, "ALREADY_EXISTS") /\ UNCHANGED bFile
    BY <2>1, <2>2, BootFailed DEF BootFailures
  <2>3. CASE /\ Opens(p) = {} /\ bFile["partial"] = NoFile
             /\ bFile' = [bFile EXCEPT !["partial"] = File(p, "bundle", FALSE)]
             /\ bOpen' = [bOpen EXCEPT !["partial"] = p]
             /\ boot_step(p, "write") /\ UNCHANGED bMutex
    <3>1. /\ bInst' \in [Installers -> BootInstallers]
          /\ bInst'[p].pc = "write" /\ bInst'[p].result = bInst[p].result
          /\ \A q \in Installers : q # p => bInst'[q] = bInst[q]
      BY <1>0, <2>3, BootStepType DEF BootPcs, MutexPcs
    <3>2. bOpen["bundle"] # p
      BY <2>3 DEF Opens, BootLeaves
    <3>3. bFile["bundle"] = NoFile /\ bFile["receipt"] = NoFile /\ bOpen["partial"] = "none"
      BY <1>b, <1>d, <1>e, <2>1, <2>3, <3>2 DEF Progress, BootLeaves
    <3>4. /\ bFile' \in [BootLeaves -> BootFiles] /\ bFile'["partial"] = File(p, "bundle", FALSE)
          /\ bFile'["bundle"] = NoFile /\ bFile'["receipt"] = NoFile
          /\ bOpen' \in [BootLeaves -> Installers \cup Readers \cup {"none"}] /\ bOpen'["partial"] = p
          /\ \A m \in BootLeaves : m # "partial" => bOpen'[m] = bOpen[m] /\ bFile'[m] = bFile[m]
      BY <1>b, <1>c, <2>3, <3>3 DEF BootLeaves
    <3>5. Progress(p)'
      BY <3>1, <3>4 DEF Progress
    <3>6. /\ \A m \in BootLeaves : \/ bOpen'[m] = bOpen[m]
                                   \/ bOpen[m] \in {p, "none"} /\ bOpen'[m] \in {p, "none"}
          /\ \A m \in BootLeaves : bFile'[m] = NoFile => bOpen'[m] = "none"
      BY <1>b, <1>c, <3>3, <3>4
    <3> QED
      BY <1>d, <2>1, <2>3, <3>1, <3>3, <3>4, <3>5, <3>6, BootProceeds DEF MutexPcs
  <2> QED
    BY <1>5, <2>2, <2>3 DEF create_partial, create_new
<1>6. CASE write_exact(p, "write", "close_partial")
  <2>1. bInst[p].pc = "write" /\ bInst[p].pc \in MutexPcs /\ bRead' = bRead /\ bInst[p].pc # "done"
    BY <1>6 DEF write_exact, boot_at, MutexPcs
  <2>2. CASE \E primary \in BootFailures : boot_failure(p, primary) /\ UNCHANGED bFile
    BY <2>1, <2>2, BootFailed
  <2>3. CASE /\ bFile' = [bFile EXCEPT !["partial"].whole = TRUE]
             /\ boot_step(p, "close_partial") /\ UNCHANGED <<bOpen, bMutex>>
    <3>1. /\ bInst' \in [Installers -> BootInstallers]
          /\ bInst'[p].pc = "close_partial" /\ bInst'[p].result = bInst[p].result
          /\ \A q \in Installers : q # p => bInst'[q] = bInst[q]
      BY <1>0, <2>3, BootStepType DEF BootPcs, MutexPcs
    <3>2. bFile["bundle"] = NoFile /\ bFile["receipt"] = NoFile
          /\ bFile["partial"] = File(p, "bundle", FALSE) /\ bOpen["partial"] = p
      BY <1>d, <1>e, <2>1 DEF Progress
    <3>3. [bFile["partial"] EXCEPT !.whole = TRUE] = File(p, "bundle", TRUE)
      BY <3>2, FileWhole
    <3>4. bFile' = [bFile EXCEPT !["partial"] = File(p, "bundle", TRUE)]
      BY <2>3, <3>3
    <3>5. /\ bFile' \in [BootLeaves -> BootFiles] /\ bFile'["partial"] = File(p, "bundle", TRUE)
          /\ \A m \in BootLeaves : m # "partial" => bFile'[m] = bFile[m]
      BY <1>b, <1>c, <3>4 DEF BootLeaves
    <3>6. Progress(p)'
      BY <2>3, <3>1, <3>2, <3>5 DEF Progress, BootLeaves
    <3>7. \A m \in BootLeaves : bFile'[m] = NoFile => bOpen'[m] = "none"
      BY <1>b, <1>c, <2>3, <3>5
    <3> QED
      BY <1>b, <1>d, <2>1, <2>3, <3>1, <3>2, <3>5, <3>6, <3>7, BootProceeds DEF MutexPcs, BootLeaves
  <2> QED
    BY <1>6, <2>2, <2>3 DEF write_exact, BootFailures
<1>7. CASE close_owned(p)
  <2>1. bInst[p].pc = "close_partial" /\ bInst[p].pc \in MutexPcs /\ bInst[p].pc # "done"
        /\ UNCHANGED <<bFile, bRead>>
    BY <1>7 DEF close_owned, boot_at, MutexPcs
  <2>2. CASE boot_failure(p, "CLEANUP_FAILED")
    BY <2>1, <2>2, BootFailed DEF BootFailures
  <2>3. CASE bOpen' = [bOpen EXCEPT !["partial"] = "none"] /\ boot_step(p, "promote") /\ UNCHANGED bMutex
    <3>1. /\ bInst' \in [Installers -> BootInstallers]
          /\ bInst'[p].pc = "promote" /\ bInst'[p].result = bInst[p].result
          /\ \A q \in Installers : q # p => bInst'[q] = bInst[q]
      BY <1>0, <2>3, BootStepType DEF BootPcs, MutexPcs
    <3>2. bOpen["partial"] = p
      BY <1>d, <2>1 DEF Progress
    <3>3. /\ bOpen' \in [BootLeaves -> Installers \cup Readers \cup {"none"}]
          /\ \A m \in BootLeaves : \/ bOpen'[m] = bOpen[m]
                                   \/ bOpen[m] \in {p, "none"} /\ bOpen'[m] \in {p, "none"}
          /\ \A m \in BootLeaves : bFile'[m] = NoFile => bOpen'[m] = "none"
      BY <1>b, <2>1, <2>3, <3>2 DEF BootLeaves
    <3>4. Progress(p)'
      BY <1>d, <2>1, <3>1 DEF Progress
    <3> QED
      BY <1>b, <1>d, <2>1, <2>3, <3>1, <3>3, <3>4, BootProceeds DEF MutexPcs
  <2> QED
    BY <1>7, <2>2, <2>3 DEF close_owned
<1>8. CASE promote_bundle(p)
  <2>1. bInst[p].pc = "promote" /\ bInst[p].pc \in MutexPcs /\ bRead' = bRead /\ bInst[p].pc # "done"
    BY <1>8 DEF promote_bundle, boot_at, MutexPcs
  <2>2. CASE boot_failure(p, "WRITE_FAILED") /\ UNCHANGED bFile
    BY <2>1, <2>2, BootFailed DEF BootFailures
  <2>3. CASE Movable("bundle") /\ move_fixed("bundle") /\ boot_step(p, "verify") /\ UNCHANGED <<bOpen, bMutex>>
    <3>1. /\ bInst' \in [Installers -> BootInstallers]
          /\ bInst'[p].pc = "verify" /\ bInst'[p].result = bInst[p].result
          /\ \A q \in Installers : q # p => bInst'[q] = bInst[q]
      BY <1>0, <2>3, BootStepType DEF BootPcs, MutexPcs
    <3>2. /\ bFile["bundle"] = NoFile /\ bFile["receipt"] = NoFile
          /\ bFile["partial"] = File(p, "bundle", TRUE) /\ bOpen["partial"] = "none"
      BY <1>d, <1>e, <2>1, <2>3 DEF Progress, Movable
    <3>3. /\ bFile' \in [BootLeaves -> BootFiles] /\ bFile'["bundle"] = File(p, "bundle", TRUE)
          /\ bFile'["partial"] = NoFile /\ bFile'["receipt"] = NoFile
      BY <1>b, <1>c, <2>3, <3>2 DEF move_fixed, BootLeaves, BootFiles
    <3>4. Progress(p)'
      BY <3>1, <3>3 DEF Progress
    <3>5. \A m \in BootLeaves : bFile'[m] = NoFile => bOpen'[m] = "none"
      BY <1>b, <1>c, <2>3, <3>2, <3>3 DEF BootLeaves
    <3> QED
      BY <1>b, <1>d, <2>1, <2>3, <3>1, <3>2, <3>3, <3>4, <3>5, BootProceeds DEF MutexPcs
  <2> QED
    BY <1>8, <2>2, <2>3 DEF promote_bundle
<1>9. CASE verify_final_bundle(p)
  <2>1. bInst[p].pc = "verify" /\ bInst[p].pc \in MutexPcs /\ bInst[p].pc # "done" /\ UNCHANGED <<bFile, bRead>>
    BY <1>9 DEF verify_final_bundle, boot_at, MutexPcs
  <2>2. CASE \E primary \in BootFailures : boot_failure(p, primary)
    BY <2>1, <2>2, BootFailed
  <2>3. CASE /\ bOpen["bundle"] = "none" /\ bFile["bundle"] = File(p, "bundle", TRUE)
             /\ bOpen' = [bOpen EXCEPT !["bundle"] = p]
             /\ boot_step(p, "create_receipt") /\ UNCHANGED bMutex
    <3>1. /\ bInst' \in [Installers -> BootInstallers]
          /\ bInst'[p].pc = "create_receipt" /\ bInst'[p].result = bInst[p].result
          /\ \A q \in Installers : q # p => bInst'[q] = bInst[q]
      BY <1>0, <2>3, BootStepType DEF BootPcs, MutexPcs
    <3>2. /\ bOpen' \in [BootLeaves -> Installers \cup Readers \cup {"none"}]
          /\ \A m \in BootLeaves : \/ bOpen'[m] = bOpen[m]
                                   \/ bOpen[m] \in {p, "none"} /\ bOpen'[m] \in {p, "none"}
          /\ \A m \in BootLeaves : bFile'[m] = NoFile => bOpen'[m] = "none"
      BY <1>b, <1>c, <2>1, <2>3 DEF BootLeaves
    <3>3. Progress(p)'
      BY <1>d, <2>1, <3>1 DEF Progress
    <3> QED
      BY <1>b, <1>d, <2>1, <2>3, <3>1, <3>2, <3>3, BootProceeds DEF MutexPcs
  <2> QED
    BY <1>9, <2>2, <2>3 DEF verify_final_bundle, BootFailures
<1>10. CASE create_receipt(p)
  <2>1. bInst[p].pc = "create_receipt" /\ bInst[p].pc \in MutexPcs /\ bRead' = bRead /\ bInst[p].pc # "done"
    BY <1>10 DEF create_receipt, boot_at, MutexPcs
  <2>2. CASE \E primary \in BootFailures : boot_failure(p, primary) /\ UNCHANGED bFile
    BY <2>1, <2>2, BootFailed
  <2>3. CASE /\ bFile["partial"] = NoFile
             /\ bFile' = [bFile EXCEPT !["partial"] = File(p, "receipt", FALSE)]
             /\ bOpen' = [bOpen EXCEPT !["partial"] = p]
             /\ boot_step(p, "write_receipt") /\ UNCHANGED bMutex
    <3>1. /\ bInst' \in [Installers -> BootInstallers]
          /\ bInst'[p].pc = "write_receipt" /\ bInst'[p].result = bInst[p].result
          /\ \A q \in Installers : q # p => bInst'[q] = bInst[q]
      BY <1>0, <2>3, BootStepType DEF BootPcs, MutexPcs
    <3>2. bFile["bundle"] = File(p, "bundle", TRUE) /\ bFile["receipt"] = NoFile /\ bOpen["partial"] = "none"
      BY <1>b, <1>d, <2>1, <2>3 DEF Progress, BootLeaves
    <3>3. /\ bFile' \in [BootLeaves -> BootFiles] /\ bFile'["partial"] = File(p, "receipt", FALSE)
          /\ bFile'["bundle"] = File(p, "bundle", TRUE) /\ bFile'["receipt"] = NoFile
          /\ bOpen' \in [BootLeaves -> Installers \cup Readers \cup {"none"}] /\ bOpen'["partial"] = p
          /\ \A m \in BootLeaves : m # "partial" => bOpen'[m] = bOpen[m] /\ bFile'[m] = bFile[m]
      BY <1>b, <1>c, <2>3, <3>2 DEF BootLeaves
    <3>4. Progress(p)'
      BY <3>1, <3>3 DEF Progress
    <3>5. /\ \A m \in BootLeaves : \/ bOpen'[m] = bOpen[m]
                                   \/ bOpen[m] \in {p, "none"} /\ bOpen'[m] \in {p, "none"}
          /\ \A m \in BootLeaves : bFile'[m] = NoFile => bOpen'[m] = "none"
      BY <1>b, <1>c, <3>2, <3>3
    <3> QED
      BY <1>d, <2>1, <2>3, <3>1, <3>2, <3>3, <3>4, <3>5, BootProceeds DEF MutexPcs
  <2> QED
    BY <1>10, <2>2, <2>3 DEF create_receipt, create_new, BootFailures
<1>11. CASE write_exact(p, "write_receipt", "close_all")
  <2>1. bInst[p].pc = "write_receipt" /\ bInst[p].pc \in MutexPcs /\ bRead' = bRead /\ bInst[p].pc # "done"
    BY <1>11 DEF write_exact, boot_at, MutexPcs
  <2>2. CASE \E primary \in BootFailures : boot_failure(p, primary) /\ UNCHANGED bFile
    BY <2>1, <2>2, BootFailed
  <2>3. CASE /\ bFile' = [bFile EXCEPT !["partial"].whole = TRUE]
             /\ boot_step(p, "close_all") /\ UNCHANGED <<bOpen, bMutex>>
    <3>1. /\ bInst' \in [Installers -> BootInstallers]
          /\ bInst'[p].pc = "close_all" /\ bInst'[p].result = bInst[p].result
          /\ \A q \in Installers : q # p => bInst'[q] = bInst[q]
      BY <1>0, <2>3, BootStepType DEF BootPcs, MutexPcs
    <3>2. /\ bFile["bundle"] = File(p, "bundle", TRUE) /\ bFile["receipt"] = NoFile
          /\ bFile["partial"] = File(p, "receipt", FALSE)
      BY <1>d, <2>1 DEF Progress
    <3>3. [bFile["partial"] EXCEPT !.whole = TRUE] = File(p, "receipt", TRUE)
      BY <3>2, FileWhole
    <3>4. bFile' = [bFile EXCEPT !["partial"] = File(p, "receipt", TRUE)]
      BY <2>3, <3>3
    <3>5. /\ bFile' \in [BootLeaves -> BootFiles] /\ bFile'["partial"] = File(p, "receipt", TRUE)
          /\ \A m \in BootLeaves : m # "partial" => bFile'[m] = bFile[m]
      BY <1>b, <1>c, <3>4 DEF BootLeaves
    <3>6. Progress(p)'
      BY <2>3, <3>1, <3>2, <3>5 DEF Progress, BootLeaves
    <3>7. \A m \in BootLeaves : bFile'[m] = NoFile => bOpen'[m] = "none"
      BY <1>b, <1>c, <2>3, <3>5
    <3> QED
      BY <1>b, <1>d, <2>1, <2>3, <3>1, <3>2, <3>5, <3>6, <3>7, BootProceeds DEF MutexPcs, BootLeaves
  <2> QED
    BY <1>11, <2>2, <2>3 DEF write_exact, BootFailures
<1>12. CASE close_all(p)
  <2>1. bInst[p].pc = "close_all" /\ bInst[p].pc \in MutexPcs /\ bInst[p].pc # "done" /\ UNCHANGED <<bFile, bRead>>
    BY <1>12 DEF close_all, boot_at, MutexPcs
  <2>2. CASE boot_failure(p, "DURABILITY_FAILED")
    BY <2>1, <2>2, BootFailed DEF BootFailures
  <2>3. CASE give_back(p, {}) /\ boot_step(p, "publish")
    <3>1. /\ bInst' \in [Installers -> BootInstallers]
          /\ bInst'[p].pc = "publish" /\ bInst'[p].result = bInst[p].result
          /\ \A q \in Installers : q # p => bInst'[q] = bInst[q]
      BY <1>0, <2>3, BootStepType DEF BootPcs
    <3>2. /\ bOpen' \in [BootLeaves -> Installers \cup Readers \cup {"none"}]
          /\ \A m \in BootLeaves : \/ bOpen'[m] = bOpen[m]
                                   \/ bOpen[m] \in {p, "none"} /\ bOpen'[m] \in {p, "none"}
          /\ \A m \in BootLeaves : bFile'[m] = NoFile => bOpen'[m] = "none"
          /\ \A m \in BootLeaves : bOpen'[m] # p
      BY <1>b, <2>1, <2>3 DEF give_back, Freed
    <3>3. bMutex' = "free" /\ bMutex' # p
      BY <1>d, <2>1, <2>3 DEF give_back
    <3>4. Owned(p)' = {}
      BY <3>2, <3>3, OwnsNothingNext
    <3>5. Progress(p)'
      BY <1>d, <2>1, <3>1, <3>4 DEF Progress
    <3> QED
      BY <1>b, <1>d, <2>1, <3>1, <3>2, <3>3, <3>5, BootProceeds
  <2> QED
    BY <1>12, <2>2, <2>3 DEF close_all
<1>13. CASE publish_receipt(p)
  <2>1. bInst[p].pc = "publish" /\ UNCHANGED <<bOpen, bMutex, bRead>>
    BY <1>13 DEF publish_receipt, boot_at
  <2>2. CASE UNCHANGED bFile /\ boot_returns(p, "WRITE_FAILED")
    <3>1. /\ bInst' \in [Installers -> BootInstallers]
          /\ bInst'[p].pc = "done" /\ bInst'[p].result = "WRITE_FAILED"
          /\ \A q \in Installers : q # p => bInst'[q] = bInst[q]
      BY <1>0, <2>2 DEF boot_returns, BootTypeOK, BootInstallers, BootFailures, BootPcs
    <3> QED
      BY <1>0, <2>1, <2>2, <3>1, BootGivesUp DEF BootTypeOK, BootFailures
  <2>3. CASE Movable("receipt") /\ move_fixed("receipt") /\ boot_returns(p, "INSTALLED")
    <3>1. /\ bInst' \in [Installers -> BootInstallers]
          /\ bInst'[p].pc = "done" /\ bInst'[p].result = "INSTALLED"
          /\ \A q \in Installers : q # p => bInst'[q] = bInst[q]
      BY <1>0, <2>3 DEF boot_returns, BootTypeOK, BootInstallers, BootFailures, BootPcs
    <3>2. /\ bFile["bundle"] = File(p, "bundle", TRUE) /\ bFile["receipt"] = NoFile
          /\ bFile["partial"] = File(p, "receipt", TRUE) /\ Owned(p) = {}
          /\ bOpen["partial"] = "none"
      BY <1>d, <2>1, <2>3 DEF Progress, Movable
    <3>3. /\ bFile' \in [BootLeaves -> BootFiles] /\ bFile'["receipt"] = File(p, "receipt", TRUE)
          /\ bFile'["partial"] = NoFile /\ bFile'["bundle"] = File(p, "bundle", TRUE)
      BY <1>b, <1>c, <2>3, <3>2 DEF move_fixed, BootLeaves, BootFiles
    <3>4. \A q \in Installers : Owned(q)' = Owned(q)
      BY <2>1 DEF Owned, Opens
    <3>5. BootTypeOK'
      BY <1>0, <2>1, <3>1, <3>3 DEF BootTypeOK
    <3>6. BootExclusion'
      <4>1. \A m \in BootLeaves : bFile'[m] = NoFile => bOpen'[m] = "none"
        BY <1>c, <2>1, <3>2, <3>3 DEF BootLeaves
      <4> QED
        BY <1>0, <2>1, <3>1, <4>1 DEF BootExclusion, MutexPcs
    <3>7. ASSUME NEW q \in Installers PROVE Progress(q)'
      <4>1. CASE q = p
        BY <3>1, <4>1 DEF Progress
      <4>2. CASE q # p
        <5>1. Progress(q) /\ bInst'[q] = bInst[q]
          BY <1>0, <3>1, <4>2
        <5>2. File(q, "bundle", TRUE) # File(p, "bundle", TRUE) /\ File(p, "bundle", TRUE) # NoFile
          BY <4>2 DEF File, NoFile
        <5>3. bInst[q].pc \in {"receipt", "partial", "create"} => bOpen["bundle"] = q
          BY <3>2, <5>1, <5>2 DEF Progress
        <5>4. bInst[q].pc \notin {"write", "close_partial", "promote", "verify", "create_receipt",
                                  "write_receipt", "close_all", "publish"}
          BY <3>2, <5>1, <5>2 DEF Progress
        <5> QED
          BY <2>1, <5>1, <5>3, <5>4 DEF Progress
      <4> QED
        BY <4>1, <4>2
    <3>8. Published'
      <4>1. File(p, "receipt", TRUE).by = p
        BY DEF File
      <4>2. \A q \in Installers : q # p => bInst[q].result # "INSTALLED"
        <5>1. \A q \in Installers : File(q, "receipt", TRUE) # NoFile
          BY DEF File, NoFile
        <5> QED
          BY <1>0, <3>2, <5>1 DEF Published
      <4>3. Owned(p)' = {}
        BY <3>2, <3>4
      <4>4. bFile'["receipt"].by = p
        BY <3>3, <4>1
      <4>5. \A q \in Installers : bInst'[q].result = "INSTALLED" => bFile'["receipt"] = File(q, "receipt", TRUE)
        BY <3>1, <3>3, <4>2
      <4>6. bFile'["bundle"] # NoFile
        BY <1>c, <3>3
      <4>7. Owned(bFile["receipt"].by)' = {}
        BY <4>3, <4>4 DEF Owned, Opens
      <4> QED
        BY <3>1, <3>3, <4>4, <4>5, <4>6, <4>7 DEF Published
    <3>9. ReadersHold'
      <4>1. \A r \in Readers : bRead[r].pc # "installed"
        BY <1>0, <3>2 DEF ReadersHold, Matches, NoFile
      <4> QED
        BY <1>0, <2>1, <4>1 DEF ReadersHold, Opens
    <3> QED
      BY <3>5, <3>6, <3>7, <3>8, <3>9 DEF BootInv
  <2> QED
    BY <1>13, <2>2, <2>3 DEF publish_receipt
<1>14. CASE installer_ends(p)
  <2>1. /\ bOpen' = Freed(p, {}) /\ bMutex' = (IF bMutex = p THEN "abandoned" ELSE bMutex)
        /\ boot_step(p, "done") /\ UNCHANGED <<bFile, bRead>>
    BY <1>14 DEF installer_ends
  <2>2. /\ bInst' \in [Installers -> BootInstallers]
        /\ bInst'[p].pc = "done" /\ bInst'[p].result = bInst[p].result
        /\ \A q \in Installers : q # p => bInst'[q] = bInst[q]
    BY <1>0, <2>1, BootStepType DEF BootPcs
  <2>3. /\ bOpen' \in [BootLeaves -> Installers \cup Readers \cup {"none"}]
        /\ \A l \in BootLeaves : bOpen'[l] = bOpen[l] \/ (bOpen[l] = p /\ bOpen'[l] = "none")
    BY <1>b, <2>1 DEF Freed
  <2>4. /\ bMutex' \in Installers \cup {"free", "abandoned"}
        /\ \A q \in Installers : q # p => (bMutex' = q <=> bMutex = q)
        /\ bMutex' # p
    BY <1>0, <2>1 DEF BootTypeOK
  <2> QED
    BY <2>1, <2>2, <2>3, <2>4, BootGivesUp
<1> QED
  BY <1>1, <1>2, <1>3, <1>4, <1>5, <1>6, <1>7, <1>8, <1>9, <1>10, <1>11, <1>12, <1>13, <1>14
  DEF InstallerStep

\* Every step of a reader keeps the invariant.
LEMMA BootReaderStep ==
  ASSUME BootInv, NEW r \in Readers, ReaderStep(r)
  PROVE  BootInv'
<1> USE BootAssumption
<1>0. BootTypeOK /\ BootExclusion /\ ReadersHold
  BY DEF BootInv
<1>1. /\ bFile \in [BootLeaves -> BootFiles]
      /\ bOpen \in [BootLeaves -> Installers \cup Readers \cup {"none"}]
      /\ \A l \in BootLeaves : bFile[l] = NoFile => bOpen[l] = "none"
      /\ bRead \in [Readers -> BootReaders]
  BY <1>0 DEF BootTypeOK, BootExclusion
<1>2. bRead[r] \in BootReaders /\ bRead[r].seen \in SUBSET BootLeaves /\ bRead[r].blind \in BOOLEAN
  BY <1>1 DEF BootReaders
<1>3. CASE inspect_partial(r)
  <2>1. bRead[r].pc = "idle" /\ Opens(r) = {} /\ bRead[r].seen = {} /\ UNCHANGED <<bFile, bMutex, bInst>>
    BY <1>0, <1>3 DEF inspect_partial, ReadersHold
  <2>2. PICK pc \in {"bundle", "poisoned"} :
          /\ bRead' = [bRead EXCEPT ![r].pc = pc]
          /\ pc = "bundle" => bOpen' = bOpen
          /\ bOpen' = bOpen \/ (/\ bFile["partial"] # NoFile /\ bOpen["partial"] = "none"
                                /\ bOpen' = [bOpen EXCEPT !["partial"] = r])
    BY <1>3 DEF inspect_partial, reader_to
  <2>3. /\ bRead' \in [Readers -> BootReaders] /\ bRead'[r].pc = pc /\ bRead'[r].seen = bRead[r].seen
        /\ \A x \in Readers : x # r => bRead'[x] = bRead[x]
    BY <1>1, <2>2 DEF BootReaders
  <2>4. /\ bOpen' \in [BootLeaves -> Installers \cup Readers \cup {"none"}]
        /\ \A l \in BootLeaves : \/ bOpen'[l] = bOpen[l]
                                 \/ bOpen[l] \in {r, "none"} /\ bOpen'[l] \in {r, "none"}
        /\ \A l \in BootLeaves : bFile[l] = NoFile => bOpen'[l] = "none"
    BY <1>1, <2>2 DEF BootLeaves
  <2>5. pc = "bundle" => Opens(r)' = {}
    BY <2>1, <2>2 DEF Opens
  <2> QED
    BY <2>1, <2>2, <2>3, <2>4, <2>5, BootReads
<1>4. ASSUME NEW l \in {"bundle", "receipt"}, NEW next \in {"receipt", "decide"},
             l = "bundle" <=> next = "receipt", inspect_leaf(r, l, next)
      PROVE  BootInv'
  <2>1. bRead[r].pc = l /\ Opens(r) = bRead[r].seen /\ UNCHANGED <<bFile, bMutex, bInst>> /\ l \in BootLeaves
    BY <1>0, <1>4 DEF inspect_leaf, ReadersHold, BootLeaves
  <2>2. l = "bundle" => bRead[r].seen = {}
    BY <1>0, <2>1 DEF ReadersHold
  <2>3. PICK free \in BOOLEAN, seen \in SUBSET BootLeaves, blind \in BOOLEAN :
          /\ free <=> bFile[l] # NoFile /\ bOpen[l] = "none"
          /\ bOpen' = IF free THEN [bOpen EXCEPT ![l] = r] ELSE bOpen
          /\ seen = IF free THEN bRead[r].seen \cup {l} ELSE bRead[r].seen
          /\ bRead' = [bRead EXCEPT ![r] = [pc |-> next, seen |-> seen, blind |-> blind]]
    <3> DEFINE f == bFile[l] # NoFile /\ bOpen[l] = "none"
               s == IF f THEN bRead[r].seen \cup {l} ELSE bRead[r].seen
               b == bRead[r].blind \/ (bFile[l] # NoFile /\ ~f)
    <3>1. /\ bOpen' = IF f THEN [bOpen EXCEPT ![l] = r] ELSE bOpen
          /\ bRead' = [bRead EXCEPT ![r] = [pc |-> next, seen |-> s, blind |-> b]]
      BY <1>1, <1>4 DEF inspect_leaf
    <3>2. f \in BOOLEAN /\ s \in SUBSET BootLeaves /\ b \in BOOLEAN
      BY <1>2, <2>1
    <3> QED
      BY <3>1, <3>2
  <2>4. /\ bRead' \in [Readers -> BootReaders] /\ bRead'[r].pc = next /\ bRead'[r].seen = seen
        /\ \A x \in Readers : x # r => bRead'[x] = bRead[x]
    BY <1>1, <2>3 DEF BootReaders
  <2>5. /\ bOpen' \in [BootLeaves -> Installers \cup Readers \cup {"none"}]
        /\ \A m \in BootLeaves : \/ bOpen'[m] = bOpen[m]
                                 \/ bOpen[m] \in {r, "none"} /\ bOpen'[m] \in {r, "none"}
        /\ \A m \in BootLeaves : bFile[m] = NoFile => bOpen'[m] = "none"
    BY <1>1, <2>1, <2>3
  <2>6. Opens(r)' = seen
    <3>1. CASE free
      <4>1. \A m \in BootLeaves : bOpen'[m] = r <=> bOpen[m] = r \/ m = l
        BY <1>1, <2>3, <3>1
      <4> QED
        BY <2>1, <2>3, <3>1, <4>1 DEF Opens
    <3>2. CASE ~ free
      BY <2>1, <2>3, <3>2 DEF Opens
    <3> QED
      BY <3>1, <3>2
  <2>7. next = "receipt" => seen \subseteq {"bundle"}
    BY <1>4, <2>2, <2>3
  <2> QED
    BY <2>1, <2>4, <2>5, <2>6, <2>7, BootReads
<1>5. CASE inspect_decides(r)
  <2>1. bRead[r].pc = "decide" /\ Opens(r) = bRead[r].seen /\ UNCHANGED <<bFile, bOpen, bMutex, bInst>>
    BY <1>0, <1>5 DEF inspect_decides, ReadersHold
  <2>2. PICK pc \in {"installed", "absent", "poisoned"} :
          /\ bRead' = [bRead EXCEPT ![r].pc = pc]
          /\ pc = "installed" => /\ bRead[r].seen = {"bundle", "receipt"}
                                 /\ Matches(bFile["bundle"], bFile["receipt"])
    BY <1>5 DEF inspect_decides, reader_to
  <2>3. /\ bRead' \in [Readers -> BootReaders] /\ bRead'[r].pc = pc /\ bRead'[r].seen = bRead[r].seen
        /\ \A x \in Readers : x # r => bRead'[x] = bRead[x]
    BY <1>1, <2>2 DEF BootReaders
  <2>4. Opens(r)' = bRead[r].seen
    BY <2>1 DEF Opens
  <2> QED
    BY <1>1, <2>1, <2>2, <2>3, <2>4, BootReads
<1>6. CASE reader_closes(r)
  <2>1. /\ bOpen' = Freed(r, {}) /\ bRead' = [bRead EXCEPT ![r] = Unread]
        /\ UNCHANGED <<bFile, bMutex, bInst>>
    BY <1>6 DEF reader_closes
  <2>2. /\ bRead' \in [Readers -> BootReaders] /\ bRead'[r].pc = "idle" /\ bRead'[r].seen = {}
        /\ \A x \in Readers : x # r => bRead'[x] = bRead[x]
    BY <1>1, <2>1 DEF BootReaders, Unread
  <2>3. /\ bOpen' \in [BootLeaves -> Installers \cup Readers \cup {"none"}]
        /\ \A m \in BootLeaves : \/ bOpen'[m] = bOpen[m]
                                 \/ bOpen[m] \in {r, "none"} /\ bOpen'[m] \in {r, "none"}
        /\ \A m \in BootLeaves : bFile[m] = NoFile => bOpen'[m] = "none"
        /\ \A m \in BootLeaves : bOpen'[m] # r
    BY <1>1, <2>1 DEF Freed
  <2>4. Opens(r)' = {}
    BY <2>3 DEF Opens
  <2> QED
    BY <2>1, <2>2, <2>3, <2>4, BootReads
<1> QED
  BY <1>3, <1>4, <1>5, <1>6 DEF ReaderStep

\* Nothing is installed and nobody holds anything.
LEMMA BootInvInit == BootInit => BootInv
<1> SUFFICES ASSUME BootInit PROVE BootInv
  OBVIOUS
<1> USE BootAssumption
<1>1. BootTypeOK
  BY DEF BootInit, BootTypeOK, BootFiles, BootInstallers, BootReaders, BootPcs, Unread
<1>2. BootExclusion /\ Published
  BY DEF BootInit, BootExclusion, Published, MutexPcs, BootLeaves
<1>3. \A p \in Installers : Progress(p)
  BY DEF BootInit, Progress
<1>4. ReadersHold
  BY DEF BootInit, ReadersHold, Unread, Opens
<1> QED
  BY <1>1, <1>2, <1>3, <1>4 DEF BootInv

\* A receipt in its place is true for ever, whatever any number of installers and
\* readers do, however their calls fail and wherever they die: the whole bundle of the
\* same installer is in place, no partial is left, and that installer holds nothing
\* (install, _ClosedReceiptCandidate, inspect).
THEOREM ReceiptTruthfulInvariant == BootSpec => []ReceiptTruthful
<1>1. BootInv /\ [BootNext]_bootVars => BootInv'
  <2> SUFFICES ASSUME BootInv, [BootNext]_bootVars PROVE BootInv'
    OBVIOUS
  <2>1. CASE BootNext
    BY <2>1, BootInstallerStep, BootReaderStep DEF BootNext
  <2>2. CASE UNCHANGED bootVars
    <3>1. UNCHANGED <<bFile, bOpen, bMutex, bInst, bRead>>
      BY <2>2 DEF bootVars
    <3>2. BootTypeOK' /\ BootExclusion'
      BY <3>1 DEF BootInv, BootTypeOK, BootExclusion
    <3>3. \A p : Owned(p)' = Owned(p) /\ Opens(p)' = Opens(p)
      BY <3>1 DEF Owned, Opens
    <3>4. (\A p \in Installers : Progress(p))'
      BY <3>1, <3>3 DEF BootInv, Progress
    <3>5. Published' /\ ReadersHold'
      <4>1. Owned(bFile["receipt"].by)' = Owned(bFile["receipt"].by)
        BY <3>1 DEF Owned, Opens
      <4> QED
        BY <3>1, <3>3, <4>1 DEF BootInv, Published, ReadersHold
    <3> QED
      BY <3>2, <3>4, <3>5 DEF BootInv
  <2> QED
    BY <2>1, <2>2
<1>2. BootInv => ReceiptTruthful
  <2> SUFFICES ASSUME BootInv PROVE ReceiptTruthful
    OBVIOUS
  <2>1. Published /\ ReadersHold
    BY DEF BootInv
  <2>2. \A p \in Installers : Matches(File(p, "bundle", TRUE), File(p, "receipt", TRUE))
    BY DEF Matches, File
  <2>3. bFile["receipt"] # NoFile => bFile["receipt"].by \in Installers
    BY DEF BootInv, BootTypeOK, BootFiles, BootLeaves
  <2> QED
    BY <2>1, <2>2, <2>3 DEF Published, ReadersHold, ReceiptTruthful
<1> QED
  BY <1>1, <1>2, BootInvInit, PTL DEF BootSpec

-----------------------------------------------------------------------------
(* The leases of a preparation *)

PrepPlaces == {"inspect", "pair", "approval", "verify", "attest", "artifacts", "supervisor", "camera",
               "ffmpeg", "bindings", "attested", "bridge", "failed", "ended"}

Opening == PrepPlaces \ {"bridge", "failed", "ended"}

Outcomes == {"NONE", "VERIFIED", "INVALID", "EXPIRED", "BOOTSTRAP_UNPROVISIONED", "ATTESTED",
             "CLEANUP_FAILED", "CLEAN", "UNCERTAIN"}

PrepRecords == [pc : PrepPlaces, boot : {"none", "live", "closed", "lost"}, approval : BOOLEAN,
                bundle : {"none", "live", "closed"}, a0 : Outcomes, attested : Outcomes, abort : Outcomes,
                silent : SUBSET LeaseHandles]

PrepTypes ==
  /\ prep \in PrepRecords
  /\ lease \in [LeaseHandles -> {"no", "open", "closed", "stuck"}]
  /\ closes \in [LeaseHandles -> Nat]

\* The handles that close_retained would close now.
Kept == (IF prep.bundle = "live" THEN Retained ELSE {})
        \cup (IF prep.approval THEN Approval ELSE {})
        \cup (IF prep.boot = "live" THEN BootPair ELSE {})

\* The handles that the stage at work has opened and not handed on.
AtWork == CASE prep.pc = "pair" -> {"root"}
            [] prep.pc = "verify" -> Approval
            [] prep.pc = "artifacts" -> Pinned
            [] prep.pc = "supervisor" -> Pinned \cup Artifacts
            [] prep.pc = "camera" -> Pinned \cup Artifacts \cup {"supervisor"}
            [] prep.pc = "ffmpeg" -> Retained \ {"ffmpeg"}
            [] prep.pc = "bindings" -> Retained
            [] OTHER -> {}

\* A handle was asked to close if and only if it is not open any more.
Asked == \A h \in LeaseHandles : closes[h] <= 1 /\ (lease[h] \in {"closed", "stuck"} <=> closes[h] = 1)

\* Open are the handles that somebody still answers for, and those an exception lost.
Answered ==
  /\ prep.pc # "ended" => \A h \in LeaseHandles : /\ h \in Kept \cup AtWork => lease[h] = "open"
                                                  /\ lease[h] = "open" => h \in Kept \cup AtWork \cup Losable
  /\ prep.pc = "ended" => \A h \in LeaseHandles : lease[h] = "open" => h \in Losable
  /\ prep.pc \in Opening => \A h \in LeaseHandles : /\ lease[h] \in {"no", "open"}
                                                    /\ lease[h] = "open" => h \in Kept \cup AtWork

\* What the outcomes recorded so far say of the leases.
Recorded ==
  /\ prep.pc \in {"inspect", "pair"} => prep.boot = "none"
  /\ prep.pc \in {"inspect", "pair", "approval", "verify"} => ~ prep.approval /\ prep.a0 = "NONE"
  /\ prep.pc \in Opening \ {"attested"} => prep.bundle = "none"
  /\ prep.pc \in (Opening \ {"inspect", "pair"}) \cup {"bridge"} => prep.boot = "live"
  /\ prep.pc \in (Opening \ {"inspect", "pair", "approval", "verify"}) \cup {"bridge"} => prep.approval
  /\ prep.pc \in {"attested", "bridge"} => prep.bundle = "live"

\* A handle that refused to close was closed by code that ignores it, or an outcome says so.
StuckTold ==
  \A h \in LeaseHandles : lease[h] = "stuck" =>
    \/ h \in prep.silent
    \/ prep.a0 = "CLEANUP_FAILED" \/ prep.attested = "CLEANUP_FAILED"
    \/ prep.pc = "ended" /\ prep.abort = "UNCERTAIN"

PrepInv == PrepTypes /\ Asked /\ Answered /\ Recorded /\ StuckTold

\* What is held at each place.
LEMMA HeldThen ==
  ASSUME PrepInv
  PROVE  /\ prep.pc = "inspect" => Kept = {} /\ AtWork = {}
         /\ prep.pc = "pair" => Kept = {} /\ AtWork = {"root"}
         /\ prep.pc = "approval" => Kept = BootPair /\ AtWork = {}
         /\ prep.pc = "verify" => Kept = BootPair /\ AtWork = Approval
         /\ prep.pc \in {"attest", "artifacts", "supervisor", "camera", "ffmpeg", "bindings"} =>
              Kept = Approval \cup BootPair
         /\ prep.pc \in {"attest", "attested", "bridge", "failed"} => AtWork = {}
         /\ prep.pc \in {"attested", "bridge"} => Kept = Retained \cup Approval \cup BootPair
<1>1. Recorded
  BY DEF PrepInv
<1>2. /\ prep.pc \in {"inspect", "pair"} => prep.boot = "none" /\ ~prep.approval /\ prep.bundle = "none"
      /\ prep.pc \in {"approval", "verify"} => prep.boot = "live" /\ ~prep.approval /\ prep.bundle = "none"
      /\ prep.pc \in {"attest", "artifacts", "supervisor", "camera", "ffmpeg", "bindings"} =>
           prep.boot = "live" /\ prep.approval /\ prep.bundle = "none"
      /\ prep.pc \in {"attested", "bridge"} => prep.boot = "live" /\ prep.approval /\ prep.bundle = "live"
  BY <1>1 DEF Recorded, Opening, PrepPlaces
<1> QED
  BY <1>2 DEF Kept, AtWork

\* A stage opens handles (prep_opens), or hands on what it has opened.
LEMMA PrepOpens ==
  ASSUME PrepInv, prep.pc \in Opening, NEW S \in SUBSET LeaseHandles, prep_opens(S), closes' = closes,
         prep' \in PrepRecords, prep'.pc \in Opening \cup {"bridge"}, Recorded',
         (Kept \cup AtWork)' = Kept \cup AtWork \cup S
  PROVE  PrepInv'
<1>1. PrepTypes /\ Asked /\ Answered
  BY DEF PrepInv
<1>2. /\ lease \in [LeaseHandles -> {"no", "open", "closed", "stuck"}]
      /\ prep.pc # "ended" /\ prep'.pc # "ended"
      /\ lease' = [h \in LeaseHandles |-> IF h \in S THEN "open" ELSE lease[h]]
  BY <1>1 DEF PrepTypes, Opening, PrepPlaces, prep_opens
<1>3. \A h \in LeaseHandles : lease'[h] = IF h \in S THEN "open" ELSE lease[h]
  BY <1>2
<1>4. PrepTypes'
  <2>1. lease' \in [LeaseHandles -> {"no", "open", "closed", "stuck"}]
    BY <1>2
  <2> QED
    BY <1>1, <2>1 DEF PrepTypes
<1>5. \A h \in LeaseHandles : lease[h] \in {"no", "open"} /\ (lease[h] = "open" <=> h \in Kept \cup AtWork)
  BY <1>1, <1>2 DEF Answered
<1>6. Asked'
  BY <1>1, <1>3, <1>5 DEF Asked
<1>7. Answered' /\ StuckTold'
  BY <1>2, <1>3, <1>5 DEF Answered, StuckTold
<1> QED
  BY <1>4, <1>6, <1>7 DEF PrepInv

\* Handles that were not asked before are closed or lost, and the refusals are told.
LEMMA PrepCloses ==
  ASSUME PrepInv, prep.pc # "ended", NEW S \in SUBSET LeaseHandles, NEW stuck \in SUBSET S,
         NEW lost \in SUBSET LeaseHandles, lost \cap S = {}, prep_closes(S, stuck, lost),
         \/ prep.pc \in Opening
         \/ S \cup lost \subseteq Kept \cup AtWork
         \/ \A h \in S \cup lost : closes[h] = 0,
         prep' \in PrepRecords, prep'.pc \in {"failed", "ended", "bridge"}, Recorded',
         prep'.pc # "ended" => (Kept \cup AtWork)' = (Kept \cup AtWork) \ (S \cup lost),
         prep'.pc = "ended" => Kept \cup AtWork \subseteq S,
         lost \subseteq Losable',
         \A h \in stuck : \/ h \in prep'.silent \/ (prep'.pc = "ended" /\ prep'.abort = "UNCERTAIN")
                          \/ prep'.a0 = "CLEANUP_FAILED" \/ prep'.attested = "CLEANUP_FAILED",
         prep.silent \subseteq prep'.silent,
         prep.pc \notin Opening => prep'.a0 = prep.a0 /\ prep'.attested = prep.attested
  PROVE  PrepInv'
<1>1. PrepTypes /\ Asked /\ Answered /\ StuckTold
  BY DEF PrepInv
<1>2. /\ lease \in [LeaseHandles -> {"no", "open", "closed", "stuck"}] /\ closes \in [LeaseHandles -> Nat]
      /\ lease' = [h \in LeaseHandles |-> IF h \in stuck THEN "stuck" ELSE IF h \in S THEN "closed"
                                            ELSE IF h \in lost THEN "open" ELSE lease[h]]
      /\ closes' = [h \in LeaseHandles |-> IF h \in S THEN closes[h] + 1 ELSE closes[h]]
  BY <1>1 DEF PrepTypes, prep_closes
<1>3. \A h \in LeaseHandles :
        /\ lease'[h] = IF h \in stuck THEN "stuck" ELSE IF h \in S THEN "closed"
                       ELSE IF h \in lost THEN "open" ELSE lease[h]
        /\ closes'[h] = IF h \in S THEN closes[h] + 1 ELSE closes[h]
  BY <1>2
<1>4. PrepTypes'
  <2>1. lease' \in [LeaseHandles -> {"no", "open", "closed", "stuck"}]
    BY <1>2
  <2>2. closes' \in [LeaseHandles -> Nat]
    BY <1>2
  <2> QED
    BY <2>1, <2>2 DEF PrepTypes
<1>5. \A h \in LeaseHandles : /\ h \in Kept \cup AtWork => lease[h] = "open"
                              /\ lease[h] = "open" => h \in Kept \cup AtWork \cup Losable
                              /\ lease[h] = "open" /\ prep.pc \in Opening => h \in Kept \cup AtWork
  BY <1>1 DEF Answered
<1>6. \A h \in S \cup lost : closes[h] = 0
  <2>1. \A h \in LeaseHandles : closes[h] \in Nat /\ (lease[h] \in {"no", "open"} => closes[h] = 0)
    BY <1>1, <1>2 DEF Asked
  <2>2. CASE prep.pc \in Opening
    BY <1>1, <2>1, <2>2 DEF Answered
  <2>3. CASE S \cup lost \subseteq Kept \cup AtWork
    BY <1>5, <2>1, <2>3
  <2> QED
    BY <2>2, <2>3
<1>7. Asked'
  <2> SUFFICES ASSUME NEW h \in LeaseHandles
               PROVE  closes'[h] <= 1 /\ (lease'[h] \in {"closed", "stuck"} <=> closes'[h] = 1)
    BY DEF Asked
  <2>1. CASE h \in S
    BY <1>3, <1>6, <2>1
  <2>2. CASE h \in lost
    <3>1. h \notin S /\ h \notin stuck /\ lease'[h] = "open" /\ closes'[h] = 0
      BY <1>3, <1>6, <2>2
    <3> QED
      BY <3>1
  <2>3. CASE h \notin S /\ h \notin lost
    BY <1>1, <1>3, <2>3 DEF Asked
  <2> QED
    BY <2>1, <2>2, <2>3
<1>8. \A h \in LeaseHandles : /\ h \in (Kept \cup AtWork) \ (S \cup lost) => lease'[h] = "open"
                              /\ lease'[h] = "open" => h \notin S /\ (h \in lost \/ lease[h] = "open")
  BY <1>3, <1>5
<1>9. Answered'
  <2>1. \A h \in LeaseHandles : lease'[h] = "open" => h \in ((Kept \cup AtWork) \ S) \cup Losable'
    <3> SUFFICES ASSUME NEW h \in LeaseHandles, lease'[h] = "open", h \notin lost
                 PROVE  h \in ((Kept \cup AtWork) \ S) \cup Losable'
      BY <1>8
    <3>1. lease[h] = "open" /\ h \notin S
      BY <1>8
    <3>2. CASE prep.pc \in Opening
      BY <1>5, <3>1, <3>2
    <3>3. CASE prep.pc \notin Opening
      <4>1. Losable' = Losable
        BY <3>3 DEF Losable
      <4> QED
        BY <1>5, <3>1, <4>1
    <3> QED
      BY <3>2, <3>3
  <2>2. \A h \in LeaseHandles : prep'.pc = "ended" /\ lease'[h] = "open" => h \in Losable'
    BY <2>1
  <2>3. \A h \in LeaseHandles : prep'.pc # "ended" => /\ h \in (Kept \cup AtWork)' => lease'[h] = "open"
                                                      /\ lease'[h] = "open" => h \in (Kept \cup AtWork)' \cup Losable'
    BY <1>8, <2>1
  <2>4. prep'.pc \notin Opening
    BY DEF Opening, PrepPlaces
  <2> QED
    BY <2>2, <2>3, <2>4 DEF Answered
<1>10. StuckTold'
  <2> SUFFICES ASSUME NEW h \in LeaseHandles, lease'[h] = "stuck"
               PROVE  \/ h \in prep'.silent \/ (prep'.pc = "ended" /\ prep'.abort = "UNCERTAIN")
                      \/ prep'.a0 = "CLEANUP_FAILED" \/ prep'.attested = "CLEANUP_FAILED"
    BY DEF StuckTold
  <2>1. CASE h \in stuck
    BY <2>1
  <2>2. CASE h \notin stuck
    <3>1. lease[h] = "stuck"
      BY <1>3, <2>2
    <3>2. prep.pc \notin Opening
      BY <1>1, <3>1 DEF Answered
    <3> QED
      BY <1>1, <3>1, <3>2 DEF StuckTold
  <2> QED
    BY <2>1, <2>2
<1> QED
  BY <1>4, <1>7, <1>9, <1>10 DEF PrepInv

\* The same when nothing is lost.
LEMMA PrepClosesAll ==
  ASSUME PrepInv, prep.pc # "ended", NEW S \in SUBSET LeaseHandles, NEW stuck \in SUBSET S, prep_closes(S, stuck, {}),
         \/ prep.pc \in Opening
         \/ S \subseteq Kept \cup AtWork
         \/ \A h \in S : closes[h] = 0,
         prep' \in PrepRecords, prep'.pc \in {"failed", "ended", "bridge"}, Recorded',
         prep'.pc # "ended" => (Kept \cup AtWork)' = (Kept \cup AtWork) \ S,
         prep'.pc = "ended" => Kept \cup AtWork \subseteq S,
         \A h \in stuck : \/ h \in prep'.silent \/ (prep'.pc = "ended" /\ prep'.abort = "UNCERTAIN")
                          \/ prep'.a0 = "CLEANUP_FAILED" \/ prep'.attested = "CLEANUP_FAILED",
         prep.silent \subseteq prep'.silent,
         prep.pc \notin Opening => prep'.a0 = prep.a0 /\ prep'.attested = prep.attested
  PROVE  PrepInv'
<1>1. S \cup {} = S /\ {} \cap S = {} /\ {} \subseteq Losable' /\ {} \in SUBSET LeaseHandles
  OBVIOUS
<1> QED
  BY <1>1, PrepCloses

\* The sets of handles.
LEMMA HandleSets ==
  /\ BootPair \subseteq LeaseHandles /\ Approval \subseteq LeaseHandles /\ Retained \subseteq LeaseHandles
  /\ Pinned \subseteq LeaseHandles /\ Artifacts \subseteq LeaseHandles
  /\ Pinned \cup Artifacts \subseteq Retained /\ Native \subseteq Retained
  /\ {"root", "partial", "bundle", "receipt", "camera_again"} \subseteq LeaseHandles
BY DEF LeaseHandles, Retained, BootPair, Approval, Pinned, Artifacts, Native

\* The parent directory and the partial (inspect_parent).
LEMMA InspectParent ==
  ASSUME PrepInv, inspect_parent
  PROVE  PrepInv'
<1>1. prep \in PrepRecords /\ prep.pc = "inspect" /\ Recorded /\ Kept = {} /\ AtWork = {}
  BY HeldThen DEF PrepInv, PrepTypes, inspect_parent
<1>2. prep.pc \in Opening /\ prep.pc # "ended"
  BY <1>1 DEF Opening, PrepPlaces
<1>3. prep.boot = "none" /\ ~prep.approval /\ prep.bundle = "none" /\ prep.a0 = "NONE"
  BY <1>1, <1>2 DEF Recorded
<1>4. CASE prep_opens({"root"}) /\ prep' = [prep EXCEPT !.pc = "pair"] /\ UNCHANGED closes
  <2>1. /\ prep' \in PrepRecords /\ prep'.pc = "pair" /\ prep'.boot = "none" /\ ~prep'.approval
        /\ prep'.bundle = "none" /\ prep'.a0 = "NONE"
    BY <1>1, <1>3, <1>4 DEF PrepRecords, PrepPlaces, Outcomes
  <2>2. Kept' = {} /\ AtWork' = {"root"} /\ Recorded' /\ prep'.pc \in Opening
    BY <2>1 DEF Kept, AtWork, Recorded, Opening, PrepPlaces
  <2>3. {"root"} \in SUBSET LeaseHandles
    BY HandleSets
  <2> QED
    BY <1>1, <1>2, <1>4, <2>1, <2>2, <2>3, PrepOpens
<1>5. CASE prep' = [prep EXCEPT !.pc = "failed", !.a0 = "INVALID"] /\ UNCHANGED <<lease, closes>>
  <2>1. /\ prep' \in PrepRecords /\ prep'.pc = "failed" /\ prep'.boot = "none" /\ ~prep'.approval
        /\ prep'.bundle = "none"
    BY <1>1, <1>3, <1>5 DEF PrepRecords, PrepPlaces, Outcomes
  <2>2. Kept' = {} /\ AtWork' = {}
    BY <2>1 DEF Kept, AtWork
  <2>3. Recorded'
    BY <2>1 DEF Recorded, Opening, PrepPlaces
  <2>4. \A h \in LeaseHandles : lease[h] \in {"no", "open"} /\ lease[h] # "open"
    BY <1>1, <1>2 DEF PrepInv, Answered
  <2>5. Answered' /\ StuckTold'
    BY <1>5, <2>1, <2>2, <2>4 DEF Answered, StuckTold, Opening, PrepPlaces
  <2>6. PrepTypes' /\ Asked'
    BY <1>5, <2>1 DEF PrepInv, PrepTypes, Asked
  <2> QED
    BY <2>3, <2>5, <2>6 DEF PrepInv
<1>6. ASSUME NEW S \in {{"root"}, {"root", "partial"}}, reader_fails(S, "INVALID")
      PROVE  PrepInv'
  <2>1. PICK stuck \in SUBSET S :
          /\ prep_closes(S, stuck, {})
          /\ prep' = [prep EXCEPT !.pc = "failed", !.a0 = "INVALID", !.silent = prep.silent \cup S]
    BY <1>6 DEF reader_fails
  <2>2. S \in SUBSET LeaseHandles
    BY HandleSets
  <2>3. /\ prep' \in PrepRecords /\ prep'.pc = "failed" /\ prep'.boot = "none" /\ ~prep'.approval
        /\ prep'.bundle = "none" /\ prep'.silent = prep.silent \cup S
    BY <1>1, <1>3, <2>1, <2>2 DEF PrepRecords, PrepPlaces, Outcomes
  <2>4. Kept' = {} /\ AtWork' = {}
    BY <2>3 DEF Kept, AtWork
  <2>5. Recorded'
    BY <2>3 DEF Recorded, Opening, PrepPlaces
  <2>6. (Kept \cup AtWork)' = (Kept \cup AtWork) \ S
    BY <1>1, <2>4
  <2> QED
    BY <1>2, <2>1, <2>2, <2>3, <2>5, <2>6, PrepClosesAll
<1> QED
  BY <1>4, <1>5, <1>6 DEF inspect_parent

\* Bundle and receipt (inspect_pair).
LEMMA InspectPair ==
  ASSUME PrepInv, inspect_pair
  PROVE  PrepInv'
<1>1. prep \in PrepRecords /\ prep.pc = "pair" /\ Recorded /\ Kept = {} /\ AtWork = {"root"}
  BY HeldThen DEF PrepInv, PrepTypes, inspect_pair
<1>2. prep.pc \in Opening /\ prep.pc # "ended"
  BY <1>1 DEF Opening, PrepPlaces
<1>3. prep.boot = "none" /\ ~prep.approval /\ prep.bundle = "none" /\ prep.a0 = "NONE"
  BY <1>1, <1>2 DEF Recorded
<1>4. CASE prep_opens(BootPair) /\ prep' = [prep EXCEPT !.pc = "approval", !.boot = "live"] /\ UNCHANGED closes
  <2>1. /\ prep' \in PrepRecords /\ prep'.pc = "approval" /\ prep'.boot = "live" /\ ~prep'.approval
        /\ prep'.bundle = "none" /\ prep'.a0 = "NONE"
    BY <1>1, <1>3, <1>4 DEF PrepRecords, PrepPlaces, Outcomes
  <2>2. Kept' = BootPair /\ AtWork' = {} /\ Recorded' /\ prep'.pc \in Opening
    BY <2>1 DEF Kept, AtWork, Recorded, Opening, PrepPlaces
  <2>3. BootPair \in SUBSET LeaseHandles /\ {"root"} \cup BootPair = BootPair
    BY HandleSets DEF BootPair
  <2> QED
    BY <1>1, <1>2, <1>4, <2>1, <2>2, <2>3, PrepOpens
<1>5. ASSUME NEW S \in SUBSET LeaseHandles, NEW stuck \in SUBSET S, "root" \in S, prep_closes(S, stuck, {}),
             \/ prep' = [prep EXCEPT !.pc = "failed", !.a0 = "INVALID", !.silent = prep.silent \cup S]
             \/ prep' = [prep EXCEPT !.pc = "failed", !.a0 = "BOOTSTRAP_UNPROVISIONED"] /\ stuck = {}
      PROVE  PrepInv'
  <2>1. /\ prep' \in PrepRecords /\ prep'.pc = "failed" /\ prep'.boot = "none" /\ ~prep'.approval
        /\ prep'.bundle = "none" /\ prep.silent \subseteq prep'.silent /\ stuck \subseteq prep'.silent
    BY <1>1, <1>3, <1>5 DEF PrepRecords, PrepPlaces, Outcomes
  <2>2. Kept' = {} /\ AtWork' = {}
    BY <2>1 DEF Kept, AtWork
  <2>3. Recorded'
    BY <2>1 DEF Recorded, Opening, PrepPlaces
  <2>4. (Kept \cup AtWork)' = (Kept \cup AtWork) \ S
    BY <1>1, <1>5, <2>2
  <2> QED
    BY <1>2, <1>5, <2>1, <2>3, <2>4, PrepClosesAll
<1>6. ASSUME NEW S \in SUBSET {"bundle", "receipt"}, reader_fails(S \cup {"root"}, "INVALID")
      PROVE  PrepInv'
  <2>1. S \cup {"root"} \in SUBSET LeaseHandles
    BY HandleSets
  <2> QED
    BY <1>5, <1>6, <2>1 DEF reader_fails
<1>7. CASE /\ prep_closes({"root"}, {}, {})
           /\ prep' = [prep EXCEPT !.pc = "failed", !.a0 = "BOOTSTRAP_UNPROVISIONED"]
  BY <1>5, <1>7, HandleSets
<1> QED
  BY <1>4, <1>6, <1>7 DEF inspect_pair

\* A0 failed: the approval's own handles and the bootstrap (FixedA0Verifier._failed,
\* open_fixed).
LEMMA A0Fails ==
  ASSUME PrepInv, prep.pc \in {"approval", "verify"}, NEW own \in SUBSET Approval, AtWork \subseteq own,
         NEW stuck \in SUBSET (own \cup BootPair), NEW quiet \in SUBSET own, NEW code \in Outcomes,
         prep_closes(own \cup BootPair, stuck, {}), stuck \subseteq quiet \/ code = "CLEANUP_FAILED",
         prep' = [prep EXCEPT !.pc = "failed", !.boot = "closed", !.silent = prep.silent \cup quiet, !.a0 = code]
  PROVE  PrepInv'
<1>1. prep \in PrepRecords /\ Recorded /\ Kept = BootPair /\ prep.pc # "ended" /\ prep.pc \in Opening
  BY HeldThen DEF PrepInv, PrepTypes, Opening, PrepPlaces
<1>2. ~prep.approval /\ prep.bundle = "none"
  BY <1>1 DEF Recorded, Opening, PrepPlaces
<1>3. own \cup BootPair \in SUBSET LeaseHandles /\ quiet \subseteq LeaseHandles
  BY HandleSets
<1>4. /\ prep' \in PrepRecords /\ prep'.pc = "failed" /\ prep'.boot = "closed" /\ ~prep'.approval
      /\ prep'.bundle = "none" /\ prep'.silent = prep.silent \cup quiet /\ prep'.a0 = code
  BY <1>1, <1>2, <1>3 DEF PrepRecords, PrepPlaces, Outcomes
<1>5. Kept' = {} /\ AtWork' = {}
  BY <1>4 DEF Kept, AtWork
<1>6. Recorded'
  BY <1>4 DEF Recorded, Opening, PrepPlaces
<1>7. (Kept \cup AtWork)' = (Kept \cup AtWork) \ (own \cup BootPair)
  BY <1>1, <1>5
<1> QED
  BY <1>1, <1>3, <1>4, <1>6, <1>7, PrepClosesAll

\* The approval is opened and verified (open_approval, verify_approval).
LEMMA ApprovalSteps ==
  ASSUME PrepInv, open_approval \/ verify_approval
  PROVE  PrepInv'
<1>1. /\ prep \in PrepRecords /\ prep.pc \in {"approval", "verify"} /\ Recorded /\ Kept = BootPair
      /\ prep.pc = "approval" => AtWork = {}
      /\ prep.pc = "verify" => AtWork = Approval
  BY HeldThen DEF PrepInv, PrepTypes, open_approval, verify_approval
<1>2. prep.pc \in Opening /\ prep.pc # "ended"
  BY <1>1 DEF Opening, PrepPlaces
<1>3. prep.boot = "live" /\ ~prep.approval /\ prep.bundle = "none" /\ prep.a0 = "NONE"
  BY <1>1, <1>2 DEF Recorded, Opening, PrepPlaces
<1>4. CASE prep.pc = "approval" /\ prep_opens(Approval) /\ prep' = [prep EXCEPT !.pc = "verify"] /\ UNCHANGED closes
  <2>1. /\ prep' \in PrepRecords /\ prep'.pc = "verify" /\ prep'.boot = "live" /\ ~prep'.approval
        /\ prep'.bundle = "none" /\ prep'.a0 = "NONE"
    BY <1>1, <1>3, <1>4 DEF PrepRecords, PrepPlaces, Outcomes
  <2>2. Kept' = BootPair /\ AtWork' = Approval /\ Recorded' /\ prep'.pc \in Opening
    BY <2>1 DEF Kept, AtWork, Recorded, Opening, PrepPlaces
  <2> QED
    BY <1>1, <1>2, <1>4, <2>1, <2>2, HandleSets, PrepOpens
<1>5. ASSUME prep.pc = "approval", NEW own \in {{}, {"approval_root"}, Approval},
             NEW stuck \in SUBSET (own \cup BootPair), prep_closes(own \cup BootPair, stuck, {}),
             prep' = [prep EXCEPT !.pc = "failed", !.boot = "closed", !.silent = prep.silent \cup own,
                                  !.a0 = IF stuck \subseteq own THEN "INVALID" ELSE "CLEANUP_FAILED"]
      PROVE  PrepInv'
  <2>1. own \in SUBSET Approval /\ AtWork \subseteq own
    BY <1>1, <1>5 DEF Approval
  <2> DEFINE code == IF stuck \subseteq own THEN "INVALID" ELSE "CLEANUP_FAILED"
  <2>2. code \in Outcomes /\ (stuck \subseteq own \/ code = "CLEANUP_FAILED")
    BY DEF Outcomes
  <2>3. prep' = [prep EXCEPT !.pc = "failed", !.boot = "closed", !.silent = prep.silent \cup own, !.a0 = code]
    BY <1>5
  <2> HIDE DEF code
  <2> QED
    BY <1>1, <1>5, <2>1, <2>2, <2>3, A0Fails
<1>6. CASE /\ prep.pc = "verify" /\ prep' = [prep EXCEPT !.pc = "attest", !.a0 = "VERIFIED", !.approval = TRUE]
           /\ UNCHANGED <<lease, closes>>
  <2>1. /\ prep' \in PrepRecords /\ prep'.pc = "attest" /\ prep'.boot = "live" /\ prep'.approval
        /\ prep'.bundle = "none"
    BY <1>1, <1>3, <1>6 DEF PrepRecords, PrepPlaces, Outcomes
  <2>2. Kept' = Approval \cup BootPair /\ AtWork' = {} /\ Recorded' /\ prep'.pc \in Opening
    BY <2>1 DEF Kept, AtWork, Recorded, Opening, PrepPlaces
  <2>3. prep_opens({})
    <3>1. lease \in [LeaseHandles -> {"no", "open", "closed", "stuck"}]
      BY DEF PrepInv, PrepTypes
    <3> QED
      BY <1>6, <3>1 DEF prep_opens
  <2> QED
    BY <1>1, <1>2, <1>6, <2>1, <2>2, <2>3, PrepOpens
<1>7. ASSUME prep.pc = "verify", NEW status \in Outcomes, a0_failed(Approval, status)
      PROVE  PrepInv'
  <2>1. PICK stuck \in SUBSET (Approval \cup BootPair) :
          /\ prep_closes(Approval \cup BootPair, stuck, {})
          /\ prep' = [prep EXCEPT !.pc = "failed", !.boot = "closed",
                                  !.a0 = IF stuck = {} THEN status ELSE "CLEANUP_FAILED"]
    BY <1>7 DEF a0_failed
  <2> DEFINE code == IF stuck = {} THEN status ELSE "CLEANUP_FAILED"
  <2>2. code \in Outcomes /\ (stuck \subseteq {} \/ code = "CLEANUP_FAILED")
    BY <1>7 DEF Outcomes
  <2>3. prep' = [prep EXCEPT !.pc = "failed", !.boot = "closed", !.a0 = code]
    BY <2>1
  <2> HIDE DEF code
  <2>4. prep' = [prep EXCEPT !.pc = "failed", !.boot = "closed", !.silent = prep.silent \cup {}, !.a0 = code]
    <3>1. prep.silent \cup {} = prep.silent
      OBVIOUS
    <3> QED
      BY <1>1, <2>3, <3>1 DEF PrepRecords
  <2>5. AtWork \subseteq Approval
    BY <1>1, <1>7
  <2> QED
    BY <1>1, <2>1, <2>2, <2>4, <2>5, A0Fails
<1>10. CASE /\ prep.pc = "verify" /\ prep_closes({}, {}, Approval \cup BootPair)
            /\ prep' = [prep EXCEPT !.pc = "failed", !.boot = "lost"]
  <2>1. /\ prep' \in PrepRecords /\ prep'.pc = "failed" /\ prep'.boot = "lost" /\ ~prep'.approval
        /\ prep'.bundle = "none" /\ prep'.silent = prep.silent /\ prep'.a0 = prep.a0
    BY <1>1, <1>3, <1>10 DEF PrepRecords, PrepPlaces
  <2>2. Kept' = {} /\ AtWork' = {} /\ Recorded'
    BY <2>1 DEF Kept, AtWork, Recorded, Opening, PrepPlaces
  <2>3. Approval \cup BootPair \in SUBSET LeaseHandles /\ {} \in SUBSET LeaseHandles
    BY HandleSets
  <2>4. Approval \cup BootPair \subseteq Losable'
    BY <1>3, <2>1 DEF Losable
  <2>5. (Kept \cup AtWork)' = (Kept \cup AtWork) \ ({} \cup (Approval \cup BootPair))
    BY <1>1, <1>10, <2>2
  <2>6. {} \in SUBSET {} /\ (Approval \cup BootPair) \cap {} = {}
    OBVIOUS
  <2> QED
    BY <1>2, <1>10, <2>1, <2>2, <2>3, <2>4, <2>5, <2>6, PrepCloses
<1>8. CASE open_approval
  BY <1>4, <1>5, <1>8 DEF open_approval
<1>9. CASE verify_approval
  <2>1. {"INVALID", "EXPIRED", "BOOTSTRAP_UNPROVISIONED"} \subseteq Outcomes
    BY DEF Outcomes
  <2> QED
    BY <1>6, <1>7, <1>9, <1>10, <2>1 DEF verify_approval
<1> QED
  BY <1>8, <1>9

Attesting == {"attest", "artifacts", "supervisor", "camera", "ffmpeg", "bindings"}

\* A failed attestation closes or loses what it has opened (attest_failed).
LEMMA AttestFails ==
  ASSUME PrepInv, prep.pc \in Attesting, NEW S \in SUBSET Retained, NEW own \in SUBSET Retained,
         NEW lost \in SUBSET (Retained \ {"ffmpeg"}), lost \cap (S \cup own) = {},
         AtWork \subseteq S \cup own \cup lost, attest_failed(S, own, lost)
  PROVE  PrepInv'
<1>1. prep \in PrepRecords /\ Recorded /\ Kept = Approval \cup BootPair /\ prep.pc # "ended" /\ prep.pc \in Opening
  BY HeldThen DEF PrepInv, PrepTypes, Opening, PrepPlaces, Attesting
<1>2. prep.boot = "live" /\ prep.approval /\ prep.bundle = "none"
  BY <1>1 DEF Recorded, Opening, PrepPlaces, Attesting
<1>3. S \cup own \in SUBSET LeaseHandles /\ own \subseteq LeaseHandles /\ lost \in SUBSET LeaseHandles
  BY HandleSets
<1>4. PICK stuck \in SUBSET (S \cup own) :
        /\ prep_closes(S \cup own, stuck, lost)
        /\ prep' = [prep EXCEPT !.pc = "failed", !.silent = prep.silent \cup own,
                                !.attested = IF stuck \subseteq own THEN "INVALID" ELSE "CLEANUP_FAILED"]
  BY DEF attest_failed
<1> DEFINE code == IF stuck \subseteq own THEN "INVALID" ELSE "CLEANUP_FAILED"
<1>5. /\ code \in Outcomes /\ (stuck \subseteq own \/ code = "CLEANUP_FAILED")
      /\ code \in {"INVALID", "CLEANUP_FAILED"}
  BY DEF Outcomes
<1>6. prep' = [prep EXCEPT !.pc = "failed", !.silent = prep.silent \cup own, !.attested = code]
  BY <1>4
<1> HIDE DEF code
<1>7. /\ prep' \in PrepRecords /\ prep'.pc = "failed" /\ prep'.boot = "live" /\ prep'.approval
      /\ prep'.bundle = "none" /\ prep'.silent = prep.silent \cup own /\ prep'.attested = code
  BY <1>1, <1>2, <1>3, <1>5, <1>6 DEF PrepRecords, PrepPlaces
<1>8. Kept' = Approval \cup BootPair /\ AtWork' = {}
  BY <1>7 DEF Kept, AtWork
<1>9. Recorded'
  BY <1>7 DEF Recorded, Opening, PrepPlaces
<1>10. (Approval \cup BootPair) \cap Retained = {}
  BY DEF Approval, BootPair, Retained, Pinned, Artifacts, Native
<1>11. (Kept \cup AtWork)' = (Kept \cup AtWork) \ ((S \cup own) \cup lost)
  BY <1>1, <1>8, <1>10
<1>12. lost \subseteq Losable'
  BY <1>5, <1>7 DEF Losable
<1> QED
  BY <1>1, <1>3, <1>4, <1>5, <1>7, <1>9, <1>11, <1>12, PrepCloses

\* An attestation stage opens its handles and goes on.
LEMMA AttestGoesOn ==
  ASSUME PrepInv, prep.pc \in Attesting, NEW p \in Attesting, prep' = [prep EXCEPT !.pc = p],
         NEW S \in SUBSET Retained, prep_opens(S), closes' = closes, AtWork' = AtWork \cup S
  PROVE  PrepInv'
<1>1. prep \in PrepRecords /\ Recorded /\ Kept = Approval \cup BootPair /\ prep.pc \in Opening
  BY HeldThen DEF PrepInv, PrepTypes, Opening, PrepPlaces, Attesting
<1>2. prep.boot = "live" /\ prep.approval /\ prep.bundle = "none"
  BY <1>1 DEF Recorded, Opening, PrepPlaces, Attesting
<1>3. /\ prep' \in PrepRecords /\ prep'.pc = p /\ prep'.boot = "live" /\ prep'.approval
      /\ prep'.bundle = "none"
  BY <1>1, <1>2 DEF PrepRecords, PrepPlaces, Attesting
<1>4. Kept' = Approval \cup BootPair
  BY <1>3 DEF Kept
<1>5. Recorded' /\ prep'.pc \in Opening
  BY <1>3 DEF Recorded, Opening, PrepPlaces, Attesting
<1>6. S \in SUBSET LeaseHandles
  BY HandleSets
<1> QED
  BY <1>1, <1>3, <1>4, <1>5, <1>6, PrepOpens

\* Candidate, schema and inventory (open_pinned, open_artifacts).
LEMMA PinnedSteps ==
  ASSUME PrepInv, open_pinned \/ open_artifacts
  PROVE  PrepInv'
<1>1. prep \in PrepRecords
  BY DEF PrepInv, PrepTypes
<1>2. Pinned \subseteq Retained /\ Artifacts \subseteq Retained
  BY HandleSets
<1>3. CASE open_pinned
  <2>1. prep.pc = "attest" /\ prep.pc \in Attesting /\ AtWork = {}
    BY <1>3, HeldThen DEF open_pinned, Attesting
  <2>2. CASE prep_opens(Pinned) /\ prep' = [prep EXCEPT !.pc = "artifacts"] /\ UNCHANGED closes
    <3>1. prep'.pc = "artifacts"
      BY <1>1, <2>2 DEF PrepRecords
    <3>2. AtWork' = AtWork \cup Pinned
      BY <2>1, <3>1 DEF AtWork
    <3>3. "artifacts" \in Attesting
      BY DEF Attesting
    <3> QED
      BY <1>2, <2>1, <2>2, <3>2, <3>3, AttestGoesOn
  <2>3. ASSUME NEW own \in SUBSET Pinned, NEW lost \in SUBSET (Pinned \ own),
               NEW S \in SUBSET (Pinned \ (own \cup lost)), attest_failed(S, own, lost)
        PROVE  PrepInv'
    <3>1. /\ own \in SUBSET Retained /\ S \in SUBSET Retained /\ lost \in SUBSET (Retained \ {"ffmpeg"})
          /\ lost \cap (S \cup own) = {}
      BY <1>2 DEF Pinned
    <3> QED
      BY <2>1, <2>3, <3>1, AttestFails
  <2> QED
    BY <1>3, <2>2, <2>3 DEF open_pinned
<1>4. CASE open_artifacts
  <2>1. prep.pc = "artifacts" /\ prep.pc \in Attesting /\ AtWork = Pinned
    BY <1>4 DEF open_artifacts, Attesting, AtWork
  <2>2. CASE prep_opens(Artifacts) /\ prep' = [prep EXCEPT !.pc = "supervisor"] /\ UNCHANGED closes
    <3>1. prep'.pc = "supervisor"
      BY <1>1, <2>2 DEF PrepRecords
    <3>2. AtWork' = AtWork \cup Artifacts
      BY <2>1, <3>1 DEF AtWork
    <3>3. "supervisor" \in Attesting
      BY DEF Attesting
    <3> QED
      BY <1>2, <2>1, <2>2, <3>2, <3>3, AttestGoesOn
  <2>3. ASSUME NEW S \in SUBSET Retained, NEW own \in SUBSET Retained, NEW lost \in SUBSET (Pinned \cup Artifacts),
               lost \cap (S \cup own) = {}, Pinned \subseteq S \cup lost, attest_failed(S, own, lost)
        PROVE  PrepInv'
    <3>1. lost \in SUBSET (Retained \ {"ffmpeg"}) /\ AtWork \subseteq S \cup own \cup lost
      BY <1>2, <2>1, <2>3 DEF Pinned, Artifacts
    <3> QED
      BY <2>1, <2>3, <3>1, AttestFails
  <2>4. ASSUME NEW S \in SUBSET Artifacts, attest_failed(Pinned \cup S, {}, {}) \/ attest_failed({}, {}, Pinned \cup S)
        PROVE  PrepInv'
    <3>1. /\ Pinned \cup S \in SUBSET Retained /\ {} \in SUBSET Retained
          /\ {} \in SUBSET (Pinned \cup Artifacts) /\ Pinned \cup S \in SUBSET (Pinned \cup Artifacts)
          /\ {} \cap ((Pinned \cup S) \cup {}) = {} /\ (Pinned \cup S) \cap ({} \cup {}) = {}
          /\ Pinned \subseteq (Pinned \cup S) \cup {} /\ Pinned \subseteq {} \cup (Pinned \cup S)
      BY <1>2
    <3>2. CASE attest_failed(Pinned \cup S, {}, {})
      BY <2>3, <3>1, <3>2
    <3>3. CASE attest_failed({}, {}, Pinned \cup S)
      BY <2>3, <3>1, <3>3
    <3> QED
      BY <2>4, <3>2, <3>3
  <2>5. ASSUME NEW S \in SUBSET Artifacts, NEW h \in Artifacts \ S,
               attest_failed(Pinned \cup S, {h}, {}) \/ attest_failed(Pinned \cup S, {}, {h})
        PROVE  PrepInv'
    <3>1. /\ Pinned \cup S \in SUBSET Retained /\ {} \in SUBSET Retained /\ {h} \in SUBSET Retained
          /\ {} \in SUBSET (Pinned \cup Artifacts) /\ {h} \in SUBSET (Pinned \cup Artifacts)
      BY <1>2
    <3>2. h \notin Pinned \cup S
      BY DEF Pinned, Artifacts
    <3>3. CASE attest_failed(Pinned \cup S, {h}, {})
      <4>1. {} \cap ((Pinned \cup S) \cup {h}) = {} /\ Pinned \subseteq (Pinned \cup S) \cup {}
        OBVIOUS
      <4> QED
        BY <2>3, <3>1, <3>3, <4>1
    <3>4. CASE attest_failed(Pinned \cup S, {}, {h})
      <4>1. {h} \cap ((Pinned \cup S) \cup {}) = {} /\ Pinned \subseteq (Pinned \cup S) \cup {h}
        BY <3>2
      <4> QED
        BY <2>3, <3>1, <3>4, <4>1
    <3> QED
      BY <2>5, <3>3, <3>4
  <2> QED
    BY <1>4, <2>2, <2>4, <2>5 DEF open_artifacts
<1> QED
  BY <1>3, <1>4

\* One observation of the attestation (observe).
LEMMA ObserveStep ==
  ASSUME PrepInv, NEW h \in Native, NEW before \in SUBSET Retained, NEW next \in Attesting, observe(h, before, next),
         AtWork = before, h \notin before, prep'.pc = next => AtWork' = before \cup {h}
  PROVE  PrepInv'
<1>1. prep \in PrepRecords
  BY DEF PrepInv, PrepTypes
<1>2. prep.pc = h /\ h \in Attesting /\ {h} \in SUBSET Retained /\ before \cup {h} \in SUBSET Retained /\ {} \in SUBSET Retained
  BY HandleSets DEF observe, Native, Attesting
<1>3. CASE prep_opens({h}) /\ prep' = [prep EXCEPT !.pc = next] /\ UNCHANGED closes
  <2>1. prep'.pc = next
    BY <1>1, <1>3 DEF PrepRecords
  <2> QED
    BY <1>2, <1>3, <2>1, AttestGoesOn
<1>6. ASSUME NEW S \in SUBSET Retained, NEW own \in SUBSET Retained, NEW lost \in SUBSET (Retained \ {"ffmpeg"}),
             lost \cap (S \cup own) = {}, before \subseteq S, attest_failed(S, own, lost)
      PROVE  PrepInv'
  BY <1>2, <1>6, AttestFails
<1>7. /\ {} \in SUBSET (Retained \ {"ffmpeg"}) /\ {} \cap (before \cup {}) = {}
      /\ {} \cap ((before \cup {h}) \cup {}) = {} /\ {} \cap (before \cup {h}) = {}
      /\ before \subseteq before \cup {h}
  OBVIOUS
<1>4. CASE attest_failed(before, {}, {})
  BY <1>2, <1>4, <1>6, <1>7
<1>5. CASE attest_failed(before \cup {h}, {}, {})
  BY <1>2, <1>5, <1>6, <1>7
<1>8. CASE attest_failed(before, {h}, {})
  BY <1>2, <1>6, <1>7, <1>8
<1>9. CASE h # "ffmpeg" /\ attest_failed(before, {}, {h})
  <2>1. {h} \in SUBSET (Retained \ {"ffmpeg"}) /\ {h} \cap (before \cup {}) = {}
    BY <1>2, <1>9
  <2> QED
    BY <1>2, <1>6, <1>9, <2>1
<1> QED
  BY <1>3, <1>4, <1>5, <1>8, <1>9 DEF observe

\* Supervisor, camera and FFmpeg (attest_native).
LEMMA NativeSteps ==
  ASSUME PrepInv, attest_native
  PROVE  PrepInv'
<1>1. /\ {"supervisor", "camera", "ffmpeg"} \subseteq Native /\ {"camera", "ffmpeg", "bindings"} \subseteq Attesting
      /\ (Retained \ {"ffmpeg"}) \cup {"ffmpeg"} = Retained
      /\ (Pinned \cup Artifacts \cup {"supervisor"}) \cup {"camera"} = Retained \ {"ffmpeg"}
  BY DEF Native, Attesting, Retained, Pinned, Artifacts
<1>2. /\ Pinned \cup Artifacts \in SUBSET Retained /\ Retained \ {"ffmpeg"} \in SUBSET Retained
      /\ Pinned \cup Artifacts \cup {"supervisor"} \in SUBSET Retained
  BY HandleSets, <1>1
<1>3. CASE observe("supervisor", Pinned \cup Artifacts, "camera")
  <2>1. /\ AtWork = Pinned \cup Artifacts
        /\ prep'.pc = "camera" => AtWork' = Pinned \cup Artifacts \cup {"supervisor"}
    BY <1>3 DEF observe, AtWork
  <2>2. "supervisor" \notin Pinned \cup Artifacts
    BY DEF Pinned, Artifacts
  <2> QED
    BY <1>1, <1>2, <1>3, <2>1, <2>2, ObserveStep
<1>4. CASE observe("camera", Pinned \cup Artifacts \cup {"supervisor"}, "ffmpeg")
  <2>1. /\ AtWork = Pinned \cup Artifacts \cup {"supervisor"}
        /\ prep'.pc = "ffmpeg" => AtWork' = Retained \ {"ffmpeg"}
    BY <1>4 DEF observe, AtWork
  <2>2. "camera" \notin Pinned \cup Artifacts \cup {"supervisor"}
    BY DEF Pinned, Artifacts
  <2> QED
    BY <1>1, <1>2, <1>4, <2>1, <2>2, ObserveStep
<1>5. CASE observe("ffmpeg", Retained \ {"ffmpeg"}, "bindings")
  <2>1. /\ AtWork = Retained \ {"ffmpeg"}
        /\ prep'.pc = "bindings" => AtWork' = Retained
    BY <1>5 DEF observe, AtWork
  <2> QED
    BY <1>1, <1>2, <1>5, <2>1, ObserveStep
<1> QED
  BY <1>3, <1>4, <1>5 DEF attest_native

\* The attestation is made, and handed to the bridge (attest_bindings, transfer_to_bridge).
LEMMA BindingSteps ==
  ASSUME PrepInv, attest_bindings \/ transfer_to_bridge
  PROVE  PrepInv'
<1>1. prep \in PrepRecords /\ Recorded /\ lease \in [LeaseHandles -> {"no", "open", "closed", "stuck"}]
  BY DEF PrepInv, PrepTypes
<1>2. ASSUME prep.pc \in {"bindings", "attested"}, NEW p \in {"attested", "bridge"}, UNCHANGED <<lease, closes>>,
             prep' \in PrepRecords, prep'.pc = p, prep'.boot = prep.boot, prep'.approval = prep.approval,
             prep'.bundle = "live"
      PROVE  PrepInv'
  <2>1. prep.boot = "live" /\ prep.approval /\ prep.pc \in Opening
    BY <1>1, <1>2 DEF Recorded, Opening, PrepPlaces
  <2>2. Kept \cup AtWork = Retained \cup Approval \cup BootPair
    <3>1. prep.pc = "bindings" => AtWork = Retained
      BY DEF AtWork
    <3> QED
      BY <1>2, <3>1, HeldThen
  <2>3. Kept' = Retained \cup Approval \cup BootPair /\ AtWork' = {}
    BY <1>2, <2>1 DEF Kept, AtWork
  <2>4. Recorded' /\ prep'.pc \in Opening \cup {"bridge"}
    BY <1>2, <2>1 DEF Recorded, Opening, PrepPlaces
  <2>5. prep_opens({})
    BY <1>1, <1>2 DEF prep_opens
  <2> QED
    BY <1>2, <2>1, <2>2, <2>3, <2>4, <2>5, PrepOpens
<1>3. CASE attest_bindings
  <2>1. prep.pc = "bindings" /\ prep.pc \in Attesting /\ AtWork = Retained
    BY <1>3 DEF attest_bindings, Attesting, AtWork
  <2>2. CASE /\ prep' = [prep EXCEPT !.pc = "attested", !.attested = "ATTESTED", !.bundle = "live"]
             /\ UNCHANGED <<lease, closes>>
    <3>1. /\ prep' \in PrepRecords /\ prep'.pc = "attested" /\ prep'.boot = prep.boot
          /\ prep'.approval = prep.approval /\ prep'.bundle = "live"
      BY <1>1, <2>2 DEF PrepRecords, PrepPlaces, Outcomes
    <3> QED
      BY <1>2, <2>1, <2>2, <3>1
  <2>3. CASE attest_failed(Retained, {}, {})
    <3>1. /\ Retained \in SUBSET Retained /\ {} \in SUBSET Retained /\ {} \in SUBSET (Retained \ {"ffmpeg"})
          /\ {} \cap (Retained \cup {}) = {} /\ AtWork \subseteq Retained \cup {} \cup {}
      BY <2>1
    <3> QED
      BY <2>1, <2>3, <3>1, AttestFails
  <2> QED
    BY <1>3, <2>2, <2>3 DEF attest_bindings
<1>4. CASE transfer_to_bridge
  <2>1. prep.pc = "attested" /\ prep' = [prep EXCEPT !.pc = "bridge"] /\ UNCHANGED <<lease, closes>>
    BY <1>4 DEF transfer_to_bridge
  <2>2. prep.bundle = "live"
    BY <1>1, <2>1 DEF Recorded
  <2>3. /\ prep' \in PrepRecords /\ prep'.pc = "bridge" /\ prep'.boot = prep.boot
        /\ prep'.approval = prep.approval /\ prep'.bundle = "live"
    BY <1>1, <2>1, <2>2 DEF PrepRecords, PrepPlaces
  <2> QED
    BY <1>2, <2>1, <2>3
<1> QED
  BY <1>3, <1>4

\* The composition closes what it has retained, and the bridge looks at the devices again
\* (abort_preparation, bridge_closes, revalidate_device).
LEMMA CompositionSteps ==
  ASSUME PrepInv, abort_preparation \/ bridge_closes \/ revalidate_device
  PROVE  PrepInv'
<1>1. prep \in PrepRecords /\ Recorded
  BY DEF PrepInv, PrepTypes
<1>2. ASSUME prep.pc \in {"failed", "attest", "attested", "bridge"}, close_retained("CLEAN")
      PROVE  PrepInv'
  <2>1. PICK stuck \in SUBSET Kept :
          /\ prep_closes(Kept, stuck, {})
          /\ prep' = [prep EXCEPT !.pc = "ended", !.boot = "closed", !.bundle = "closed",
                                  !.abort = IF stuck = {} THEN "CLEAN" ELSE "UNCERTAIN"]
    BY <1>2 DEF close_retained, Kept
  <2> DEFINE code == IF stuck = {} THEN "CLEAN" ELSE "UNCERTAIN"
  <2>2. code \in Outcomes /\ (stuck = {} \/ code = "UNCERTAIN")
    BY DEF Outcomes
  <2>3. prep' = [prep EXCEPT !.pc = "ended", !.boot = "closed", !.bundle = "closed", !.abort = code]
    BY <2>1
  <2> HIDE DEF code
  <2>4. /\ prep' \in PrepRecords /\ prep'.pc = "ended" /\ prep'.abort = code /\ prep'.silent = prep.silent
        /\ prep'.a0 = prep.a0 /\ prep'.attested = prep.attested
    BY <1>1, <2>2, <2>3 DEF PrepRecords, PrepPlaces
  <2>5. AtWork = {} /\ prep.pc # "ended"
    BY <1>2, HeldThen
  <2>6. Kept \in SUBSET LeaseHandles
    BY HandleSets DEF Kept
  <2>7. Recorded'
    BY <2>4 DEF Recorded, Opening, PrepPlaces
  <2> QED
    BY <2>1, <2>2, <2>4, <2>5, <2>6, <2>7, PrepClosesAll
<1>3. CASE revalidate_device
  <2>1. prep.pc = "bridge" /\ lease["camera_again"] = "no"
    BY <1>3 DEF revalidate_device
  <2>2. {"camera_again"} \in SUBSET LeaseHandles /\ {} \in SUBSET LeaseHandles
    BY HandleSets
  <2>5. "camera_again" \notin Retained \cup Approval \cup BootPair
    BY DEF Retained, Approval, BootPair, Pinned, Artifacts, Native
  <2>6. Kept = Retained \cup Approval \cup BootPair /\ AtWork = {} /\ prep.pc # "ended" /\ prep.pc \notin Opening
    BY <2>1, HeldThen DEF Opening
  <2>7. closes["camera_again"] = 0
    BY <2>1, <2>2 DEF PrepInv, PrepTypes, Asked
  <2>8. CASE /\ prep_closes({}, {}, {"camera_again"}) /\ UNCHANGED prep
    <3>1. Recorded' /\ prep' \in PrepRecords /\ Losable' = Losable /\ Kept' = Kept /\ AtWork' = AtWork
      BY <1>1, <2>8 DEF Recorded, Losable, Kept, AtWork
    <3>2. {"camera_again"} \subseteq Losable
      BY DEF Losable
    <3>3. (Kept \cup AtWork)' = (Kept \cup AtWork) \ ({} \cup {"camera_again"})
      BY <3>1, <2>5, <2>6
    <3>4. {} \in SUBSET {} /\ {"camera_again"} \cap {} = {} /\ \A h \in {} \cup {"camera_again"} : closes[h] = 0
      BY <2>7
    <3> QED
      BY <2>1, <2>2, <2>6, <2>8, <3>1, <3>2, <3>3, <3>4, PrepCloses
  <2>9. CASE \E stuck \in SUBSET {"camera_again"} :
               /\ prep_closes({"camera_again"}, stuck, {})
               /\ prep' = [prep EXCEPT !.silent = prep.silent \cup {"camera_again"}]
    <3>1. PICK stuck \in SUBSET {"camera_again"} :
            /\ prep_closes({"camera_again"}, stuck, {})
            /\ prep' = [prep EXCEPT !.silent = prep.silent \cup {"camera_again"}]
      BY <2>9
    <3>2. /\ prep' \in PrepRecords /\ prep'.pc = "bridge" /\ prep'.abort = prep.abort
          /\ prep'.silent = prep.silent \cup {"camera_again"}
          /\ prep'.a0 = prep.a0 /\ prep'.attested = prep.attested
          /\ prep'.boot = prep.boot /\ prep'.approval = prep.approval /\ prep'.bundle = prep.bundle
      BY <1>1, <2>1, <2>2, <3>1 DEF PrepRecords, PrepPlaces
    <3>3. Recorded'
      BY <1>1, <2>1, <3>2 DEF Recorded, Opening, PrepPlaces
    <3>4. Kept' = Kept /\ AtWork' = AtWork
      BY <2>1, <3>2 DEF Kept, AtWork
    <3>5. (Kept \cup AtWork)' = (Kept \cup AtWork) \ {"camera_again"}
      BY <3>4, <2>5, <2>6
    <3>6. \A h \in {"camera_again"} : closes[h] = 0
      BY <2>7
    <3>7. \A h \in stuck : h \in prep'.silent
      BY <3>2
    <3> QED
      BY <2>1, <2>2, <2>6, <3>1, <3>2, <3>3, <3>5, <3>6, <3>7, PrepClosesAll
  <2> QED
    BY <1>3, <2>8, <2>9 DEF revalidate_device
<1> QED
  BY <1>2, <1>3 DEF abort_preparation, bridge_closes

\* The preparation begins and goes on in its invariant.
LEMMA PrepSafe == PrepSpec => []PrepInv
<1>1. PrepInit => PrepInv
  <2> SUFFICES ASSUME PrepInit PROVE PrepInv
    OBVIOUS
  <2>1. prep \in PrepRecords
    BY DEF PrepInit, PrepRecords, PrepPlaces, Outcomes
  <2>2. PrepTypes
    BY <2>1 DEF PrepInit, PrepTypes
  <2>3. /\ \A h \in LeaseHandles : lease[h] = "no" /\ closes[h] = 0
        /\ prep.pc = "inspect" /\ prep.boot = "none" /\ ~prep.approval /\ prep.bundle = "none" /\ prep.a0 = "NONE"
    BY DEF PrepInit
  <2>4. Asked /\ StuckTold
    BY <2>3 DEF Asked, StuckTold
  <2>5. Recorded
    BY <2>3 DEF Recorded, Opening, PrepPlaces
  <2>6. Kept = {} /\ AtWork = {}
    BY <2>3 DEF Kept, AtWork
  <2>7. Answered
    BY <2>3, <2>6 DEF Answered
  <2> QED
    BY <2>2, <2>4, <2>5, <2>7 DEF PrepInv
<1>2. PrepInv /\ [PrepNext]_prepVars => PrepInv'
  <2> SUFFICES ASSUME PrepInv, [PrepNext]_prepVars PROVE PrepInv'
    OBVIOUS
  <2>1. CASE PrepNext
    BY <2>1, InspectParent, InspectPair, ApprovalSteps, PinnedSteps, NativeSteps, BindingSteps, CompositionSteps
       DEF PrepNext
  <2>2. CASE UNCHANGED prepVars
    BY <2>2 DEF prepVars, PrepInv, PrepTypes, Asked, Answered, Recorded, StuckTold, Kept, AtWork, Losable
  <2> QED
    BY <2>1, <2>2
<1> QED
  BY <1>1, <1>2, PTL DEF PrepSpec

\* Wherever a preparation stops, no handle it opened is asked to close twice, whoever goes
\* on holds all of them, and at the end every handle was asked but those an exception left
\* in nobody's list; an end reported as clean left none stuck but the ones closed in vain
\* by code that ignores the result (FixedA0Verifier._failed, FixedRP2Verifier._open,
\* D1N2NoStreamAttestor._failed, _close_retained).
THEOREM LeasesAccountedInvariant == PrepSpec => []LeasesAccounted
<1>1. PrepInv => LeasesAccounted
  <2> SUFFICES ASSUME PrepInv PROVE LeasesAccounted
    OBVIOUS
  <2>1. Asked /\ Answered /\ StuckTold
    BY DEF PrepInv
  <2>2. prep.pc \in {"attested", "bridge"} => Kept = Retained \cup Approval \cup BootPair /\ prep.pc # "ended"
    BY HeldThen
  <2>3. prep.pc \in {"attested", "bridge"} => \A h \in BootPair \cup Approval \cup Retained : lease[h] = "open"
    BY <2>1, <2>2, HandleSets DEF Answered
  <2>4. prep.abort = "CLEAN" => prep.abort # "UNCERTAIN"
    OBVIOUS
  <2> QED
    BY <2>1, <2>3, <2>4 DEF LeasesAccounted, Asked, Answered, StuckTold
<1> QED
  BY PrepSafe, <1>1, PTL


-----------------------------------------------------------------------------
(* The authority of a camera attempt. *)


Fields == {"ctl", "pc", "op", "out", "state", "live", "raw", "expired", "used", "retained",
           "driver", "cleanOk", "stuck"}

InsideMutation  == {"inspect", "write", "post", "finish"}
Mutating == {"begin", "after"} \cup InsideMutation

\* What the memory of a supervisor and the leaves may be.
ChainTypeOK ==
  /\ DOMAIN leaf = Leaves
  /\ DOMAIN sup = Supervisors
  /\ \A p \in Supervisors : /\ DOMAIN sup[p] = Fields
                            /\ sup[p].op \in Ops
                            /\ sup[p].used \in BOOLEAN /\ sup[p].stuck \in BOOLEAN

\* Supervisor p's record was written exactly, and it was its last word so far.
Wrote(p) == sup[p].pc = "post" \/ (sup[p].pc \in {"finish", "after"} /\ sup[p].out = "OK")

\* The mutex is owned by whoever is inside a mutation, or could not release it.
Excluded(p) == sup[p].pc \in InsideMutation \/ sup[p].stuck => mutex = p

\* A mutation that is under way has not failed yet; while it writes, the leaf is torn;
\* once it wrote, its record and the records it required are there.
Writing(p) ==
  /\ sup[p].pc \in {"begin", "inspect", "write", "post"} => sup[p].out = "OK"
  /\ sup[p].pc = "write" => leaf[Target(sup[p].op)] = Torn
  /\ Wrote(p) => leaf[Target(sup[p].op)] = Result(sup[p].op, p)
  /\ Wrote(p) \/ sup[p].pc = "write" => Required(sup[p].op, p)

\* An attempt is over once and for all; it starts with nothing.
Phases(p) ==
  /\ Ended(p) => sup[p].pc = "idle" /\ sup[p].retained # "held" /\ sup[p].raw = "none"
  /\ sup[p].ctl \in {"UNINITIALIZED", "PREPARED_WAITING_A1"} => sup[p].pc = "idle"
  /\ sup[p].ctl = "UNINITIALIZED" => sup[p].retained = "none"
  /\ sup[p].raw # "none" => sup[p].pc \in {"authorize", "driver"}
  /\ sup[p].driver = "running" => sup[p].pc = "driver"

\* Whoever may start, or started, the driver holds the authority.
Launched(p) ==
  /\ sup[p].pc \in {"authorize", "driver"} => /\ leaf["PREPARED"] = Rec("CONSUMED", p)
                                              /\ leaf["GRANT"] = Rec("ISSUED", p)
  /\ sup[p].used => leaf["PREPARED"] = Rec("CONSUMED", p) /\ leaf["GRANT"] # Absent

\* Only the supervisor that consumed the authority writes the terminal record, once, and
\* after a completed driver and a clean close.
Terminated(p) ==
  /\ sup[p].pc \in Mutating /\ sup[p].op = "TERMINALIZE" =>
       sup[p].driver = "COMPLETED" /\ sup[p].retained = "clean"
  /\ sup[p].pc \in {"finish", "after"} /\ sup[p].op = "TERMINALIZE" => sup[p].out # "TERMINAL_ALREADY_PRESENT"
  /\ leaf["TERMINAL"] # Absent /\ leaf["PREPARED"] = Rec("CONSUMED", p) =>
       Ended(p) \/ (sup[p].op = "TERMINALIZE" /\ sup[p].pc \in {"write", "post", "finish", "after"})
  /\ sup[p].ctl = "TERMINAL" =>
       /\ leaf["PREPARED"] = Rec("CONSUMED", p) /\ leaf["GRANT"] = Rec("REVOKED", p)
       /\ leaf["TERMINAL"] = Rec("TERMINAL", p)
       /\ sup[p].driver = "COMPLETED" /\ sup[p].retained = "clean"

ChainInv ==
  /\ ChainTypeOK
  /\ leaf["TERMINAL"] # Absent => \E q \in Supervisors : leaf["PREPARED"] = Rec("CONSUMED", q)
  /\ \A p \in Supervisors :
       Excluded(p) /\ Writing(p) /\ Phases(p) /\ Launched(p) /\ Terminated(p)

-----------------------------------------------------------------------------
\* Records are told apart by their kind and their author (a digest chains them in the code).
LEMMA Records ==
  ASSUME NEW p, NEW q, NEW k, NEW j
  PROVE  /\ Rec(k, p) = Rec(j, q) <=> k = j /\ p = q
         /\ Rec(k, p) # Torn /\ Rec(k, p) # Absent /\ Torn # Absent
         /\ Rec(k, p).kind = k /\ Rec(k, p).by = p
<1> DEFINE r == Rec(k, p)
           s == Rec(j, q)
<1>1. /\ DOMAIN r = {"kind", "by"} /\ r.kind = k /\ r.by = p
      /\ DOMAIN s = {"kind", "by"} /\ s.kind = j /\ s.by = q
  BY DEF Rec
<1>2. DOMAIN Torn = {"kind"} /\ DOMAIN Absent = {"kind"} /\ Torn.kind = "TORN" /\ Absent.kind = "ABSENT"
  BY DEF Torn, Absent
<1>3. k = j /\ p = q => r = s
  OBVIOUS
<1> HIDE DEF r, s
<1>4. "by" \notin DOMAIN Torn /\ "by" \notin DOMAIN Absent /\ "by" \in DOMAIN r
  BY <1>1, <1>2
<1> QED
  BY <1>1, <1>2, <1>3, <1>4 DEF r, s

\* Which leaf an operation writes, what it expects there and what it leaves.
LEMMA Operations ==
  ASSUME NEW p
  PROVE  /\ \A op \in Ops : Target(op) \in Leaves
         /\ Target("PENDING") = "PREPARED" /\ Target("PREPARE") = "PREPARED" /\ Target("CONSUME") = "PREPARED"
         /\ Target("ISSUE_GRANT") = "GRANT" /\ Target("REVOKE_GRANT") = "GRANT"
         /\ Target("TERMINALIZE") = "TERMINAL"
         /\ Prior("PENDING", p) = Absent /\ Prior("PREPARE", p) = Rec("PENDING", p)
         /\ Prior("CONSUME", p) = Rec("PREPARED", p) /\ Prior("ISSUE_GRANT", p) = Absent
         /\ Prior("REVOKE_GRANT", p) = Rec("ISSUED", p) /\ Prior("TERMINALIZE", p) = Absent
         /\ Result("PENDING", p) = Rec("PENDING", p) /\ Result("PREPARE", p) = Rec("PREPARED", p)
         /\ Result("CONSUME", p) = Rec("CONSUMED", p) /\ Result("ISSUE_GRANT", p) = Rec("ISSUED", p)
         /\ Result("REVOKE_GRANT", p) = Rec("REVOKED", p) /\ Result("TERMINALIZE", p) = Rec("TERMINAL", p)
         /\ Required("PENDING", p) /\ Required("PREPARE", p) /\ Required("CONSUME", p) /\ Required("REVOKE_GRANT", p)
         /\ Required("ISSUE_GRANT", p) <=> leaf["PREPARED"] = Rec("CONSUMED", p)
         /\ Required("TERMINALIZE", p) <=> leaf["PREPARED"] = Rec("CONSUMED", p) /\ leaf["GRANT"] = Rec("REVOKED", p)
<1>1. \A op \in Ops : Target(op) \in Leaves
  BY DEF Ops, Target, Leaves
<1>2. /\ Target("PENDING") = "PREPARED" /\ Target("PREPARE") = "PREPARED" /\ Target("CONSUME") = "PREPARED"
      /\ Target("ISSUE_GRANT") = "GRANT" /\ Target("REVOKE_GRANT") = "GRANT" /\ Target("TERMINALIZE") = "TERMINAL"
  BY DEF Target
<1>3. /\ Prior("PENDING", p) = Absent /\ Prior("PREPARE", p) = Rec("PENDING", p)
      /\ Prior("CONSUME", p) = Rec("PREPARED", p) /\ Prior("ISSUE_GRANT", p) = Absent
      /\ Prior("REVOKE_GRANT", p) = Rec("ISSUED", p) /\ Prior("TERMINALIZE", p) = Absent
  BY DEF Prior
<1>4. /\ Result("PENDING", p) = Rec("PENDING", p) /\ Result("PREPARE", p) = Rec("PREPARED", p)
      /\ Result("CONSUME", p) = Rec("CONSUMED", p) /\ Result("ISSUE_GRANT", p) = Rec("ISSUED", p)
      /\ Result("REVOKE_GRANT", p) = Rec("REVOKED", p) /\ Result("TERMINALIZE", p) = Rec("TERMINAL", p)
  BY DEF Result
<1>5. /\ Required("PENDING", p) /\ Required("PREPARE", p) /\ Required("CONSUME", p) /\ Required("REVOKE_GRANT", p)
      /\ Required("ISSUE_GRANT", p) <=> leaf["PREPARED"] = Rec("CONSUMED", p)
      /\ Required("TERMINALIZE", p) <=> leaf["PREPARED"] = Rec("CONSUMED", p) /\ leaf["GRANT"] = Rec("REVOKED", p)
  BY DEF Required
<1> QED
  BY <1>1, <1>2, <1>3, <1>4, <1>5

\* What Set does to the fields of a supervisor's memory.
LEMMA SetField ==
  ASSUME NEW p \in Supervisors, NEW f, Set(p, f), ChainTypeOK, DOMAIN f \subseteq Fields
  PROVE  /\ DOMAIN sup' = Supervisors
         /\ \A q \in Supervisors \ {p} : sup'[q] = sup[q]
         /\ DOMAIN sup'[p] = Fields
         /\ \A x \in DOMAIN f : sup'[p][x] = f[x]
         /\ \A x \in Fields \ DOMAIN f : sup'[p][x] = sup[p][x]
<1>1. DOMAIN sup = Supervisors /\ DOMAIN sup[p] = Fields
  BY DEF ChainTypeOK
<1>2. sup'[p] = Over(f, sup[p])
  BY <1>1 DEF Set
<1>3. DOMAIN sup' = Supervisors /\ \A q \in Supervisors \ {p} : sup'[q] = sup[q]
  BY <1>1 DEF Set
<1> QED
  BY <1>1, <1>2, <1>3 DEF Over

\* A step of supervisor p that writes no leaf keeps what holds of the others.
LEMMA MemoryStep ==
  ASSUME ChainInv, NEW p \in Supervisors, UNCHANGED leaf,
         DOMAIN sup' = Supervisors, \A q \in Supervisors \ {p} : sup'[q] = sup[q],
         \A q \in Supervisors \ {p} : mutex = q => mutex' = q,
         DOMAIN sup'[p] = Fields, sup'[p].op \in Ops, sup'[p].used \in BOOLEAN, sup'[p].stuck \in BOOLEAN,
         Excluded(p)', Writing(p)', Phases(p)', Launched(p)', Terminated(p)'
  PROVE  ChainInv'
<1>1. ChainTypeOK'
  BY DEF ChainInv, ChainTypeOK
<1>2. leaf'["TERMINAL"] # Absent => \E q \in Supervisors : leaf'["PREPARED"] = Rec("CONSUMED", q)
  BY DEF ChainInv
<1>3. ASSUME NEW q \in Supervisors \ {p}
      PROVE  (Excluded(q) /\ Writing(q) /\ Phases(q) /\ Launched(q) /\ Terminated(q))'
  <2>1. sup'[q] = sup[q] /\ Excluded(q) /\ Writing(q) /\ Phases(q) /\ Launched(q) /\ Terminated(q)
    BY <1>3 DEF ChainInv
  <2>2. Excluded(q)'
    BY <1>3, <2>1 DEF Excluded
  <2>3. Required(sup[q].op, q)' <=> Required(sup[q].op, q)
    BY <2>1 DEF Required
  <2>4. Writing(q)'
    BY <2>1, <2>3 DEF Writing, Wrote, Required
  <2>5. Phases(q)' /\ Launched(q)' /\ Terminated(q)'
    BY <2>1 DEF Phases, Launched, Terminated, Ended
  <2> QED
    BY <2>2, <2>4, <2>5
<1> QED
  BY <1>1, <1>2, <1>3 DEF ChainInv

\* A step that leaves p outside every mutation, or about to begin one, with no capability.
LEMMA Outside ==
  ASSUME ChainInv, NEW p \in Supervisors, UNCHANGED leaf,
         DOMAIN sup' = Supervisors, \A q \in Supervisors \ {p} : sup'[q] = sup[q],
         \A q \in Supervisors : mutex = q => mutex' = q,
         DOMAIN sup'[p] = Fields, sup'[p].op \in Ops,
         sup'[p].used = sup[p].used, sup'[p].stuck = sup[p].stuck,
         sup'[p].pc \in {"idle", "load", "revalidate", "consume", "close", "begin"},
         sup'[p].pc = "begin" =>
           sup'[p].out = "OK" /\ (sup'[p].op = "TERMINALIZE" => sup'[p].driver = "COMPLETED" /\ sup'[p].retained = "clean"),
         sup'[p].raw = "none", sup'[p].driver # "running",
         sup'[p].ctl \notin {"UNINITIALIZED", "TERMINAL"},
         Ended(p)' => sup'[p].pc = "idle" /\ sup'[p].retained # "held",
         sup'[p].ctl = "PREPARED_WAITING_A1" => sup'[p].pc = "idle",
         Ended(p)' \/ (~ Ended(p) /\ (sup[p].op # "TERMINALIZE" \/ sup[p].pc \notin {"write", "post", "finish", "after"}))
  PROVE  ChainInv'
<1>0. /\ sup[p].used \in BOOLEAN /\ sup[p].stuck \in BOOLEAN
      /\ Excluded(p) /\ Writing(p) /\ Phases(p) /\ Launched(p) /\ Terminated(p)
  BY DEF ChainInv, ChainTypeOK
<1>1. Excluded(p)'
  BY <1>0 DEF Excluded, InsideMutation
<1>2. Writing(p)'
  BY DEF Writing, Wrote
<1>3. Phases(p)'
  BY DEF Phases
<1>4. Launched(p)'
  BY <1>0 DEF Launched
<1>5. Terminated(p)'
  BY <1>0 DEF Terminated, Mutating, InsideMutation
<1> QED
  BY <1>0, <1>1, <1>2, <1>3, <1>4, <1>5, MemoryStep

\* prepare_d1_n2, run_d1_n2_preflight, the opening of the composition and what the
\* controller and the bridge do outside the mutex, up to the terminal record.
LEMMA BridgeSteps ==
  ASSUME ChainInv, NEW p \in Supervisors,
         \/ prepare(p) \/ run(p) \/ load(p) \/ after_prepare(p) \/ revalidate_for_run(p) \/ consume(p)
         \/ after_consume(p) \/ after_revoke(p) \/ close_retained_for_terminal(p)
  PROVE  ChainInv'
<1>0. /\ ChainTypeOK /\ DOMAIN sup = Supervisors /\ DOMAIN sup[p] = Fields /\ sup[p].op \in Ops
      /\ Excluded(p) /\ Writing(p) /\ Phases(p) /\ Launched(p) /\ Terminated(p)
  BY DEF ChainInv, ChainTypeOK
<1>a. Ops = {"PENDING", "PREPARE", "CONSUME", "ISSUE_GRANT", "REVOKE_GRANT", "TERMINALIZE"}
  BY DEF Ops
<1>b. ASSUME NEW f, abort_pre_bridge(p, f), UNCHANGED leaf, \A q \in Supervisors : mutex = q => mutex' = q,
             DOMAIN f \subseteq {"state", "live"}, sup[p].raw = "none", sup[p].driver # "running"
      PROVE  ChainInv'
  <2>1. PICK kept : /\ kept # "held"
                    /\ Set(p, Over([ctl |-> "FAILED_NONLAUNCHABLE", pc |-> "idle", retained |-> kept], f))
    BY <1>b DEF abort_pre_bridge
  <2> DEFINE g == Over([ctl |-> "FAILED_NONLAUNCHABLE", pc |-> "idle", retained |-> kept], f)
  <2>2. DOMAIN g = {"ctl", "pc", "retained"} \cup DOMAIN f
    BY DEF Over
  <2>3. g["ctl"] = "FAILED_NONLAUNCHABLE" /\ g["pc"] = "idle" /\ g["retained"] = kept
    BY DEF Over
  <2>4. Set(p, g)
    BY <2>1
  <2> HIDE DEF g
  <2>5. DOMAIN g \subseteq Fields
    BY <1>b, <2>2 DEF Fields
  <2>6. /\ DOMAIN sup' = Supervisors /\ DOMAIN sup'[p] = Fields
        /\ \A q \in Supervisors \ {p} : sup'[q] = sup[q]
        /\ \A x \in DOMAIN g : sup'[p][x] = g[x]
        /\ \A x \in Fields \ DOMAIN g : sup'[p][x] = sup[p][x]
    BY <1>0, <2>4, <2>5, SetField
  <2>7. /\ sup'[p].ctl = "FAILED_NONLAUNCHABLE" /\ sup'[p].pc = "idle" /\ sup'[p].retained = kept
        /\ sup'[p].op = sup[p].op /\ sup'[p].used = sup[p].used /\ sup'[p].stuck = sup[p].stuck
        /\ sup'[p].raw = sup[p].raw /\ sup'[p].driver = sup[p].driver
    BY <1>b, <2>2, <2>3, <2>6 DEF Fields
  <2> QED
    BY <1>0, <1>b, <2>1, <2>6, <2>7, Outside DEF Ended
<1>1. CASE prepare(p)
  <2>1. Set(p, [ctl |-> "PREPARING", pc |-> "load"]) /\ UNCHANGED <<leaf, mutex>> /\ sup[p].ctl = "UNINITIALIZED"
    BY <1>1 DEF prepare
  <2>2. /\ DOMAIN sup' = Supervisors /\ DOMAIN sup'[p] = Fields
        /\ \A q \in Supervisors \ {p} : sup'[q] = sup[q]
        /\ sup'[p].ctl = "PREPARING" /\ sup'[p].pc = "load" /\ sup'[p].op = sup[p].op
        /\ sup'[p].used = sup[p].used /\ sup'[p].stuck = sup[p].stuck
        /\ sup'[p].raw = sup[p].raw /\ sup'[p].driver = sup[p].driver /\ sup'[p].retained = sup[p].retained
    BY <1>0, <2>1, SetField DEF Fields
  <2> QED
    BY <1>0, <2>1, <2>2, Outside DEF Ended, Phases
<1>2. CASE run(p)
  <2>0. /\ UNCHANGED <<leaf, mutex>> /\ sup[p].pc = "idle"
        /\ sup[p].ctl = "UNINITIALIZED" => sup[p].retained = "none"
        /\ sup[p].raw = "none" /\ sup[p].driver # "running"
    BY <1>0, <1>2 DEF run, Phases
  <2>1. CASE sup[p].ctl = "UNINITIALIZED" /\ Set(p, [ctl |-> "FAILED_NONLAUNCHABLE"])
    <3>1. /\ DOMAIN sup' = Supervisors /\ DOMAIN sup'[p] = Fields
          /\ \A q \in Supervisors \ {p} : sup'[q] = sup[q]
          /\ sup'[p].ctl = "FAILED_NONLAUNCHABLE" /\ sup'[p].pc = sup[p].pc /\ sup'[p].op = sup[p].op
          /\ sup'[p].used = sup[p].used /\ sup'[p].stuck = sup[p].stuck
          /\ sup'[p].raw = sup[p].raw /\ sup'[p].driver = sup[p].driver /\ sup'[p].retained = sup[p].retained
      BY <1>0, <2>1, SetField DEF Fields
    <3> QED
      BY <1>0, <2>0, <2>1, <3>1, Outside DEF Ended
  <2>2. CASE sup[p].ctl = "PREPARED_WAITING_A1" /\ Set(p, [ctl |-> "CONSUMED", pc |-> "revalidate"])
    <3>1. /\ DOMAIN sup' = Supervisors /\ DOMAIN sup'[p] = Fields
          /\ \A q \in Supervisors \ {p} : sup'[q] = sup[q]
          /\ sup'[p].ctl = "CONSUMED" /\ sup'[p].pc = "revalidate" /\ sup'[p].op = sup[p].op
          /\ sup'[p].used = sup[p].used /\ sup'[p].stuck = sup[p].stuck
          /\ sup'[p].raw = sup[p].raw /\ sup'[p].driver = sup[p].driver
      BY <1>0, <2>2, SetField DEF Fields
    <3> QED
      BY <1>0, <2>0, <2>2, <3>1, Outside DEF Ended
  <2> QED
    BY <1>2, <2>1, <2>2 DEF run
<1>c. sup[p].pc \notin {"idle", "authorize", "driver"} =>
        /\ sup[p].ctl \notin {"UNINITIALIZED", "PREPARED_WAITING_A1"} /\ ~ Ended(p)
        /\ sup[p].raw = "none" /\ sup[p].driver # "running"
  BY <1>0 DEF Phases
<1>3. CASE load(p)
  <2>0. sup[p].pc = "load" /\ UNCHANGED leaf /\ \A q \in Supervisors : mutex = q => mutex' = q
    BY <1>3, ChainAssumption DEF load
  <2>1. CASE \E found : Set(p, [state |-> found, pc |-> "begin", op |-> "PENDING", out |-> "OK"])
    <3>1. PICK found : Set(p, [state |-> found, pc |-> "begin", op |-> "PENDING", out |-> "OK"])
      BY <2>1
    <3>2. /\ DOMAIN sup' = Supervisors /\ DOMAIN sup'[p] = Fields
          /\ \A q \in Supervisors \ {p} : sup'[q] = sup[q]
          /\ sup'[p].ctl = sup[p].ctl /\ sup'[p].pc = "begin" /\ sup'[p].op = "PENDING" /\ sup'[p].out = "OK"
          /\ sup'[p].used = sup[p].used /\ sup'[p].stuck = sup[p].stuck
          /\ sup'[p].raw = sup[p].raw /\ sup'[p].driver = sup[p].driver
      BY <1>0, <3>1, SetField DEF Fields
    <3> QED
      BY <1>0, <1>a, <1>c, <2>0, <3>2, Outside DEF Ended
  <2>2. CASE \E found : abort_pre_bridge(p, [state |-> found])
    <3>1. PICK found : abort_pre_bridge(p, [state |-> found])
      BY <2>2
    <3> DEFINE f == [state |-> found]
    <3>2. abort_pre_bridge(p, f) /\ DOMAIN f \subseteq {"state", "live"}
      BY <3>1
    <3> HIDE DEF f
    <3> QED
      BY <1>b, <1>c, <2>0, <3>2
  <2> QED
    BY <1>3, <2>1, <2>2 DEF load
<1>4. CASE after_prepare(p)
  <2>0. sup[p].pc = "after" /\ sup[p].op # "TERMINALIZE" /\ UNCHANGED <<leaf, mutex>>
    BY <1>4 DEF after_prepare
  <2>1. CASE Set(p, [pc |-> "idle", ctl |-> "PREPARED_WAITING_A1", live |-> "prepared"])
    <3>2. /\ DOMAIN sup' = Supervisors /\ DOMAIN sup'[p] = Fields
          /\ \A q \in Supervisors \ {p} : sup'[q] = sup[q]
          /\ sup'[p].ctl = "PREPARED_WAITING_A1" /\ sup'[p].pc = "idle" /\ sup'[p].op = sup[p].op
          /\ sup'[p].used = sup[p].used /\ sup'[p].stuck = sup[p].stuck
          /\ sup'[p].raw = sup[p].raw /\ sup'[p].driver = sup[p].driver
      BY <1>0, <2>1, SetField DEF Fields
    <3> QED
      BY <1>0, <1>c, <2>0, <3>2, Outside DEF Ended
  <2>2. CASE \E kept : abort_pre_bridge(p, [live |-> kept])
    <3>1. PICK kept : abort_pre_bridge(p, [live |-> kept])
      BY <2>2
    <3> DEFINE f == [live |-> kept]
    <3>2. abort_pre_bridge(p, f) /\ DOMAIN f \subseteq {"state", "live"}
      BY <3>1
    <3> HIDE DEF f
    <3> QED
      BY <1>b, <1>c, <2>0, <3>2
  <2> QED
    BY <1>4, <2>1, <2>2 DEF after_prepare
<1>d. ASSUME NEW f, Set(p, f), DOMAIN f \subseteq {"pc", "live", "state", "cleanOk"}, UNCHANGED <<leaf, mutex>>,
             "pc" \in DOMAIN f, f["pc"] \in {"consume", "close"},
             sup[p].pc \notin {"idle", "authorize", "driver"}, sup[p].op # "TERMINALIZE" \/ sup[p].pc # "after",
             sup[p].pc \notin {"write", "post", "finish"}
      PROVE  ChainInv'
  <2>1. DOMAIN f \subseteq Fields
    BY <1>d DEF Fields
  <2>2. /\ DOMAIN sup' = Supervisors /\ DOMAIN sup'[p] = Fields
        /\ \A q \in Supervisors \ {p} : sup'[q] = sup[q]
        /\ \A x \in DOMAIN f : sup'[p][x] = f[x]
        /\ \A x \in Fields \ DOMAIN f : sup'[p][x] = sup[p][x]
    BY <1>0, <1>d, <2>1, SetField
  <2>3. /\ sup'[p].ctl = sup[p].ctl /\ sup'[p].pc \in {"consume", "close"} /\ sup'[p].op = sup[p].op
        /\ sup'[p].used = sup[p].used /\ sup'[p].stuck = sup[p].stuck
        /\ sup'[p].raw = sup[p].raw /\ sup'[p].driver = sup[p].driver
    BY <1>d, <2>2 DEF Fields
  <2> QED
    BY <1>0, <1>c, <1>d, <2>2, <2>3, Outside DEF Ended
<1>5. CASE revalidate_for_run(p)
  <2>1. PICK to \in {"consume", "close"} : Set(p, [pc |-> to])
    BY <1>5 DEF revalidate_for_run
  <2> DEFINE f == [pc |-> to]
  <2>2. Set(p, f) /\ DOMAIN f = {"pc"} /\ f["pc"] \in {"consume", "close"}
    BY <2>1
  <2> HIDE DEF f
  <2> QED
    BY <1>5, <1>d, <2>2 DEF revalidate_for_run
<1>6. CASE consume(p)
  <2>0. sup[p].pc = "consume" /\ UNCHANGED <<leaf, mutex>>
    BY <1>6 DEF consume
  <2>1. CASE Set(p, [pc |-> "begin", op |-> "CONSUME", out |-> "OK"])
    <3>2. /\ DOMAIN sup' = Supervisors /\ DOMAIN sup'[p] = Fields
          /\ \A q \in Supervisors \ {p} : sup'[q] = sup[q]
          /\ sup'[p].ctl = sup[p].ctl /\ sup'[p].pc = "begin" /\ sup'[p].op = "CONSUME" /\ sup'[p].out = "OK"
          /\ sup'[p].used = sup[p].used /\ sup'[p].stuck = sup[p].stuck
          /\ sup'[p].raw = sup[p].raw /\ sup'[p].driver = sup[p].driver
      BY <1>0, <2>1, SetField DEF Fields
    <3> QED
      BY <1>0, <1>a, <1>c, <2>0, <3>2, Outside DEF Ended
  <2>2. CASE Set(p, [pc |-> "close", live |-> "none", state |-> "STALE_PREPARED"])
    <3> DEFINE f == [pc |-> "close", live |-> "none", state |-> "STALE_PREPARED"]
    <3>1. Set(p, f) /\ DOMAIN f = {"pc", "live", "state"} /\ f["pc"] = "close"
      BY <2>2
    <3> HIDE DEF f
    <3> QED
      BY <1>d, <2>0, <3>1
  <2> QED
    BY <1>6, <2>1, <2>2 DEF consume
<1>7. CASE after_consume(p)
  <2>0. sup[p].pc = "after" /\ sup[p].op = "CONSUME" /\ UNCHANGED <<leaf, mutex>>
    BY <1>7 DEF after_consume
  <2>1. CASE sup[p].out = "OK" /\ Set(p, [pc |-> "begin", op |-> "ISSUE_GRANT", live |-> "consumed"])
    <3>2. /\ DOMAIN sup' = Supervisors /\ DOMAIN sup'[p] = Fields
          /\ \A q \in Supervisors \ {p} : sup'[q] = sup[q]
          /\ sup'[p].ctl = sup[p].ctl /\ sup'[p].pc = "begin" /\ sup'[p].op = "ISSUE_GRANT" /\ sup'[p].out = "OK"
          /\ sup'[p].used = sup[p].used /\ sup'[p].stuck = sup[p].stuck
          /\ sup'[p].raw = sup[p].raw /\ sup'[p].driver = sup[p].driver
      BY <1>0, <2>1, SetField DEF Fields
    <3> QED
      BY <1>0, <1>a, <1>c, <2>0, <3>2, Outside DEF Ended
  <2>2. CASE Set(p, [pc |-> "close"])
    <3> DEFINE f == [pc |-> "close"]
    <3>1. Set(p, f) /\ DOMAIN f = {"pc"} /\ f["pc"] = "close"
      BY <2>2
    <3> HIDE DEF f
    <3> QED
      BY <1>d, <2>0, <3>1
  <2> QED
    BY <1>7, <2>1, <2>2 DEF after_consume
<1>8. CASE after_revoke(p)
  <2>0. sup[p].pc = "after" /\ sup[p].op = "REVOKE_GRANT" /\ UNCHANGED <<leaf, mutex>>
    BY <1>8 DEF after_revoke
  <2>1. PICK ok : Set(p, [pc |-> "close", cleanOk |-> ok])
    BY <1>8 DEF after_revoke
  <2> DEFINE f == [pc |-> "close", cleanOk |-> ok]
  <2>2. Set(p, f) /\ DOMAIN f = {"pc", "cleanOk"} /\ f["pc"] = "close"
    BY <2>1
  <2> HIDE DEF f
  <2> QED
    BY <1>d, <2>0, <2>2
<1>9. CASE close_retained_for_terminal(p)
  <2>0. sup[p].pc = "close" /\ UNCHANGED <<leaf, mutex>>
    BY <1>9 DEF close_retained_for_terminal
  <2>1. CASE sup[p].driver = "COMPLETED" /\
             Set(p, [retained |-> "clean", pc |-> "begin", op |-> "TERMINALIZE", out |-> "OK"])
    <3>2. /\ DOMAIN sup' = Supervisors /\ DOMAIN sup'[p] = Fields
          /\ \A q \in Supervisors \ {p} : sup'[q] = sup[q]
          /\ sup'[p].ctl = sup[p].ctl /\ sup'[p].pc = "begin" /\ sup'[p].op = "TERMINALIZE" /\ sup'[p].out = "OK"
          /\ sup'[p].used = sup[p].used /\ sup'[p].stuck = sup[p].stuck /\ sup'[p].retained = "clean"
          /\ sup'[p].raw = sup[p].raw /\ sup'[p].driver = "COMPLETED"
      BY <1>0, <2>1, SetField DEF Fields
    <3> QED
      BY <1>0, <1>a, <1>c, <2>0, <3>2, Outside DEF Ended
  <2>2. CASE \E kept \in {"clean", "unclean"} :
               Set(p, [retained |-> kept, ctl |-> "FAILED_NONLAUNCHABLE", pc |-> "idle"])
    <3>1. PICK kept \in {"clean", "unclean"} :
               Set(p, [retained |-> kept, ctl |-> "FAILED_NONLAUNCHABLE", pc |-> "idle"])
      BY <2>2
    <3>2. /\ DOMAIN sup' = Supervisors /\ DOMAIN sup'[p] = Fields
          /\ \A q \in Supervisors \ {p} : sup'[q] = sup[q]
          /\ sup'[p].ctl = "FAILED_NONLAUNCHABLE" /\ sup'[p].pc = "idle" /\ sup'[p].op = sup[p].op
          /\ sup'[p].used = sup[p].used /\ sup'[p].stuck = sup[p].stuck /\ sup'[p].retained = kept
          /\ sup'[p].raw = sup[p].raw /\ sup'[p].driver = sup[p].driver
      BY <1>0, <3>1, SetField DEF Fields
    <3>3. kept # "held"
      OBVIOUS
    <3> QED
      BY <1>0, <1>c, <2>0, <3>2, <3>3, Outside DEF Ended
  <2> QED
    BY <1>9, <2>1, <2>2 DEF close_retained_for_terminal
<1> QED
  BY <1>1, <1>2, <1>3, <1>4, <1>5, <1>6, <1>7, <1>8, <1>9

\* issue_grant, authorize_grant, the driver, the grant's deadline and the end of the bridge.
LEMMA GrantSteps ==
  ASSUME ChainInv, NEW p \in Supervisors,
         after_issue(p) \/ authorize_grant(p) \/ driver_returns(p) \/ expire(p) \/ after_terminalize(p)
  PROVE  ChainInv'
<1>0. /\ ChainTypeOK /\ DOMAIN sup = Supervisors /\ DOMAIN sup[p] = Fields /\ sup[p].op \in Ops
      /\ sup[p].used \in BOOLEAN /\ sup[p].stuck \in BOOLEAN
      /\ Excluded(p) /\ Writing(p) /\ Phases(p) /\ Launched(p) /\ Terminated(p)
  BY DEF ChainInv, ChainTypeOK
<1>a. UNCHANGED <<leaf, mutex>>
  BY DEF after_issue, authorize_grant, driver_returns, expire, after_terminalize
<1>b. sup[p].pc # "idle" => ~ Ended(p) /\ sup[p].ctl \notin {"UNINITIALIZED", "PREPARED_WAITING_A1"}
  BY <1>0 DEF Phases
<1>c. "REVOKE_GRANT" \in Ops
  BY DEF Ops
<1>1. CASE after_issue(p)
  <2>0. sup[p].pc = "after" /\ sup[p].op = "ISSUE_GRANT"
    BY <1>1 DEF after_issue
  <2>a. sup[p].raw = "none" /\ sup[p].driver # "running"
    BY <1>0, <2>0 DEF Phases
  <2>1. CASE sup[p].out = "OK" /\ Set(p, [pc |-> "authorize", raw |-> "held"])
    <3>1. /\ DOMAIN sup' = Supervisors /\ DOMAIN sup'[p] = Fields
          /\ \A q \in Supervisors \ {p} : sup'[q] = sup[q]
          /\ sup'[p].ctl = sup[p].ctl /\ sup'[p].pc = "authorize" /\ sup'[p].op = sup[p].op
          /\ sup'[p].used = sup[p].used /\ sup'[p].stuck = sup[p].stuck
          /\ sup'[p].retained = sup[p].retained /\ sup'[p].driver = sup[p].driver
      BY <1>0, <2>1, SetField DEF Fields
    <3>2. leaf["GRANT"] = Rec("ISSUED", p) /\ leaf["PREPARED"] = Rec("CONSUMED", p)
      BY <1>0, <2>0, <2>1, Operations DEF Writing, Wrote
    <3>3. Excluded(p)'
      BY <1>0, <1>a, <3>1 DEF Excluded, InsideMutation
    <3>4. Writing(p)'
      BY <3>1 DEF Writing, Wrote
    <3>5. Phases(p)'
      BY <1>0, <1>b, <2>0, <2>a, <3>1 DEF Phases, Ended
    <3>6. Launched(p)'
      BY <1>0, <1>a, <3>1, <3>2 DEF Launched
    <3>7. Terminated(p)'
      BY <1>0, <1>a, <1>b, <2>0, <3>1 DEF Terminated, Ended, Mutating, InsideMutation
    <3> QED
      BY <1>0, <1>a, <3>1, <3>3, <3>4, <3>5, <3>6, <3>7, MemoryStep
  <2>2. CASE Set(p, [pc |-> "begin", op |-> "REVOKE_GRANT", out |-> "OK"])
    <3>2. /\ DOMAIN sup' = Supervisors /\ DOMAIN sup'[p] = Fields
          /\ \A q \in Supervisors \ {p} : sup'[q] = sup[q]
          /\ sup'[p].ctl = sup[p].ctl /\ sup'[p].pc = "begin" /\ sup'[p].op = "REVOKE_GRANT" /\ sup'[p].out = "OK"
          /\ sup'[p].used = sup[p].used /\ sup'[p].stuck = sup[p].stuck
          /\ sup'[p].raw = sup[p].raw /\ sup'[p].driver = sup[p].driver
      BY <1>0, <2>2, SetField DEF Fields
    <3> QED
      BY <1>0, <1>a, <1>b, <1>c, <2>0, <2>a, <3>2, Outside DEF Ended
  <2>3. CASE Set(p, [pc |-> "close"])
    <3>2. /\ DOMAIN sup' = Supervisors /\ DOMAIN sup'[p] = Fields
          /\ \A q \in Supervisors \ {p} : sup'[q] = sup[q]
          /\ sup'[p].ctl = sup[p].ctl /\ sup'[p].pc = "close" /\ sup'[p].op = sup[p].op
          /\ sup'[p].used = sup[p].used /\ sup'[p].stuck = sup[p].stuck
          /\ sup'[p].raw = sup[p].raw /\ sup'[p].driver = sup[p].driver
      BY <1>0, <2>3, SetField DEF Fields
    <3> QED
      BY <1>0, <1>a, <1>b, <1>c, <2>0, <2>a, <3>2, Outside DEF Ended
  <2> QED
    BY <1>1, <2>1, <2>2, <2>3 DEF after_issue
<1>2. CASE authorize_grant(p)
  <2>0. sup[p].pc = "authorize"
    BY <1>2 DEF authorize_grant
  <2>a. sup[p].driver # "running" /\ leaf["PREPARED"] = Rec("CONSUMED", p) /\ leaf["GRANT"] = Rec("ISSUED", p)
    BY <1>0, <2>0 DEF Phases, Launched
  <2>1. CASE Set(p, [pc |-> "begin", op |-> "REVOKE_GRANT", raw |-> "none", out |-> "OK"])
    <3>2. /\ DOMAIN sup' = Supervisors /\ DOMAIN sup'[p] = Fields
          /\ \A q \in Supervisors \ {p} : sup'[q] = sup[q]
          /\ sup'[p].ctl = sup[p].ctl /\ sup'[p].pc = "begin" /\ sup'[p].op = "REVOKE_GRANT" /\ sup'[p].out = "OK"
          /\ sup'[p].used = sup[p].used /\ sup'[p].stuck = sup[p].stuck
          /\ sup'[p].raw = "none" /\ sup'[p].driver = sup[p].driver
      BY <1>0, <2>1, SetField DEF Fields
    <3> QED
      BY <1>0, <1>a, <1>b, <1>c, <2>0, <2>a, <3>2, Outside DEF Ended
  <2>2. CASE Set(p, [pc |-> "driver", raw |-> "handed", used |-> TRUE, driver |-> "running"])
    <3>1. /\ DOMAIN sup' = Supervisors /\ DOMAIN sup'[p] = Fields
          /\ \A q \in Supervisors \ {p} : sup'[q] = sup[q]
          /\ sup'[p].ctl = sup[p].ctl /\ sup'[p].pc = "driver" /\ sup'[p].op = sup[p].op
          /\ sup'[p].used = TRUE /\ sup'[p].stuck = sup[p].stuck
          /\ sup'[p].retained = sup[p].retained
      BY <1>0, <2>2, SetField DEF Fields
    <3>3. Excluded(p)'
      BY <1>0, <1>a, <3>1 DEF Excluded, InsideMutation
    <3>4. Writing(p)'
      BY <3>1 DEF Writing, Wrote
    <3>5. Phases(p)'
      BY <1>0, <1>b, <2>0, <2>a, <3>1 DEF Phases, Ended
    <3>6. Launched(p)'
      BY <1>0, <1>a, <2>a, <3>1, Records DEF Launched
    <3>7. Terminated(p)'
      BY <1>0, <1>a, <1>b, <2>0, <3>1 DEF Terminated, Ended, Mutating, InsideMutation
    <3> QED
      BY <1>0, <1>a, <3>1, <3>3, <3>4, <3>5, <3>6, <3>7, MemoryStep
  <2> QED
    BY <1>2, <2>1, <2>2 DEF authorize_grant
<1>3. CASE driver_returns(p)
  <2>0. sup[p].pc = "driver"
    BY <1>3 DEF driver_returns
  <2>1. PICK result \in {"COMPLETED", "FAILED"} :
          Set(p, [pc |-> "begin", op |-> "REVOKE_GRANT", out |-> "OK", driver |-> result, raw |-> "none"])
    BY <1>3 DEF driver_returns
  <2>2. /\ DOMAIN sup' = Supervisors /\ DOMAIN sup'[p] = Fields
        /\ \A q \in Supervisors \ {p} : sup'[q] = sup[q]
        /\ sup'[p].ctl = sup[p].ctl /\ sup'[p].pc = "begin" /\ sup'[p].op = "REVOKE_GRANT" /\ sup'[p].out = "OK"
        /\ sup'[p].used = sup[p].used /\ sup'[p].stuck = sup[p].stuck
        /\ sup'[p].raw = "none" /\ sup'[p].driver = result
    BY <1>0, <2>1, SetField DEF Fields
  <2>3. result # "running"
    OBVIOUS
  <2> QED
    BY <1>0, <1>a, <1>b, <1>c, <2>0, <2>2, <2>3, Outside DEF Ended
<1>4. CASE expire(p)
  <2>0. sup[p].raw = "held" /\ Set(p, [expired |-> TRUE])
    BY <1>4 DEF expire
  <2>1. /\ DOMAIN sup' = Supervisors /\ DOMAIN sup'[p] = Fields
        /\ \A q \in Supervisors \ {p} : sup'[q] = sup[q]
        /\ sup'[p].ctl = sup[p].ctl /\ sup'[p].pc = sup[p].pc /\ sup'[p].op = sup[p].op
        /\ sup'[p].out = sup[p].out /\ sup'[p].raw = sup[p].raw /\ sup'[p].used = sup[p].used
        /\ sup'[p].stuck = sup[p].stuck /\ sup'[p].retained = sup[p].retained /\ sup'[p].driver = sup[p].driver
    BY <1>0, <2>0, SetField DEF Fields
  <2>2. sup[p].pc \in {"authorize", "driver"}
    BY <1>0, <2>0 DEF Phases
  <2>3. Excluded(p)'
    BY <1>0, <1>a, <2>1 DEF Excluded, InsideMutation
  <2>4. Writing(p)'
    BY <2>1, <2>2 DEF Writing, Wrote
  <2>5. Phases(p)'
    BY <1>0, <2>1 DEF Phases, Ended
  <2>6. Launched(p)'
    BY <1>0, <1>a, <2>1 DEF Launched
  <2>7. Terminated(p)'
    BY <1>0, <1>a, <2>1 DEF Terminated, Ended
  <2> QED
    BY <1>0, <1>a, <2>1, <2>3, <2>4, <2>5, <2>6, <2>7, MemoryStep
<1>5. CASE after_terminalize(p)
  <2>0. sup[p].pc = "after" /\ sup[p].op = "TERMINALIZE"
    BY <1>5 DEF after_terminalize
  <2>a. sup[p].raw = "none" /\ sup[p].driver = "COMPLETED" /\ sup[p].retained = "clean"
    BY <1>0, <2>0 DEF Phases, Terminated, Mutating
  <2>1. PICK to : /\ Set(p, [pc |-> "idle", ctl |-> to])
                  /\ to \in {"TERMINAL", "FAILED_NONLAUNCHABLE"}
                  /\ to = "TERMINAL" => sup[p].out \in {"OK", "TERMINAL_ALREADY_PRESENT"}
    BY <1>5 DEF after_terminalize
  <2>2. /\ DOMAIN sup' = Supervisors /\ DOMAIN sup'[p] = Fields
        /\ \A q \in Supervisors \ {p} : sup'[q] = sup[q]
        /\ sup'[p].ctl = to /\ sup'[p].pc = "idle" /\ sup'[p].op = sup[p].op
        /\ sup'[p].out = sup[p].out /\ sup'[p].raw = sup[p].raw /\ sup'[p].used = sup[p].used
        /\ sup'[p].stuck = sup[p].stuck /\ sup'[p].retained = sup[p].retained /\ sup'[p].driver = sup[p].driver
    BY <1>0, <2>1, SetField DEF Fields
  <2>3. to = "TERMINAL" => /\ leaf["PREPARED"] = Rec("CONSUMED", p) /\ leaf["GRANT"] = Rec("REVOKED", p)
                           /\ leaf["TERMINAL"] = Rec("TERMINAL", p)
    BY <1>0, <2>0, <2>1, Operations DEF Terminated, Writing, Wrote
  <2>4. Excluded(p)'
    BY <1>0, <1>a, <2>2 DEF Excluded, InsideMutation
  <2>5. Writing(p)'
    BY <2>2 DEF Writing, Wrote
  <2>6. Phases(p)'
    BY <2>1, <2>2, <2>a DEF Phases
  <2>7. Launched(p)'
    BY <1>0, <1>a, <2>2 DEF Launched
  <2>8. Terminated(p)'
    BY <1>a, <2>1, <2>2, <2>3, <2>a DEF Terminated, Ended, Mutating, InsideMutation
  <2> QED
    BY <1>0, <1>a, <2>2, <2>4, <2>5, <2>6, <2>7, <2>8, MemoryStep
<1> QED
  BY <1>1, <1>2, <1>3, <1>4, <1>5

\* The process ends: its memory goes, and the mutex it owned is abandoned.
LEMMA CrashStep ==
  ASSUME ChainInv, NEW p \in Supervisors, crash(p)
  PROVE  ChainInv'
<1>0. /\ ChainTypeOK /\ DOMAIN sup = Supervisors /\ DOMAIN sup[p] = Fields
      /\ sup[p].used \in BOOLEAN
      /\ Excluded(p) /\ Writing(p) /\ Phases(p) /\ Launched(p) /\ Terminated(p)
  BY DEF ChainInv, ChainTypeOK
<1> DEFINE new == [Fresh EXCEPT !.ctl = "GONE", !.used = sup[p].used]
<1>1. /\ DOMAIN new = Fields /\ new.ctl = "GONE" /\ new.pc = "idle" /\ new.op = "PENDING"
      /\ new.raw = "none" /\ new.used = sup[p].used /\ new.retained = "none" /\ new.driver = "none"
      /\ new.stuck = FALSE
  BY DEF Fresh, Fields
<1>2. sup' = [sup EXCEPT ![p] = new] /\ UNCHANGED leaf
      /\ mutex' = IF mutex = p THEN "abandoned" ELSE mutex
  BY DEF crash
<1> HIDE DEF new
<1>3. /\ DOMAIN sup' = Supervisors /\ sup'[p] = new
      /\ \A q \in Supervisors \ {p} : sup'[q] = sup[q]
  BY <1>0, <1>2
<1>4. "PENDING" \in Ops
  BY DEF Ops
<1>5. Excluded(p)' /\ Writing(p)'
  BY <1>1, <1>3 DEF Excluded, InsideMutation, Writing, Wrote
<1>6. Phases(p)'
  BY <1>1, <1>3 DEF Phases
<1>7. Launched(p)'
  BY <1>0, <1>1, <1>2, <1>3 DEF Launched
<1>8. Terminated(p)'
  BY <1>1, <1>3 DEF Terminated, Ended, Mutating, InsideMutation
<1>9. \A q \in Supervisors \ {p} : mutex = q => mutex' = q
  BY <1>2
<1> QED
  BY <1>0, <1>1, <1>2, <1>3, <1>4, <1>5, <1>6, <1>7, <1>8, <1>9, MemoryStep

\* A step under the mutex that only moves p on, after a failure or an exact write.
LEMMA MutationMoves ==
  ASSUME ChainInv, NEW p \in Supervisors, UNCHANGED leaf,
         DOMAIN sup' = Supervisors, \A q \in Supervisors \ {p} : sup'[q] = sup[q],
         \A q \in Supervisors \ {p} : mutex = q => mutex' = q,
         DOMAIN sup'[p] = Fields, sup'[p].op \in Ops,
         sup[p].pc \in Mutating, sup'[p].pc \in {"inspect", "finish", "after"},
         sup'[p].ctl = sup[p].ctl, sup'[p].used = sup[p].used, sup'[p].raw = sup[p].raw,
         sup'[p].driver = sup[p].driver,
         sup'[p].retained = sup[p].retained \/ sup'[p].op = "PENDING",
         sup'[p].stuck \in BOOLEAN,
         sup'[p].pc # "after" \/ sup'[p].stuck => mutex' = p,
         sup'[p].op = sup[p].op \/ (sup[p].op = "PENDING" /\ sup'[p].op = "PREPARE"),
         sup'[p].pc = "inspect" => sup'[p].out = "OK" /\
                                   (sup[p].op = "TERMINALIZE" => sup[p].pc = "begin"),
         sup'[p].pc # "inspect" /\ sup'[p].out = "OK" => Wrote(p) /\ sup'[p].op = sup[p].op,
         sup'[p].pc # "inspect" /\ sup'[p].op = "TERMINALIZE" => sup'[p].out # "TERMINAL_ALREADY_PRESENT"
  PROVE  ChainInv'
<1>0. /\ ChainTypeOK /\ sup[p].op \in Ops /\ sup[p].used \in BOOLEAN
      /\ Excluded(p) /\ Writing(p) /\ Phases(p) /\ Launched(p) /\ Terminated(p)
  BY DEF ChainInv, ChainTypeOK
<1>a. sup[p].pc \notin {"idle", "authorize", "driver"}
  BY DEF Mutating, InsideMutation
<1>b. ~ Ended(p) /\ sup[p].ctl \notin {"UNINITIALIZED", "PREPARED_WAITING_A1"}
      /\ sup[p].raw = "none" /\ sup[p].driver # "running"
  BY <1>0, <1>a DEF Phases
<1>1. Excluded(p)'
  BY DEF Excluded, InsideMutation
<1>2. Writing(p)'
  <2>1. sup'[p].pc # "inspect" /\ sup'[p].out = "OK" =>
          leaf[Target(sup[p].op)] = Result(sup[p].op, p) /\ Required(sup[p].op, p)
    BY <1>0 DEF Writing
  <2>2. \A op : Required(op, p)' <=> Required(op, p)
    BY DEF Required
  <2> QED
    BY <2>1, <2>2 DEF Writing, Wrote, Required
<1>3. Phases(p)'
  BY <1>b DEF Phases, Ended
<1>4. Launched(p)'
  BY <1>0 DEF Launched
<1>5. Terminated(p)'
  <2>1. /\ sup[p].pc = "begin" => ~ (leaf["TERMINAL"] # Absent /\ leaf["PREPARED"] = Rec("CONSUMED", p))
        /\ sup[p].pc = "inspect" => ~ (leaf["TERMINAL"] # Absent /\ leaf["PREPARED"] = Rec("CONSUMED", p))
        /\ sup[p].op # "TERMINALIZE" => ~ (leaf["TERMINAL"] # Absent /\ leaf["PREPARED"] = Rec("CONSUMED", p))
    BY <1>0, <1>b DEF Terminated
  <2>2. sup'[p].op = "TERMINALIZE" => sup[p].op = "TERMINALIZE" /\ sup[p].driver = "COMPLETED" /\ sup[p].retained = "clean"
    BY <1>0 DEF Terminated
  <2>3. sup'[p].ctl # "TERMINAL"
    BY <1>b DEF Ended
  <2> QED
    BY <2>1, <2>2, <2>3 DEF Terminated, Mutating, InsideMutation
<1> QED
  BY <1>0, <1>1, <1>2, <1>3, <1>4, <1>5, MemoryStep

\* _begin_mutation, _post_write and _finish.
LEMMA MutexSteps ==
  ASSUME ChainInv, NEW p \in Supervisors, begin_mutation(p) \/ post_write(p) \/ finish(p)
  PROVE  ChainInv'
<1>0. /\ ChainTypeOK /\ sup[p].op \in Ops /\ sup[p].stuck \in BOOLEAN
      /\ Excluded(p) /\ Writing(p) /\ Phases(p) /\ Launched(p) /\ Terminated(p)
  BY DEF ChainInv, ChainTypeOK
<1>a. "PREPARE" \in Ops /\ {"begin", "post", "finish"} \subseteq Mutating /\ {"post", "finish"} \subseteq InsideMutation
  BY DEF Ops, Mutating, InsideMutation
<1>1. CASE begin_mutation(p)
  <2>0. sup[p].pc = "begin" /\ UNCHANGED leaf /\ sup[p].out = "OK"
    BY <1>0, <1>1 DEF begin_mutation, Writing
  <2>a. acquire(p) \in {"ACQUIRED", "ABANDONED"} => \A q \in Supervisors \ {p} : mutex # q
    BY ChainAssumption DEF acquire
  <2>b. acquire(p) = "UNAVAILABLE" => mutex # p
    BY DEF acquire
  <2>1. CASE Set(p, [pc |-> "inspect"]) /\ mutex' = p /\ acquire(p) = "ACQUIRED"
    <3>1. /\ DOMAIN sup' = Supervisors /\ DOMAIN sup'[p] = Fields
          /\ \A q \in Supervisors \ {p} : sup'[q] = sup[q]
          /\ sup'[p].ctl = sup[p].ctl /\ sup'[p].pc = "inspect" /\ sup'[p].op = sup[p].op
          /\ sup'[p].out = sup[p].out /\ sup'[p].raw = sup[p].raw /\ sup'[p].used = sup[p].used
          /\ sup'[p].stuck = sup[p].stuck /\ sup'[p].retained = sup[p].retained /\ sup'[p].driver = sup[p].driver
      BY <1>0, <2>1, SetField DEF Fields
    <3> QED
      BY <1>0, <1>a, <2>0, <2>a, <2>1, <3>1, MutationMoves
  <2>2. CASE \E out \in {"OWNER_ABANDONED", "LEASE_DRIFT"} :
               Set(p, [pc |-> "finish", out |-> out]) /\ mutex' = p /\ acquire(p) \in {"ACQUIRED", "ABANDONED"}
    <3>0. PICK out \in {"OWNER_ABANDONED", "LEASE_DRIFT"} : Set(p, [pc |-> "finish", out |-> out])
      BY <2>2
    <3>1. /\ DOMAIN sup' = Supervisors /\ DOMAIN sup'[p] = Fields
          /\ \A q \in Supervisors \ {p} : sup'[q] = sup[q]
          /\ sup'[p].ctl = sup[p].ctl /\ sup'[p].pc = "finish" /\ sup'[p].op = sup[p].op
          /\ sup'[p].out = out /\ sup'[p].raw = sup[p].raw /\ sup'[p].used = sup[p].used
          /\ sup'[p].stuck = sup[p].stuck /\ sup'[p].retained = sup[p].retained /\ sup'[p].driver = sup[p].driver
      BY <1>0, <3>0, SetField DEF Fields
    <3>2. out # "OK" /\ out # "TERMINAL_ALREADY_PRESENT"
      OBVIOUS
    <3> QED
      BY <1>0, <1>a, <2>0, <2>a, <2>2, <3>1, <3>2, MutationMoves
  <2>3. CASE Set(p, [pc |-> "after", out |-> "OWNER_UNAVAILABLE"]) /\ UNCHANGED mutex /\ acquire(p) = "UNAVAILABLE"
    <3>1. /\ DOMAIN sup' = Supervisors /\ DOMAIN sup'[p] = Fields
          /\ \A q \in Supervisors \ {p} : sup'[q] = sup[q]
          /\ sup'[p].ctl = sup[p].ctl /\ sup'[p].pc = "after" /\ sup'[p].op = sup[p].op
          /\ sup'[p].out = "OWNER_UNAVAILABLE" /\ sup'[p].raw = sup[p].raw /\ sup'[p].used = sup[p].used
          /\ sup'[p].stuck = sup[p].stuck /\ sup'[p].retained = sup[p].retained /\ sup'[p].driver = sup[p].driver
      BY <1>0, <2>3, SetField DEF Fields
    <3>2. sup'[p].stuck => mutex' = p
      BY <1>0, <2>3, <3>1 DEF Excluded
    <3> QED
      BY <1>0, <1>a, <2>0, <2>3, <3>1, <3>2, MutationMoves
  <2> QED
    BY <1>1, <2>1, <2>2, <2>3 DEF begin_mutation
<1>2. CASE post_write(p)
  <2>0. sup[p].pc = "post" /\ UNCHANGED <<leaf, mutex>> /\ sup[p].out = "OK" /\ mutex = p /\ Wrote(p)
    BY <1>0, <1>2 DEF post_write, Writing, Excluded, InsideMutation, Wrote
  <2>1. CASE sup[p].op = "PENDING" /\ Set(p, [pc |-> "inspect", op |-> "PREPARE"])
    <3>1. /\ DOMAIN sup' = Supervisors /\ DOMAIN sup'[p] = Fields
          /\ \A q \in Supervisors \ {p} : sup'[q] = sup[q]
          /\ sup'[p].ctl = sup[p].ctl /\ sup'[p].pc = "inspect" /\ sup'[p].op = "PREPARE"
          /\ sup'[p].out = sup[p].out /\ sup'[p].raw = sup[p].raw /\ sup'[p].used = sup[p].used
          /\ sup'[p].stuck = sup[p].stuck /\ sup'[p].retained = sup[p].retained /\ sup'[p].driver = sup[p].driver
      BY <1>0, <2>1, SetField DEF Fields
    <3> QED
      BY <1>0, <1>a, <2>0, <2>1, <3>1, MutationMoves
  <2>2. CASE Set(p, [pc |-> "finish"])
    <3>1. /\ DOMAIN sup' = Supervisors /\ DOMAIN sup'[p] = Fields
          /\ \A q \in Supervisors \ {p} : sup'[q] = sup[q]
          /\ sup'[p].ctl = sup[p].ctl /\ sup'[p].pc = "finish" /\ sup'[p].op = sup[p].op
          /\ sup'[p].out = sup[p].out /\ sup'[p].raw = sup[p].raw /\ sup'[p].used = sup[p].used
          /\ sup'[p].stuck = sup[p].stuck /\ sup'[p].retained = sup[p].retained /\ sup'[p].driver = sup[p].driver
      BY <1>0, <2>2, SetField DEF Fields
    <3> QED
      BY <1>0, <1>a, <2>0, <3>1, MutationMoves
  <2>3. CASE \E state : Set(p, [pc |-> "finish", out |-> "DURABILITY_FAILED", state |-> state])
    <3>0. PICK state : Set(p, [pc |-> "finish", out |-> "DURABILITY_FAILED", state |-> state])
      BY <2>3
    <3>1. /\ DOMAIN sup' = Supervisors /\ DOMAIN sup'[p] = Fields
          /\ \A q \in Supervisors \ {p} : sup'[q] = sup[q]
          /\ sup'[p].ctl = sup[p].ctl /\ sup'[p].pc = "finish" /\ sup'[p].op = sup[p].op
          /\ sup'[p].out = "DURABILITY_FAILED" /\ sup'[p].raw = sup[p].raw /\ sup'[p].used = sup[p].used
          /\ sup'[p].stuck = sup[p].stuck /\ sup'[p].retained = sup[p].retained /\ sup'[p].driver = sup[p].driver
      BY <1>0, <3>0, SetField DEF Fields
    <3> QED
      BY <1>0, <1>a, <2>0, <3>1, MutationMoves
  <2>4. CASE Set(p, [pc |-> "finish", out |-> "ATTESTATION_FAILED"])
    <3>1. /\ DOMAIN sup' = Supervisors /\ DOMAIN sup'[p] = Fields
          /\ \A q \in Supervisors \ {p} : sup'[q] = sup[q]
          /\ sup'[p].ctl = sup[p].ctl /\ sup'[p].pc = "finish" /\ sup'[p].op = sup[p].op
          /\ sup'[p].out = "ATTESTATION_FAILED" /\ sup'[p].raw = sup[p].raw /\ sup'[p].used = sup[p].used
          /\ sup'[p].stuck = sup[p].stuck /\ sup'[p].retained = sup[p].retained /\ sup'[p].driver = sup[p].driver
      BY <1>0, <2>4, SetField DEF Fields
    <3> QED
      BY <1>0, <1>a, <2>0, <3>1, MutationMoves
  <2> QED
    BY <1>2, <2>1, <2>2, <2>3, <2>4 DEF post_write
<1>3. CASE finish(p)
  <2>0. sup[p].pc = "finish" /\ UNCHANGED leaf /\ mutex = p
    BY <1>0, <1>3 DEF finish, Excluded, InsideMutation
  <2>a. sup[p].out = "OK" => Wrote(p)
    BY <2>0 DEF Wrote
  <2>b. sup[p].op = "TERMINALIZE" => sup[p].out # "TERMINAL_ALREADY_PRESENT"
    BY <1>0, <2>0 DEF Terminated
  <2>1. CASE Set(p, [pc |-> "after"]) /\ (sup[p].stuck => mutex' = p)
    <3>1. /\ DOMAIN sup' = Supervisors /\ DOMAIN sup'[p] = Fields
          /\ \A q \in Supervisors \ {p} : sup'[q] = sup[q]
          /\ sup'[p].ctl = sup[p].ctl /\ sup'[p].pc = "after" /\ sup'[p].op = sup[p].op
          /\ sup'[p].out = sup[p].out /\ sup'[p].raw = sup[p].raw /\ sup'[p].used = sup[p].used
          /\ sup'[p].stuck = sup[p].stuck /\ sup'[p].retained = sup[p].retained /\ sup'[p].driver = sup[p].driver
      BY <1>0, <2>1, SetField DEF Fields
    <3> QED
      BY <1>0, <1>a, <2>0, <2>a, <2>b, <2>1, <3>1, MutationMoves
  <2>2. CASE \E held \in BOOLEAN : \E state :
               /\ Set(p, [pc |-> "after", out |-> "CLEANUP_FAILED", stuck |-> held \/ sup[p].stuck, state |-> state])
               /\ mutex' = IF held \/ sup[p].stuck THEN p ELSE "free"
    <3>a. PICK held \in BOOLEAN :
            \E state :
               /\ Set(p, [pc |-> "after", out |-> "CLEANUP_FAILED", stuck |-> held \/ sup[p].stuck, state |-> state])
               /\ mutex' = IF held \/ sup[p].stuck THEN p ELSE "free"
      BY <2>2
    <3>0. PICK state :
               /\ Set(p, [pc |-> "after", out |-> "CLEANUP_FAILED", stuck |-> held \/ sup[p].stuck, state |-> state])
               /\ mutex' = IF held \/ sup[p].stuck THEN p ELSE "free"
      BY <3>a
    <3>s. PICK stuck \in BOOLEAN : stuck <=> held \/ sup[p].stuck
      OBVIOUS
    <3>t. Set(p, [pc |-> "after", out |-> "CLEANUP_FAILED", stuck |-> stuck, state |-> state])
      <4>1. stuck = (held \/ sup[p].stuck)
        BY <1>0, <3>s
      <4> QED
        BY <3>0, <4>1
    <3>1. /\ DOMAIN sup' = Supervisors /\ DOMAIN sup'[p] = Fields
          /\ \A q \in Supervisors \ {p} : sup'[q] = sup[q]
          /\ sup'[p].ctl = sup[p].ctl /\ sup'[p].pc = "after" /\ sup'[p].op = sup[p].op
          /\ sup'[p].out = "CLEANUP_FAILED" /\ sup'[p].raw = sup[p].raw /\ sup'[p].used = sup[p].used
          /\ sup'[p].stuck = stuck /\ sup'[p].retained = sup[p].retained /\ sup'[p].driver = sup[p].driver
      BY <1>0, <3>t, SetField DEF Fields
    <3>2. stuck => mutex' = p
      BY <3>0, <3>s
    <3> QED
      BY <1>0, <1>a, <2>0, <3>1, <3>2, MutationMoves
  <2>3. \/ Set(p, [pc |-> "after"]) /\ (sup[p].stuck => mutex' = p)
        \/ \E held \in BOOLEAN : \E state :
               /\ Set(p, [pc |-> "after", out |-> "CLEANUP_FAILED", stuck |-> held \/ sup[p].stuck, state |-> state])
               /\ mutex' = IF held \/ sup[p].stuck THEN p ELSE "free"
    BY <1>3, ZenonT(30) DEF finish
  <2> QED
    BY <2>1, <2>2, <2>3
<1> QED
  BY <1>1, <1>2, <1>3

\* A write of p's: the leaf was p's to write, and the records of the others stand.
LEMMA LeafStep ==
  ASSUME ChainInv, NEW p \in Supervisors, NEW l \in Leaves, NEW v,
         leaf' = [leaf EXCEPT ![l] = v], mutex = p, mutex' = p,
         v = Torn \/ \E k : v = Rec(k, p),
         leaf[l] = Absent \/ leaf[l] = Torn \/ (\E k : leaf[l] = Rec(k, p) /\ k # "CONSUMED"),
         l = "TERMINAL" => leaf["PREPARED"] = Rec("CONSUMED", p),
         l = "PREPARED" => leaf["TERMINAL"] = Absent,
         DOMAIN sup' = Supervisors, \A q \in Supervisors \ {p} : sup'[q] = sup[q],
         DOMAIN sup'[p] = Fields, sup'[p].op \in Ops, sup'[p].used \in BOOLEAN, sup'[p].stuck \in BOOLEAN,
         Excluded(p)', Writing(p)', Phases(p)', Launched(p)', Terminated(p)'
  PROVE  ChainInv'
<1>0. DOMAIN leaf = Leaves /\ leaf'[l] = v /\ (\A m \in Leaves \ {l} : leaf'[m] = leaf[m]) /\ DOMAIN leaf' = Leaves
  BY DEF ChainInv, ChainTypeOK
<1>1. ChainTypeOK'
  BY <1>0 DEF ChainInv, ChainTypeOK
<1>a. {"PREPARED", "GRANT", "TERMINAL"} = Leaves /\ v # Absent
  BY Records DEF Leaves
<1>2. leaf'["TERMINAL"] # Absent => \E q \in Supervisors : leaf'["PREPARED"] = Rec("CONSUMED", q)
  BY <1>0, <1>a DEF ChainInv
<1>3. ASSUME NEW q \in Supervisors \ {p}
      PROVE  (Excluded(q) /\ Writing(q) /\ Phases(q) /\ Launched(q) /\ Terminated(q))'
  <2>1. /\ sup'[q] = sup[q] /\ sup[q].op \in Ops
        /\ Excluded(q) /\ Writing(q) /\ Phases(q) /\ Launched(q) /\ Terminated(q)
    BY <1>3 DEF ChainInv, ChainTypeOK
  <2>2. sup[q].pc \notin InsideMutation /\ ~ sup[q].stuck /\ Excluded(q)'
    BY <1>3, <2>1 DEF Excluded
  <2>3. ASSUME NEW m \in Leaves, NEW k
        PROVE  leaf[m] = Rec(k, q) <=> leaf'[m] = Rec(k, q)
    <3>1. CASE m # l
      BY <1>0, <3>1
    <3>2. CASE m = l
      BY <1>0, <1>3, <3>2, Records
    <3> QED
      BY <3>1, <3>2
  <2>4. ASSUME NEW m \in Leaves, leaf[m] # Absent
        PROVE  leaf'[m] # Absent
    BY <1>0, <1>a, <2>4
  <2>5. Writing(q)'
    <3>1. sup[q].pc \notin {"write", "post", "finish", "inspect"}
      BY <2>2 DEF InsideMutation
    <3>2. \A op \in Ops : \E k : Result(op, q) = Rec(k, q)
      BY DEF Result, Ops
    <3>3. \A op \in Ops : leaf[Target(op)] = Result(op, q) => leaf'[Target(op)] = Result(op, q)
      BY <2>3, <3>2, Operations
    <3>4. \A op \in Ops : Required(op, q) => Required(op, q)'
      BY <1>a, <2>3 DEF Required
    <3> QED
      BY <2>1, <3>1, <3>3, <3>4 DEF Writing, Wrote, Required
  <2>6. Phases(q)'
    BY <2>1 DEF Phases, Ended
  <2>7. Launched(q)'
    BY <1>a, <2>1, <2>3, <2>4 DEF Launched
  <2>8. Terminated(q)'
    <3>1. leaf'["TERMINAL"] # Absent /\ leaf'["PREPARED"] = Rec("CONSUMED", q) =>
            leaf["TERMINAL"] # Absent /\ leaf["PREPARED"] = Rec("CONSUMED", q)
      BY <1>0, <1>3, <1>a, <2>3, Records
    <3> QED
      BY <1>a, <2>1, <2>3, <3>1 DEF Terminated, Ended
  <2> QED
    BY <2>2, <2>5, <2>6, <2>7, <2>8
<1> QED
  BY <1>1, <1>2, <1>3 DEF ChainInv

\* inspect, the A0 attestation and the opening of the leaf.
LEMMA InspectStep ==
  ASSUME ChainInv, NEW p \in Supervisors, inspect_and_open(p)
  PROVE  ChainInv'
<1> DEFINE op == sup[p].op
           l  == Target(op)
<1>0. /\ ChainTypeOK /\ op \in Ops /\ sup[p].stuck \in BOOLEAN /\ sup[p].used \in BOOLEAN
      /\ Excluded(p) /\ Writing(p) /\ Phases(p) /\ Launched(p) /\ Terminated(p) /\ DOMAIN leaf = Leaves
  BY DEF ChainInv, ChainTypeOK
<1>a. sup[p].pc = "inspect" /\ UNCHANGED mutex /\ mutex = p /\ sup[p].out = "OK" /\ sup[p].pc \in Mutating
  BY <1>0 DEF inspect_and_open, Excluded, InsideMutation, Writing, Mutating
<1>b. ~ Ended(p) /\ sup[p].ctl \notin {"UNINITIALIZED", "PREPARED_WAITING_A1"}
      /\ sup[p].raw = "none" /\ sup[p].driver # "running"
  BY <1>0, <1>a DEF Phases
<1>1. ASSUME NEW f, Set(p, f), UNCHANGED leaf, DOMAIN f \subseteq {"pc", "out", "state", "retained"},
             {"pc", "out"} \subseteq DOMAIN f, f["pc"] = "finish", f["out"] # "OK",
             op = "TERMINALIZE" => f["out"] # "TERMINAL_ALREADY_PRESENT",
             "retained" \in DOMAIN f /\ op # "PENDING" => f["retained"] = sup[p].retained
      PROVE  ChainInv'
  <2>1. DOMAIN f \subseteq Fields
    BY <1>1 DEF Fields
  <2>2. /\ DOMAIN sup' = Supervisors /\ DOMAIN sup'[p] = Fields
        /\ \A q \in Supervisors \ {p} : sup'[q] = sup[q]
        /\ \A x \in DOMAIN f : sup'[p][x] = f[x]
        /\ \A x \in Fields \ DOMAIN f : sup'[p][x] = sup[p][x]
    BY <1>0, <1>1, <2>1, SetField
  <2>3. /\ sup'[p].ctl = sup[p].ctl /\ sup'[p].pc = "finish" /\ sup'[p].op = sup[p].op
        /\ sup'[p].out = f["out"] /\ sup'[p].raw = sup[p].raw /\ sup'[p].used = sup[p].used
        /\ sup'[p].stuck = sup[p].stuck /\ sup'[p].driver = sup[p].driver
        /\ op # "PENDING" => sup'[p].retained = sup[p].retained
    BY <1>1, <2>2 DEF Fields
  <2> QED
    BY <1>0, <1>1, <1>a, <2>2, <2>3, MutationMoves
<1>2. CASE mismatch(p) /\ UNCHANGED leaf
  <2> DEFINE out == IF op = "TERMINALIZE" /\ leaf["TERMINAL"] # Absent /\ leaf["PREPARED"] = Rec("CONSUMED", p)
                    THEN "TERMINAL_ALREADY_PRESENT" ELSE "CAS_MISMATCH"
             state == CASE op = "PENDING"               -> Classified(leaf["PREPARED"])
                        [] op \in {"PREPARE", "CONSUME"} -> "PRESENT_INVALID"
                        [] OTHER                        -> sup[p].state
             f == [pc |-> "finish", out |-> out, state |-> state]
  <2>1. Set(p, f)
    BY <1>2, Zenon DEF mismatch
  <2>2. ~ (leaf["TERMINAL"] # Absent /\ leaf["PREPARED"] = Rec("CONSUMED", p))
    BY <1>0, <1>a, <1>b DEF Terminated
  <2>3. out = "CAS_MISMATCH"
    BY <2>2
  <2> HIDE DEF out, state
  <2>4. DOMAIN f = {"pc", "out", "state"} /\ f["pc"] = "finish" /\ f["out"] = out
    OBVIOUS
  <2> HIDE DEF f
  <2> QED
    BY <1>1, <1>2, <2>1, <2>3, <2>4
<1>3. CASE Set(p, [pc |-> "finish", out |-> "ATTESTATION_FAILED"]) /\ UNCHANGED leaf
  <2> DEFINE f == [pc |-> "finish", out |-> "ATTESTATION_FAILED"]
  <2>1. Set(p, f) /\ DOMAIN f = {"pc", "out"} /\ f["pc"] = "finish" /\ f["out"] = "ATTESTATION_FAILED"
    BY <1>3
  <2> HIDE DEF f
  <2> QED
    BY <1>1, <1>3, <2>1
<1>4. CASE \E retained : /\ Set(p, [pc |-> "finish", out |-> "CREATE_FAILED", state |-> "PRESENT_INVALID",
                                    retained |-> retained])
                         /\ op # "PENDING" => retained = sup[p].retained
                         /\ UNCHANGED leaf
  <2>1. PICK retained : /\ Set(p, [pc |-> "finish", out |-> "CREATE_FAILED", state |-> "PRESENT_INVALID",
                                   retained |-> retained])
                        /\ op # "PENDING" => retained = sup[p].retained
                        /\ UNCHANGED leaf
    BY <1>4
  <2> DEFINE f == [pc |-> "finish", out |-> "CREATE_FAILED", state |-> "PRESENT_INVALID", retained |-> retained]
  <2>2. /\ Set(p, f) /\ DOMAIN f = {"pc", "out", "state", "retained"}
        /\ f["pc"] = "finish" /\ f["out"] = "CREATE_FAILED" /\ f["retained"] = retained
    BY <2>1
  <2> HIDE DEF f
  <2> QED
    BY <1>1, <2>1, <2>2
<1>5. CASE /\ leaf[l] = Prior(op, p) /\ Required(op, p) /\ leaf' = [leaf EXCEPT ![l] = Torn]
           /\ \E retained : /\ Set(p, [pc |-> "write", retained |-> retained])
                            /\ op # "PENDING" => retained = sup[p].retained
  <2>1. PICK retained : /\ Set(p, [pc |-> "write", retained |-> retained])
                        /\ op # "PENDING" => retained = sup[p].retained
    BY <1>5
  <2>2. /\ DOMAIN sup' = Supervisors /\ DOMAIN sup'[p] = Fields
        /\ \A q \in Supervisors \ {p} : sup'[q] = sup[q]
        /\ sup'[p].ctl = sup[p].ctl /\ sup'[p].pc = "write" /\ sup'[p].op = sup[p].op
        /\ sup'[p].out = sup[p].out /\ sup'[p].raw = sup[p].raw /\ sup'[p].used = sup[p].used
        /\ sup'[p].stuck = sup[p].stuck /\ sup'[p].driver = sup[p].driver
        /\ op # "PENDING" => sup'[p].retained = sup[p].retained
    BY <1>0, <2>1, SetField DEF Fields
  <2>3. l \in Leaves /\ (leaf[l] = Absent \/ \E k : leaf[l] = Rec(k, p) /\ k # "CONSUMED")
    BY <1>0, <1>5, Operations DEF Ops
  <2>4. l = "TERMINAL" => op = "TERMINALIZE" /\ leaf["PREPARED"] = Rec("CONSUMED", p)
    BY <1>0, <1>5, Operations DEF Ops
  <2>5. l = "PREPARED" => leaf["TERMINAL"] = Absent
    BY <2>3, Records DEF ChainInv
  <2>6. leaf'[l] = Torn /\ \A m \in Leaves \ {l} : leaf'[m] = leaf[m]
    BY <1>0, <1>5, <2>3
  <2>7. Leaves = {"PREPARED", "GRANT", "TERMINAL"}
    BY DEF Leaves
  <2>8. Excluded(p)'
    BY <1>a DEF Excluded
  <2>9. Writing(p)'
    <3>1. op = "ISSUE_GRANT" \/ op = "TERMINALIZE" => l # "PREPARED"
      BY Operations
    <3>2. op = "TERMINALIZE" => l # "GRANT"
      BY Operations
    <3>3. Required(op, p)'
      BY <1>5, <2>2, <2>6, <2>7, <3>1, <3>2 DEF Required
    <3> QED
      BY <1>a, <2>2, <2>6, <3>3 DEF Writing, Wrote, Required
  <2>10. Phases(p)'
    BY <1>b, <2>2 DEF Phases, Ended
  <2>11. Launched(p)'
    BY <1>0, <2>2, <2>3, <2>6, <2>7, Records DEF Launched
  <2>12. Terminated(p)'
    <3>1. sup'[p].ctl # "TERMINAL"
      BY <1>b, <2>2 DEF Ended
    <3>2. op = "TERMINALIZE" => sup[p].driver = "COMPLETED" /\ sup[p].retained = "clean"
      BY <1>0, <1>a DEF Terminated
    <3>3. leaf'["TERMINAL"] # Absent /\ leaf'["PREPARED"] = Rec("CONSUMED", p) => op = "TERMINALIZE"
      BY <1>0, <1>a, <1>b, <2>4, <2>6, <2>7, Records DEF Terminated
    <3> QED
      BY <2>2, <3>1, <3>2, <3>3 DEF Terminated
  <2> QED
    BY <1>0, <1>5, <1>a, <2>2, <2>3, <2>4, <2>5, <2>8, <2>9, <2>10, <2>11, <2>12, LeafStep
<1> QED
  BY <1>2, <1>3, <1>4, <1>5 DEF inspect_and_open

\* SameHandleLeaf._commit_open and _write_status.
LEMMA WriteStep ==
  ASSUME ChainInv, NEW p \in Supervisors, write(p)
  PROVE  ChainInv'
<1> DEFINE op == sup[p].op
           l  == Target(op)
<1>0. /\ ChainTypeOK /\ op \in Ops /\ sup[p].stuck \in BOOLEAN /\ sup[p].used \in BOOLEAN
      /\ Excluded(p) /\ Writing(p) /\ Phases(p) /\ Launched(p) /\ Terminated(p) /\ DOMAIN leaf = Leaves
  BY DEF ChainInv, ChainTypeOK
<1>a. sup[p].pc = "write" /\ UNCHANGED mutex /\ mutex = p /\ sup[p].pc \in Mutating
      /\ leaf[l] = Torn /\ Required(op, p) /\ sup[p].out = "OK"
  BY <1>0 DEF write, Excluded, InsideMutation, Writing, Mutating
<1>b. ~ Ended(p) /\ sup[p].ctl \notin {"UNINITIALIZED", "PREPARED_WAITING_A1"}
      /\ sup[p].raw = "none" /\ sup[p].driver # "running"
  BY <1>0, <1>a DEF Phases
<1>c. l \in Leaves /\ \E k : Result(op, p) = Rec(k, p)
  BY <1>0, Operations DEF Ops
<1>1. PICK v, to, out, state :
        /\ leaf' = [leaf EXCEPT ![l] = v]
        /\ \/ Set(p, [pc |-> to, state |-> state]) /\ to = "post" /\ v = Result(op, p) /\ out = "OK"
           \/ /\ Set(p, [pc |-> to, out |-> out, state |-> state])
              /\ to = "finish" /\ out = "READBACK_FAILED" /\ v \in {Torn, Result(op, p)}
  BY ZenonT(30) DEF write
<1>2. /\ DOMAIN sup' = Supervisors /\ DOMAIN sup'[p] = Fields
      /\ \A q \in Supervisors \ {p} : sup'[q] = sup[q]
      /\ sup'[p].ctl = sup[p].ctl /\ sup'[p].pc = to /\ sup'[p].op = sup[p].op
      /\ sup'[p].out = out /\ sup'[p].raw = sup[p].raw /\ sup'[p].used = sup[p].used
      /\ sup'[p].stuck = sup[p].stuck /\ sup'[p].driver = sup[p].driver /\ sup'[p].retained = sup[p].retained
  <2>1. CASE Set(p, [pc |-> to, state |-> state]) /\ out = "OK"
    BY <1>0, <1>a, <2>1, SetField DEF Fields
  <2>2. CASE Set(p, [pc |-> to, out |-> out, state |-> state])
    BY <1>0, <2>2, SetField DEF Fields
  <2> QED
    BY <1>1, <2>1, <2>2
<1>3. to \in {"post", "finish"} /\ (to = "post" => v = Result(op, p) /\ out = "OK") /\ v \in {Torn, Result(op, p)}
      /\ (to = "finish" => out = "READBACK_FAILED")
  BY <1>1
<1>4. leaf'[l] = v /\ \A m \in Leaves \ {l} : leaf'[m] = leaf[m]
  BY <1>0, <1>1, <1>c
<1>5. Leaves = {"PREPARED", "GRANT", "TERMINAL"}
  BY DEF Leaves
<1>6. l = "TERMINAL" => op = "TERMINALIZE" /\ leaf["PREPARED"] = Rec("CONSUMED", p)
  BY <1>0, <1>a, Operations DEF Ops
<1>7. l = "PREPARED" => leaf["TERMINAL"] = Absent
  BY <1>a, Records DEF ChainInv
<1>8. Excluded(p)'
  BY <1>a DEF Excluded
<1>9. Writing(p)'
  <2>1. op = "ISSUE_GRANT" \/ op = "TERMINALIZE" => l # "PREPARED"
    BY Operations
  <2>2. op = "TERMINALIZE" => l # "GRANT"
    BY Operations
  <2>3. Required(op, p)'
    BY <1>2, <1>4, <1>5, <1>a, <2>1, <2>2 DEF Required
  <2> QED
    BY <1>2, <1>3, <1>4, <2>3 DEF Writing, Wrote, Required
<1>10. Phases(p)'
  BY <1>2, <1>3, <1>b DEF Phases, Ended
<1>11. Launched(p)'
  <2>1. v # Absent
    BY <1>3, <1>c, Records
  <2>2. sup[p].used => l # "PREPARED"
    BY <1>0, <1>a, Records DEF Launched
  <2> QED
    BY <1>0, <1>2, <1>3, <1>4, <1>5, <2>1, <2>2 DEF Launched
<1>12. Terminated(p)'
  <2>1. sup'[p].ctl # "TERMINAL"
    BY <1>2, <1>b DEF Ended
  <2>2. op = "TERMINALIZE" => sup[p].driver = "COMPLETED" /\ sup[p].retained = "clean"
    BY <1>0, <1>a DEF Terminated
  <2>3. leaf'["TERMINAL"] # Absent /\ leaf'["PREPARED"] = Rec("CONSUMED", p) => op = "TERMINALIZE"
    BY <1>0, <1>4, <1>5, <1>6, <1>7, <1>a, <1>b DEF Terminated
  <2> QED
    BY <1>2, <1>3, <2>1, <2>2, <2>3 DEF Terminated
<1>13. v = Torn \/ \E k : v = Rec(k, p)
  BY <1>3, <1>c
<1> QED
  BY <1>0, <1>1, <1>2, <1>6, <1>7, <1>8, <1>9, <1>10, <1>11, <1>12, <1>13, <1>a, <1>c, LeafStep

\* Every step keeps the inductive invariant.
LEMMA ChainInvStep == ChainInv /\ [ChainNext]_chainVars => ChainInv'
<1> SUFFICES ASSUME ChainInv, [ChainNext]_chainVars PROVE ChainInv'
  OBVIOUS
<1>1. ASSUME NEW p \in Supervisors, Step(p) PROVE ChainInv'
  BY <1>1, BridgeSteps, GrantSteps, MutexSteps, InspectStep, WriteStep DEF Step
<1>2. ASSUME NEW p \in Supervisors, prepare(p) \/ run(p) \/ expire(p) \/ crash(p) PROVE ChainInv'
  BY <1>2, BridgeSteps, GrantSteps, CrashStep
<1>3. CASE another_opens
  <2>1. UNCHANGED <<leaf, sup>> /\ \A q \in Supervisors : mutex # q
    BY <1>3, ChainAssumption DEF another_opens
  <2>2. \A op, q : Required(op, q)' <=> Required(op, q)
    BY <2>1 DEF Required
  <2>3. ASSUME NEW q \in Supervisors
        PROVE  (Excluded(q) /\ Writing(q) /\ Phases(q) /\ Launched(q) /\ Terminated(q))'
    <3>1. Excluded(q) /\ Writing(q) /\ Phases(q) /\ Launched(q) /\ Terminated(q)
      BY DEF ChainInv
    <3>2. Excluded(q)'
      BY <2>1, <3>1 DEF Excluded
    <3>3. Writing(q)'
      BY <2>1, <2>2, <3>1 DEF Writing, Wrote, Required
    <3>4. Phases(q)' /\ Launched(q)' /\ Terminated(q)'
      BY <2>1, <3>1 DEF Phases, Launched, Terminated, Ended
    <3> QED
      BY <3>2, <3>3, <3>4
  <2> QED
    BY <2>1, <2>3 DEF ChainInv, ChainTypeOK
<1>4. CASE UNCHANGED chainVars
  <2>1. UNCHANGED <<leaf, sup, mutex>>
    BY <1>4 DEF chainVars
  <2>2. \A op, q : Required(op, q)' <=> Required(op, q)
    BY <2>1 DEF Required
  <2>3. ASSUME NEW q \in Supervisors
        PROVE  (Excluded(q) /\ Writing(q) /\ Phases(q) /\ Launched(q) /\ Terminated(q))'
    <3>1. Excluded(q) /\ Writing(q) /\ Phases(q) /\ Launched(q) /\ Terminated(q)
      BY DEF ChainInv
    <3>2. Writing(q)'
      BY <2>1, <2>2, <3>1 DEF Writing, Wrote, Required
    <3>3. Excluded(q)' /\ Phases(q)' /\ Launched(q)' /\ Terminated(q)'
      BY <2>1, <3>1 DEF Excluded, Phases, Launched, Terminated, Ended
    <3> QED
      BY <3>2, <3>3
  <2> QED
    BY <2>1, <2>3 DEF ChainInv, ChainTypeOK
<1> QED
  BY <1>1, <1>2, <1>3, <1>4 DEF ChainNext

\* It holds before any supervisor has started.
LEMMA ChainInvInit == ChainInit => ChainInv
<1> SUFFICES ASSUME ChainInit PROVE ChainInv
  OBVIOUS
<1>1. /\ DOMAIN leaf = Leaves /\ DOMAIN sup = Supervisors
      /\ leaf["TERMINAL"] = Absent /\ \A p \in Supervisors : sup[p] = Fresh
  BY DEF ChainInit, Leaves
<1>2. /\ DOMAIN Fresh = Fields /\ Fresh.ctl = "UNINITIALIZED" /\ Fresh.pc = "idle" /\ Fresh.op \in Ops
      /\ Fresh.raw = "none" /\ Fresh.used = FALSE /\ Fresh.retained = "none" /\ Fresh.driver = "none"
      /\ Fresh.stuck = FALSE
  BY DEF Fresh, Fields, Ops
<1>3. ASSUME NEW p \in Supervisors
      PROVE  Excluded(p) /\ Writing(p) /\ Phases(p) /\ Launched(p) /\ Terminated(p)
  <2>1. Excluded(p) /\ Writing(p)
    BY <1>1, <1>2 DEF Excluded, InsideMutation, Writing, Wrote
  <2>2. Phases(p) /\ Launched(p)
    BY <1>1, <1>2 DEF Phases, Launched, Ended
  <2>3. Terminated(p)
    BY <1>1, <1>2 DEF Terminated, Mutating, InsideMutation
  <2> QED
    BY <2>1, <2>2, <2>3
<1> QED
  BY <1>1, <1>2, <1>3 DEF ChainInv, ChainTypeOK

\* Whoever was authorised to start the camera is the one whose epoch consumed the
\* authority and holds the grant, however many supervisors start, fail and race (consume,
\* issue_grant, authorize_grant).
THEOREM LaunchBackedInvariant == ChainSpec => []LaunchBacked
<1>1. ChainInv => LaunchBacked
  <2> SUFFICES ASSUME ChainInv, NEW p \in Supervisors, sup[p].used
               PROVE  /\ leaf["PREPARED"] = Rec("CONSUMED", p)
                      /\ leaf["GRANT"] # Absent
                      /\ sup[p].driver = "running" => leaf["GRANT"] = Rec("ISSUED", p)
    BY DEF LaunchBacked
  <2>1. Phases(p) /\ Launched(p)
    BY DEF ChainInv
  <2> QED
    BY <2>1 DEF Phases, Launched
<1> QED
  BY <1>1, ChainInvInit, ChainInvStep, PTL DEF ChainSpec

\* A run reported as TERMINAL left exactly the records a later inspection accepts, and an
\* attempt that ended, on whichever step, retains neither a lease nor the capability
\* (D1N2ExecutionBridge.run, abort_pre_bridge, _load_existing_state).
THEOREM TerminalTruthfulInvariant == ChainSpec => []TerminalTruthful
<1>1. ChainInv => TerminalTruthful
  <2> SUFFICES ASSUME ChainInv, NEW p \in Supervisors
               PROVE  /\ sup[p].ctl = "TERMINAL" =>
                           /\ Loaded = "TERMINAL" /\ leaf["TERMINAL"] = Rec("TERMINAL", p)
                           /\ sup[p].driver = "COMPLETED" /\ sup[p].retained = "clean"
                      /\ Ended(p) => sup[p].retained # "held" /\ sup[p].raw = "none"
    BY DEF TerminalTruthful
  <2>1. Phases(p) /\ Terminated(p)
    BY DEF ChainInv
  <2>2. ASSUME sup[p].ctl = "TERMINAL" PROVE Loaded = "TERMINAL"
    <3>1. /\ leaf["PREPARED"] = Rec("CONSUMED", p) /\ leaf["GRANT"] = Rec("REVOKED", p)
          /\ leaf["TERMINAL"] = Rec("TERMINAL", p)
      BY <2>1, <2>2 DEF Terminated
    <3>2. /\ leaf["PREPARED"].kind = "CONSUMED" /\ leaf["PREPARED"].by = p /\ leaf["GRANT"].kind = "REVOKED"
          /\ leaf["TERMINAL"].kind = "TERMINAL" /\ leaf["TERMINAL"].by = p /\ leaf["TERMINAL"] # Absent
      BY <3>1, Records
    <3>3. \A l \in Leaves : leaf[l].kind \in LeafKinds[l]
      BY <3>2 DEF Leaves, LeafKinds
    <3>4. leaf["GRANT"] = Rec("REVOKED", leaf["PREPARED"].by) /\ leaf["TERMINAL"].by = leaf["PREPARED"].by
      BY <3>1, <3>2
    <3> QED
      BY <3>2, <3>3, <3>4 DEF Loaded
  <2> QED
    BY <2>1, <2>2 DEF Phases, Terminated
<1> QED
  BY <1>1, ChainInvInit, ChainInvStep, PTL DEF ChainSpec

------------------------------------------------------------------------------
(* Each of the three stores implements SingleUse. *)

\* What a step of the N1 store does to the promise.
NativeRefined == [NativeUse!Next]_(NativeUse!singleUse)

\* A step that leaves the three files alone, and the set of those who captured, is a stutter.
LEMMA NativeUseRest ==
  ASSUME UNCHANGED <<nPrepared, nGrant, nTerminal, nCaptures>>
  PROVE  NativeRefined
BY DEF NativeRefined, NativeUse!singleUse

\* Every step of a caller is a step of SingleUse or a stutter.
LEMMA NativeUseStep ==
  ASSUME NativeInv, [NativeNext]_nativeVars
  PROVE  NativeRefined
<1> USE DEF NativeInv
<1>1. ASSUME NEW c \in Callers,
             native_prepare(c) \/ native_liveness(c) \/ native_take(c) \/ worker_ends(c) \/ native_crash(c)
      PROVE  NativeRefined
  BY <1>1, NativeUseRest
     DEF native_prepare, native_liveness, native_take, worker_ends, native_crash, nativeStore
<1>2. ASSUME NEW c \in Callers, native_save(c) \/ native_finalize(c) PROVE NativeRefined
  <2>1. /\ nPrepared # "CONSUMED" \/ nPrepared' = nPrepared
        /\ nPrepared' # "CONSUMED" \/ nPrepared' = nPrepared
        /\ UNCHANGED <<nGrant, nTerminal, nCaptures>>
    BY <1>2 DEF native_save, native_finalize
  <2> QED
    BY <2>1 DEF NativeRefined, NativeUse!singleUse
<1>3. ASSUME NEW c \in Callers, native_consume(c) PROVE NativeRefined
  <2>1. /\ nPrepared' = nPrepared \/ (nPrepared # "CONSUMED" /\ nPrepared' = "CONSUMED")
        /\ UNCHANGED <<nGrant, nTerminal, nCaptures>>
    BY <1>3 DEF native_consume
  <2> QED
    BY <2>1, NativeUseRest DEF NativeRefined, NativeUse!Next, NativeUse!Spend
<1>4. ASSUME NEW c \in Callers, native_issue(c) PROVE NativeRefined
  <2>1. /\ UNCHANGED <<nPrepared, nTerminal, nCaptures>>
        /\ \/ nGrant' = nGrant
           \/ /\ nPrepared = "CONSUMED" /\ nTerminal = NoTerminal /\ nGrant = NoGrant
              /\ nGrant' = [state |-> "ISSUED", by |-> c]
    BY <1>4 DEF native_issue
  <2>2. CASE nGrant' = [state |-> "ISSUED", by |-> c] /\ nGrant = NoGrant /\ nPrepared = "CONSUMED"
             /\ nTerminal = NoTerminal
    <3>1. nGrant' # NoGrant
      BY <2>2 DEF NoGrant
    <3>2. {d \in Callers : nGrant' = [state |-> "ISSUED", by |-> d]} = {c}
      BY <2>2
    <3>3. NativeUse!Grant(c)
      BY <2>1, <2>2, <3>1, <3>2 DEF NativeUse!Grant
    <3> QED
      BY <3>3 DEF NativeRefined, NativeUse!Next
  <2> QED
    BY <2>1, <2>2, NativeUseRest
<1>5. ASSUME NEW c \in Callers, worker_accepts(c) PROVE NativeRefined
  <2>1. /\ nCaller[c].pc = "launch" /\ UNCHANGED <<nPrepared, nGrant, nTerminal>>
        /\ \/ nCaptures' = nCaptures
           \/ nGrant = [state |-> "ISSUED", by |-> c] /\ nCaptures' = nCaptures \cup {c}
    BY <1>5 DEF worker_accepts, nativeStore
  <2>2. nTerminal = NoTerminal
    BY <2>1 DEF OneSpender, Spending
  <2>3. CASE nGrant = [state |-> "ISSUED", by |-> c] /\ nCaptures' = nCaptures \cup {c} /\ c \notin nCaptures
    <3>1. nCaptures = {}
      BY <2>3 DEF GrantOwned
    <3>2. NativeUse!Use(c)
      BY <2>1, <2>2, <2>3, <3>1 DEF NativeUse!Use
    <3> QED
      BY <3>2 DEF NativeRefined, NativeUse!Next
  <2> QED
    BY <2>1, <2>3, NativeUseRest
<1>6. ASSUME NEW c \in Callers, native_revoke(c) PROVE NativeRefined
  <2>1. /\ nCaller[c].pc = "revoke" /\ UNCHANGED <<nPrepared, nTerminal, nCaptures>>
        /\ nGrant' = nGrant \/ nGrant' = [nGrant EXCEPT !.state = "REVOKED"]
    BY <1>6 DEF native_revoke
  <2>2. nGrant = [state |-> "ISSUED", by |-> c]
    BY <2>1 DEF GrantOwned
  <2>3. CASE nGrant' = [nGrant EXCEPT !.state = "REVOKED"]
    <3>1. nGrant' = [state |-> "REVOKED", by |-> c]
      BY <2>2, <2>3
    <3>2. nGrant # NoGrant /\ nGrant' # NoGrant
      BY <2>2, <3>1 DEF NoGrant
    <3>3. {d \in Callers : nGrant' = [state |-> "ISSUED", by |-> d]} = {}
      BY <3>1
    <3>4. NativeUse!Revoke
      BY <2>1, <3>2, <3>3 DEF NativeUse!Revoke
    <3> QED
      BY <3>4 DEF NativeRefined, NativeUse!Next
  <2> QED
    BY <2>1, <2>3, NativeUseRest
<1>7. ASSUME NEW c \in Callers, native_terminalize(c) PROVE NativeRefined
  <2>1. /\ UNCHANGED <<nPrepared, nGrant, nCaptures>>
        /\ \/ nTerminal' = nTerminal
           \/ /\ nPrepared = "CONSUMED" /\ nTerminal = NoTerminal
              /\ nTerminal' = [outcome |-> nCaller[c].candidate, by |-> c]
    BY <1>7 DEF native_terminalize
  <2>2. CASE nTerminal = NoTerminal /\ nTerminal' = [outcome |-> nCaller[c].candidate, by |-> c] /\ nPrepared = "CONSUMED"
    <3>1. nTerminal' # NoTerminal
      BY <2>2 DEF NoTerminal
    <3>2. NativeUse!End
      BY <2>1, <2>2, <3>1 DEF NativeUse!End
    <3> QED
      BY <3>2 DEF NativeRefined, NativeUse!Next
  <2> QED
    BY <2>1, <2>2, NativeUseRest
<1>8. CASE UNCHANGED nativeVars
  BY <1>8, NativeUseRest DEF nativeVars
<1> QED
  BY <1>1, <1>2, <1>3, <1>4, <1>5, <1>6, <1>7, <1>8 DEF NativeNext

\* The N1 store implements SingleUse, whoever calls, retries or dies (consume,
\* issue_worker_grant, revoke_worker_grant, finalize_terminal).
THEOREM NativeUsedOnceHolds == NativeSpec => NativeUsedOnce
<1>1. NativeInit => NativeUse!Init
  BY DEF NativeInit, NativeUse!Init, NoGrant
<1>2. NativeInv /\ [NativeNext]_nativeVars => [NativeUse!Next]_(NativeUse!singleUse)
  BY NativeUseStep DEF NativeRefined
<1> QED
  BY <1>1, <1>2, NativeInvInit, NativeInvStep, PTL DEF NativeSpec, NativeUsedOnce, NativeUse!Spec

\* What a step of the pathname store does to the promise.
StagedRefined == [StagedUse!Next]_(StagedUse!singleUse)

\* The promise reads the leaves, and whether the grant is being written.
LEMMA StagedUseRest ==
  ASSUME UNCHANGED stLeaf, grant_in_writing' <=> grant_in_writing
  PROVE  StagedRefined
BY DEF StagedRefined, StagedUse!singleUse

\* A torn grant that nobody writes any more is forfeited.
LEMMA StagedUseLost ==
  ASSUME StagedInv, UNCHANGED stLeaf, ~grant_in_writing'
  PROVE  StagedRefined
<1>1. CASE ~grant_in_writing
  BY <1>1, StagedUseRest
<1>2. CASE grant_in_writing
  <2>1. PICK c \in Stagers : stCall[c].at = "flush" /\ stCall[c].step = "issue_worker_grant"
    BY <1>2 DEF grant_in_writing
  <2>2. stLeaf["grant"] = TornLeaf
    BY <2>1 DEF StagedInv, CallsSound, CallSound, LeafOf
  <2>3. stLeaf["grant"] # Missing /\ stLeaf["authority"].state = "CONSUMED"
    BY <2>2 DEF StagedInv, LeavesBound, TornLeaf, Missing
  <2>4. StagedUse!Forfeit
    BY <1>2, <2>3 DEF StagedUse!Forfeit
  <2> QED
    BY <2>4 DEF StagedRefined, StagedUse!Next
<1> QED
  BY <1>1, <1>2

\* Every step of the pathname store is a step of SingleUse or a stutter: a leaf counts
\* once it is completely written, and the holder of the mutex is the only one who writes.
LEMMA StagedUseStep ==
  ASSUME StagedInv, [StagedNext]_stagedVars
  PROVE  StagedRefined
<1>0. StagedTypeOK /\ StagedExclusion /\ LeavesBound /\ CallsSound
  BY DEF StagedInv
<1>a. ASSUME NEW c \in Stagers, stCall[c].at # "idle" PROVE \A d \in Stagers : d # c => stCall[d].at = "idle"
  BY <1>0, <1>a DEF StagedExclusion
\* whoever moves between two states other than flush does not write the grant
<1>b. ASSUME NEW c \in Stagers, NEW call, stCall' = [stCall EXCEPT ![c] = call],
             stCall[c].at # "flush", call.at # "flush"
      PROVE  grant_in_writing' <=> grant_in_writing
  <2>1. stCall'[c] = call /\ \A d \in Stagers : d # c => stCall'[d] = stCall[d]
    BY <1>0, <1>b DEF StagedTypeOK
  <2> QED
    BY <2>1, <1>b DEF grant_in_writing
\* nobody writes it once the holder has left its step
<1>c. ASSUME NEW c \in Stagers, NEW call, stCall' = [stCall EXCEPT ![c] = call],
             stCall[c].at # "idle", call.at # "flush"
      PROVE  ~grant_in_writing'
  <2>1. stCall'[c] = call /\ \A d \in Stagers : d # c => stCall'[d] = stCall[d]
    BY <1>0, <1>c DEF StagedTypeOK
  <2> QED
    BY <2>1, <1>a, <1>c DEF grant_in_writing
<1>d. ASSUME NEW c \in Stagers, NEW at \in WritingAt, stCall[c].at \in WritingAt
      PROVE  [stCall[c] EXCEPT !.at = at].at = at /\ [stCall[c] EXCEPT !.at = at].step = stCall[c].step
  <2>1. stCall[c] \in [step : Steps, at : WritingAt, record : StagedRecords]
    BY <1>0, <1>d DEF StagedTypeOK, StagedCalls, SettledAt, WritingAt
  <2> QED
    BY <2>1
<1>1. ASSUME NEW c \in Stagers, inspect(c) PROVE StagedRefined
  BY <1>1, StagedUseRest DEF inspect, grant_in_writing
<1>2. ASSUME NEW c \in Stagers, NEW step \in Steps, step_begins(c, step) PROVE StagedRefined
  <2> DEFINE call == [step |-> step, at |-> "write", record |-> NewRecord(c, step)]
  <2>1. stCall[c].at = "idle" /\ stCall' = [stCall EXCEPT ![c] = call] /\ UNCHANGED stLeaf
    BY <1>2 DEF step_begins, Becomes
  <2>2. call.at = "write"
    OBVIOUS
  <2> HIDE DEF call
  <2> QED
    BY <1>b, <2>1, <2>2, StagedUseRest
<1>3. ASSUME NEW c \in Stagers, transition_reads(c) PROVE StagedRefined
  BY <1>3, <1>b, <1>d, StagedUseRest DEF transition_reads, Becomes, WritingAt
<1>4. ASSUME NEW c \in Stagers, step_durable(c) PROVE StagedRefined
  BY <1>4, <1>b, <1>d, StagedUseRest DEF step_durable, Becomes, WritingAt
<1>5. ASSUME NEW c \in Stagers, step_returns(c) \/ release_fails(c) PROVE StagedRefined
  BY <1>5, <1>b, StagedUseRest DEF step_returns, release_fails, Becomes, Idle
<1>6. ASSUME NEW c \in Stagers, step_fails(c) \/ stager_ends(c) PROVE StagedRefined
  <2>1. PICK call \in {Idle, [step |-> stCall[c].step, at |-> "fallback"]} :
          stCall' = [stCall EXCEPT ![c] = call]
    BY <1>6 DEF step_fails, stager_ends, Becomes
  <2>2. stCall[c].at # "idle" /\ call.at # "flush" /\ UNCHANGED stLeaf
    BY <1>6, <2>1 DEF step_fails, stager_ends, Idle
  <2> QED
    BY <1>c, <2>1, <2>2, StagedUseLost
<1>7. CASE stage_clock
  BY <1>7, StagedUseRest DEF stage_clock, grant_in_writing
<1>8. CASE reboot
  BY <1>8, StagedUseLost DEF reboot, grant_in_writing, Idle
<1>9. ASSUME NEW c \in Stagers, create_opens(c) PROVE StagedRefined
  <2> DEFINE step == stCall[c].step
  <2>1. /\ stCall[c].at = "write" /\ Creates(step) /\ stLeaf[LeafOf(step)] = Missing
        /\ stLeaf' = [stLeaf EXCEPT ![LeafOf(step)] = TornLeaf]
        /\ stCall' = [stCall EXCEPT ![c] = [stCall[c] EXCEPT !.at = "flush"]]
    BY <1>9 DEF create_opens, Becomes
  <2>2. stCall'[c].at = "flush" /\ stCall'[c].step = step /\ \A d \in Stagers : d # c => stCall'[d].at = "idle"
    BY <1>0, <1>a, <1>d, <2>1 DEF StagedTypeOK, WritingAt
  <2>3. ~grant_in_writing /\ (grant_in_writing' <=> step = "issue_worker_grant")
    BY <1>a, <2>1, <2>2 DEF grant_in_writing
  <2>4. /\ LeafOf(step) \in LeafNames /\ stLeaf'[LeafOf(step)] = TornLeaf
        /\ \A l \in LeafNames : l # LeafOf(step) => stLeaf'[l] = stLeaf[l]
    BY <1>0, <2>1 DEF StagedTypeOK, LeafOf, LeafNames
  <2>5. Missing.state = "MISSING" /\ TornLeaf.state = "TORN"
    BY DEF Missing, TornLeaf
  <2> HIDE DEF step
  <2>6. CASE step = "issue_worker_grant"
    <3>1. /\ stLeaf["grant"] = Missing /\ stLeaf'["grant"] = TornLeaf
          /\ stLeaf'["authority"] = stLeaf["authority"] /\ stLeaf'["terminal"] = stLeaf["terminal"]
      BY <2>1, <2>4, <2>6 DEF LeafOf, LeafNames
    <3> QED
      BY <2>3, <2>5, <2>6, <3>1 DEF StagedRefined, StagedUse!singleUse
  <2>7. CASE step # "issue_worker_grant"
    <3>1. /\ stLeaf'["grant"] = stLeaf["grant"]
          /\ \A l \in {"authority", "terminal"} :
               stLeaf'[l] = stLeaf[l] \/ (stLeaf[l] = Missing /\ stLeaf'[l] = TornLeaf)
      BY <2>1, <2>4, <2>7 DEF Creates, LeafOf, LeafNames
    <3>2. /\ (stLeaf'["authority"].state = "CONSUMED") = (stLeaf["authority"].state = "CONSUMED")
          /\ (stLeaf'["terminal"].state = "TERMINAL") = (stLeaf["terminal"].state = "TERMINAL")
      BY <2>5, <3>1
    <3> QED
      BY <2>3, <2>7, <3>1, <3>2 DEF StagedRefined, StagedUse!singleUse
  <2> QED
    BY <2>6, <2>7
<1>10. ASSUME NEW c \in Stagers, create_flushes(c) \/ transition_replaces(c) PROVE StagedRefined
  <2> DEFINE step == stCall[c].step
             record == stCall[c].record
  <2>1. /\ stCall[c].at \in {"flush", "replace"}
        /\ stLeaf' = [stLeaf EXCEPT ![LeafOf(step)] = record]
        /\ stCall' = [stCall EXCEPT ![c] = [stCall[c] EXCEPT !.at = "durable"]]
    BY <1>10 DEF create_flushes, transition_replaces, Becomes
  <2>2. step \in Steps
    BY <1>0, <2>1 DEF StagedTypeOK, StagedCalls, SettledAt
  <2>3. ~grant_in_writing'
    BY <1>c, <1>d, <2>1 DEF WritingAt
  <2>4. grant_in_writing <=> stCall[c].at = "flush" /\ step = "issue_worker_grant"
    BY <1>a, <2>1 DEF grant_in_writing
  <2>5. /\ Made(c)
        /\ stCall[c].at = "flush" => Creates(step) /\ stLeaf[LeafOf(step)] = TornLeaf
        /\ stCall[c].at = "replace" => ~Creates(step) /\ Ready(c)
    BY <1>0, <2>1 DEF CallsSound, CallSound
  <2>6. LeafOf(step) \in LeafNames /\ stLeaf'[LeafOf(step)] = record
        /\ \A l \in LeafNames : l # LeafOf(step) => stLeaf'[l] = stLeaf[l]
    BY <1>0, <2>1 DEF StagedTypeOK, LeafOf, LeafNames
  <2>7. TornLeaf.state = "TORN" /\ Missing.state = "MISSING" /\ TornLeaf # Missing
    BY DEF TornLeaf, Missing
  <2> HIDE DEF step, record
  <2>8. CASE step \in {"reserve_pending", "finalize_prepared"}
    <3>1. /\ stLeaf["authority"].state # "CONSUMED" /\ record.state # "CONSUMED"
      BY <2>1, <2>5, <2>7, <2>8 DEF Made, Ready, Creates, LeafOf, step, record
    <3>2. stLeaf'["authority"] = record /\ stLeaf'["grant"] = stLeaf["grant"] /\ stLeaf'["terminal"] = stLeaf["terminal"]
      BY <2>6, <2>8 DEF LeafOf, LeafNames
    <3> QED
      BY <2>3, <2>4, <2>8, <3>1, <3>2 DEF StagedRefined, StagedUse!singleUse
  <2>9. CASE step = "consume"
    <3>1. stLeaf["authority"].state = "PREPARED" /\ record.state = "CONSUMED"
      BY <2>1, <2>5, <2>9 DEF Made, Ready, Creates, step, record
    <3>2. stLeaf'["authority"] = record /\ stLeaf'["grant"] = stLeaf["grant"] /\ stLeaf'["terminal"] = stLeaf["terminal"]
      BY <2>6, <2>9 DEF LeafOf, LeafNames
    <3>3. StagedUse!Spend
      BY <2>3, <2>4, <2>9, <3>1, <3>2 DEF StagedUse!Spend
    <3> QED
      BY <3>3 DEF StagedRefined, StagedUse!Next
  <2>10. CASE step = "issue_worker_grant"
    <3>1. /\ stCall[c].at = "flush" /\ stLeaf["grant"] = TornLeaf /\ record.state = "ISSUED" /\ record.capability = c
      BY <2>1, <2>5, <2>10 DEF Made, Creates, LeafOf, step, record
    <3>2. stLeaf'["grant"] = record /\ stLeaf'["authority"] = stLeaf["authority"] /\ stLeaf'["terminal"] = stLeaf["terminal"]
      BY <2>6, <2>10 DEF LeafOf, LeafNames
    <3>3. stLeaf["authority"].state = "CONSUMED" /\ stLeaf["terminal"] = Missing
      BY <1>0, <2>7, <3>1 DEF LeavesBound
    <3>4. {d \in Stagers : stLeaf'["grant"].state = "ISSUED" /\ stLeaf'["grant"].capability = d} = {c}
      BY <3>1, <3>2
    <3>5. stLeaf'["grant"] # Missing
      BY <2>7, <3>1, <3>2
    <3>6. StagedUse!Grant(c)
      BY <2>3, <2>4, <2>7, <2>10, <3>1, <3>2, <3>3, <3>4, <3>5 DEF StagedUse!Grant
    <3> QED
      BY <3>6 DEF StagedRefined, StagedUse!Next
  <2>11. CASE step = "revoke_worker_grant"
    <3>1. /\ stLeaf["grant"].state = "ISSUED" /\ record = [stLeaf["grant"] EXCEPT !.state = "REVOKED"]
      BY <2>1, <2>5, <2>11 DEF Made, Ready, Creates, step, record
    <3>2. stLeaf["grant"] \in Grants
      BY <1>0, <3>1, StagedShapes
    <3>3. record.state = "REVOKED"
      BY <3>1, <3>2 DEF Grants
    <3>4. stLeaf'["grant"] = record /\ stLeaf'["authority"] = stLeaf["authority"] /\ stLeaf'["terminal"] = stLeaf["terminal"]
      BY <2>6, <2>11 DEF LeafOf, LeafNames
    <3>5. stLeaf["grant"] # Missing /\ stLeaf'["grant"] # Missing
      BY <2>7, <3>1, <3>3, <3>4
    <3>6. {d \in Stagers : stLeaf'["grant"].state = "ISSUED" /\ stLeaf'["grant"].capability = d} = {}
      BY <3>3, <3>4
    <3>7. StagedUse!Revoke
      BY <2>3, <2>4, <2>11, <3>4, <3>5, <3>6 DEF StagedUse!Revoke
    <3> QED
      BY <3>7 DEF StagedRefined, StagedUse!Next
  <2>12. CASE step = "finalize_terminal"
    <3>1. stLeaf["terminal"] = TornLeaf /\ record \in Terminals
      BY <2>1, <2>5, <2>12 DEF Made, Creates, LeafOf, step, record
    <3>2. record.state = "TERMINAL"
      BY <3>1 DEF Terminals
    <3>3. stLeaf'["terminal"] = record /\ stLeaf'["authority"] = stLeaf["authority"] /\ stLeaf'["grant"] = stLeaf["grant"]
      BY <2>6, <2>12 DEF LeafOf, LeafNames
    <3>4. stLeaf["grant"].state = "REVOKED" /\ stLeaf["grant"] # Missing /\ stLeaf["authority"].state = "CONSUMED"
      BY <1>0, <2>7, <3>1 DEF LeavesBound
    <3>5. StagedUse!End
      BY <2>3, <2>4, <2>7, <2>12, <3>1, <3>2, <3>3, <3>4 DEF StagedUse!End
    <3> QED
      BY <3>5 DEF StagedRefined, StagedUse!Next
  <2> QED
    BY <2>2, <2>8, <2>9, <2>10, <2>11, <2>12 DEF Steps
<1>11. CASE UNCHANGED stagedVars
  BY <1>11, StagedUseRest DEF stagedVars, grant_in_writing
<1> QED
  BY <1>1, <1>2, <1>3, <1>4, <1>5, <1>6, <1>7, <1>8, <1>9, <1>10, <1>11 DEF StagedNext

\* The pathname store implements SingleUse, across processes that end in the middle of a
\* step and across reboots (_create, _transition, _under_mutex).
THEOREM StagedUsedOnceHolds == StagedSpec => StagedUsedOnce
<1>1. StagedInit => StagedUse!Init
  BY DEF StagedInit, StagedUse!Init, LeafNames, Missing
<1>2. StagedInv /\ [StagedNext]_stagedVars => [StagedUse!Next]_(StagedUse!singleUse)
  BY StagedUseStep DEF StagedRefined
<1> QED
  BY <1>1, <1>2, StagedInvInit, StagedInvStep, PTL DEF StagedSpec, StagedUsedOnce, StagedUse!Spec

\* What a step of the canonical chain does to the promise.
ChainRefined == [ChainUse!Next]_(ChainUse!singleUse)

\* Set moves one supervisor, and tells where it goes and what it used.
LEMMA SetMoves ==
  ASSUME ChainTypeOK, NEW p \in Supervisors, NEW f, Set(p, f)
  PROVE  /\ sup'[p].pc = IF "pc" \in DOMAIN f THEN f.pc ELSE sup[p].pc
         /\ sup'[p].op = IF "op" \in DOMAIN f THEN f.op ELSE sup[p].op
         /\ sup'[p].used = IF "used" \in DOMAIN f THEN f.used ELSE sup[p].used
         /\ \A q \in Supervisors : q # p => sup'[q] = sup[q]
<1>1. DOMAIN sup = Supervisors /\ DOMAIN sup[p] = Fields
  BY DEF ChainTypeOK
<1>2. sup'[p] = Over(f, sup[p]) /\ \A q \in Supervisors : q # p => sup'[q] = sup[q]
  BY <1>1 DEF Set
<1>3. "pc" \in DOMAIN sup[p] /\ "op" \in DOMAIN sup[p] /\ "used" \in DOMAIN sup[p]
  BY <1>1 DEF Fields
<1> QED
  BY <1>2, <1>3 DEF Over

\* A step in memory, of a supervisor that writes neither before nor after it.
LEMMA ChainUseRest ==
  ASSUME NEW p \in Supervisors, UNCHANGED leaf, \A q \in Supervisors : q # p => sup'[q] = sup[q],
         sup[p].pc # "write", sup'[p].pc # "write", sup'[p].used = sup[p].used
  PROVE  ChainRefined
<1>1. issue_in_writing' <=> issue_in_writing
  BY DEF issue_in_writing
<1>2. \A q \in Supervisors : sup'[q].used = sup[q].used
  OBVIOUS
<1>3. {q \in Supervisors : sup'[q].used} = {q \in Supervisors : sup[q].used}
  BY <1>2
<1> QED
  BY <1>1, <1>3 DEF ChainRefined, ChainUse!singleUse

\* The bridge between two mutations, and the mutations as long as no leaf is open.
LEMMA ChainUseMemory ==
  ASSUME ChainInv, NEW p \in Supervisors,
         \/ load(p) \/ begin_mutation(p) \/ post_write(p) \/ finish(p) \/ after_prepare(p)
         \/ revalidate_for_run(p) \/ consume(p) \/ after_consume(p) \/ after_issue(p) \/ driver_returns(p)
         \/ after_revoke(p) \/ close_retained_for_terminal(p) \/ after_terminalize(p)
         \/ prepare(p) \/ run(p) \/ expire(p)
  PROVE  ChainRefined
<1>0. ChainTypeOK /\ Phases(p)
  BY DEF ChainInv
<1>a. ASSUME NEW f, Set(p, f), UNCHANGED leaf, sup[p].pc # "write",
             "pc" \in DOMAIN f => f.pc # "write", "used" \notin DOMAIN f
      PROVE  ChainRefined
  BY <1>0, <1>a, SetMoves, ChainUseRest
<1>b. ASSUME NEW f, abort_pre_bridge(p, f), UNCHANGED leaf, sup[p].pc # "write", DOMAIN f \subseteq {"state", "live"}
      PROVE  ChainRefined
  <2> DEFINE g(unclean) == Over([ctl |-> "FAILED_NONLAUNCHABLE", pc |-> "idle",
                                 retained |-> IF sup[p].retained = "none" THEN "none"
                                              ELSE IF unclean THEN "unclean" ELSE "clean"], f)
  <2>1. PICK unclean \in Faults : Set(p, g(unclean))
    BY <1>b, Zenon DEF abort_pre_bridge
  <2>2. g(unclean).pc = "idle" /\ "used" \notin DOMAIN g(unclean)
    BY <1>b DEF Over
  <2> HIDE DEF g
  <2> QED
    BY <1>a, <1>b, <2>1, <2>2
<1>1. CASE load(p)
  <2>1. sup[p].pc = "load" /\ UNCHANGED leaf
    BY <1>1 DEF load
  <2>2. PICK found : \/ Set(p, [state |-> found, pc |-> "begin", op |-> "PENDING", out |-> "OK"])
                     \/ abort_pre_bridge(p, [state |-> found])
    BY <1>1, Zenon DEF load
  <2> QED
    BY <1>a, <1>b, <2>1, <2>2
<1>2. CASE begin_mutation(p)
  <2>1. sup[p].pc = "begin" /\ UNCHANGED leaf
    BY <1>2 DEF begin_mutation
  <2>2. \/ Set(p, [pc |-> "inspect"]) \/ Set(p, [pc |-> "finish", out |-> "OWNER_ABANDONED"])
        \/ Set(p, [pc |-> "after", out |-> "OWNER_UNAVAILABLE"]) \/ Set(p, [pc |-> "finish", out |-> "LEASE_DRIFT"])
    BY <1>2, Zenon DEF begin_mutation
  <2> QED
    BY <1>a, <2>1, <2>2
<1>3. CASE post_write(p)
  <2>1. sup[p].pc = "post" /\ UNCHANGED leaf
    BY <1>3 DEF post_write
  <2>2. PICK out, state :
           \/ Set(p, [pc |-> "inspect", op |-> "PREPARE"]) \/ Set(p, [pc |-> "finish"])
           \/ Set(p, [pc |-> "finish", out |-> out, state |-> state])
           \/ Set(p, [pc |-> "finish", out |-> out])
    BY <1>3, Zenon DEF post_write
  <2> QED
    BY <1>a, <2>1, <2>2
<1>4. CASE finish(p)
  <2>1. sup[p].pc = "finish" /\ UNCHANGED leaf
    BY <1>4 DEF finish
  <2>2. PICK stuck, state :
           \/ Set(p, [pc |-> "after"])
           \/ Set(p, [pc |-> "after", out |-> "CLEANUP_FAILED", stuck |-> stuck, state |-> state])
    BY <1>4, Zenon DEF finish
  <2> QED
    BY <1>a, <2>1, <2>2
<1>5. CASE after_prepare(p)
  <2>1. sup[p].pc = "after" /\ UNCHANGED leaf
    BY <1>5 DEF after_prepare
  <2>2. PICK live : \/ Set(p, [pc |-> "idle", ctl |-> "PREPARED_WAITING_A1", live |-> "prepared"])
                    \/ abort_pre_bridge(p, [live |-> live])
    BY <1>5, Zenon DEF after_prepare
  <2> QED
    BY <1>a, <1>b, <2>1, <2>2
<1>6. CASE revalidate_for_run(p) \/ consume(p) \/ after_consume(p) \/ after_issue(p)
  <2>1. sup[p].pc # "write" /\ UNCHANGED leaf
    BY <1>6 DEF revalidate_for_run, consume, after_consume, after_issue
  <2>2. \/ Set(p, [pc |-> "consume"]) \/ Set(p, [pc |-> "close"])
        \/ Set(p, [pc |-> "begin", op |-> "CONSUME", out |-> "OK"])
        \/ Set(p, [pc |-> "close", live |-> "none", state |-> "STALE_PREPARED"])
        \/ Set(p, [pc |-> "begin", op |-> "ISSUE_GRANT", live |-> "consumed"])
        \/ Set(p, [pc |-> "authorize", raw |-> "held"])
        \/ Set(p, [pc |-> "begin", op |-> "REVOKE_GRANT", out |-> "OK"])
    BY <1>6, Zenon DEF revalidate_for_run, consume, after_consume, after_issue
  <2> QED
    BY <1>a, <2>1, <2>2
<1>7. CASE driver_returns(p) \/ after_revoke(p) \/ close_retained_for_terminal(p) \/ after_terminalize(p)
  <2>1. sup[p].pc # "write" /\ UNCHANGED leaf
    BY <1>7 DEF driver_returns, after_revoke, close_retained_for_terminal, after_terminalize
  <2>2. PICK x : \/ Set(p, [pc |-> "begin", op |-> "REVOKE_GRANT", out |-> "OK", driver |-> x, raw |-> "none"])
                 \/ Set(p, [pc |-> "close", cleanOk |-> x])
                 \/ Set(p, [retained |-> x, pc |-> "begin", op |-> "TERMINALIZE", out |-> "OK"])
                 \/ Set(p, [retained |-> x, ctl |-> "FAILED_NONLAUNCHABLE", pc |-> "idle"])
                 \/ Set(p, [pc |-> "idle", ctl |-> x])
    BY <1>7, Zenon DEF driver_returns, after_revoke, close_retained_for_terminal, after_terminalize
  <2> QED
    BY <1>a, <2>1, <2>2
<1>8. CASE prepare(p) \/ run(p)
  <2>1. sup[p].pc = "idle" /\ UNCHANGED leaf
    BY <1>0, <1>8 DEF prepare, run, Phases
  <2>2. \/ Set(p, [ctl |-> "PREPARING", pc |-> "load"]) \/ Set(p, [ctl |-> "FAILED_NONLAUNCHABLE"])
        \/ Set(p, [ctl |-> "CONSUMED", pc |-> "revalidate"])
    BY <1>8, Zenon DEF prepare, run
  <2> QED
    BY <1>a, <2>1, <2>2
<1>9. CASE expire(p)
  <2>1. sup[p].pc # "write" /\ UNCHANGED leaf /\ Set(p, [expired |-> TRUE])
    BY <1>0, <1>9 DEF expire, Phases
  <2> QED
    BY <1>a, <2>1
<1> QED
  BY <1>1, <1>2, <1>3, <1>4, <1>5, <1>6, <1>7, <1>8, <1>9

\* The driver is called under a grant that is valid on disk, once, before the end.
LEMMA ChainUseGrant ==
  ASSUME ChainInv, NEW p \in Supervisors, authorize_grant(p)
  PROVE  ChainRefined
<1>0. ChainTypeOK /\ Phases(p) /\ Launched(p) /\ Terminated(p) /\ sup[p].pc = "authorize" /\ UNCHANGED leaf
  BY DEF ChainInv, authorize_grant
<1>1. CASE Set(p, [pc |-> "begin", op |-> "REVOKE_GRANT", raw |-> "none", out |-> "OK"])
  BY <1>0, <1>1, SetMoves, ChainUseRest
<1>2. CASE Set(p, [pc |-> "driver", raw |-> "handed", used |-> TRUE, driver |-> "running"])
  <2>1. sup'[p].pc = "driver" /\ sup'[p].used = TRUE /\ \A q \in Supervisors : q # p => sup'[q] = sup[q]
    BY <1>0, <1>2, SetMoves
  <2>2. leaf["PREPARED"] = Rec("CONSUMED", p) /\ leaf["GRANT"] = Rec("ISSUED", p)
    BY <1>0 DEF Launched
  <2>3. \A q \in Supervisors : sup[q].used => q = p
    <3> SUFFICES ASSUME NEW q \in Supervisors, sup[q].used PROVE q = p
      OBVIOUS
    <3>1. leaf["PREPARED"] = Rec("CONSUMED", q)
      BY DEF ChainInv, Launched
    <3> QED
      BY <2>2, <3>1, Records
  <2>4. leaf["TERMINAL"] = Absent
    BY <1>0, <2>2 DEF Terminated, Phases
  <2>5. {q \in Supervisors : sup'[q].used} = {p}
    BY <2>1, <2>3
  <2>6. issue_in_writing' <=> issue_in_writing
    BY <1>0, <2>1 DEF issue_in_writing
  <2>7. CASE sup[p].used
    <3>1. {q \in Supervisors : sup[q].used} = {p}
      BY <2>3, <2>7
    <3> QED
      BY <1>0, <2>5, <2>6, <3>1 DEF ChainRefined, ChainUse!singleUse
  <2>8. CASE ~sup[p].used
    <3>1. {q \in Supervisors : sup[q].used} = {}
      BY <2>3, <2>8
    <3>2. leaf["TERMINAL"].kind # "TERMINAL"
      BY <2>4 DEF Absent
    <3>3. p \in {q \in Supervisors : leaf["GRANT"] = Rec("ISSUED", q)}
      BY <2>2
    <3>4. ChainUse!Use(p)
      BY <1>0, <2>5, <2>6, <3>1, <3>2, <3>3 DEF ChainUse!Use
    <3> QED
      BY <3>4 DEF ChainRefined, ChainUse!Next
  <2> QED
    BY <2>7, <2>8
<1> QED
  BY <1>1, <1>2 DEF authorize_grant

\* The supervisor in a mutation owns the mutex: nobody else writes a leaf.
LEMMA OneWriter ==
  ASSUME ChainInv, NEW p \in Supervisors, sup[p].pc \in InsideMutation
  PROVE  \A q \in Supervisors : q # p => sup[q].pc \notin InsideMutation
BY DEF ChainInv, Excluded

\* Opening a leaf: what was there is no longer valid, what will be there is not yet.
LEMMA ChainUseInspect ==
  ASSUME ChainInv, NEW p \in Supervisors, inspect_and_open(p)
  PROVE  ChainRefined
<1> DEFINE op == sup[p].op
           l  == Target(op)
<1>0. /\ ChainTypeOK /\ op \in Ops /\ DOMAIN leaf = Leaves /\ sup[p].pc = "inspect"
  BY DEF ChainInv, ChainTypeOK, inspect_and_open
<1>a. ASSUME NEW f, Set(p, f), UNCHANGED leaf, f.pc = "finish", {"pc"} \subseteq DOMAIN f, "used" \notin DOMAIN f
      PROVE  ChainRefined
  BY <1>0, <1>a, SetMoves, ChainUseRest
<1>1. CASE mismatch(p) /\ UNCHANGED leaf
  <2>1. PICK out, state : Set(p, [pc |-> "finish", out |-> out, state |-> state])
    BY <1>1, Zenon DEF mismatch
  <2> QED
    BY <1>1, <1>a, <2>1
<1>2. CASE UNCHANGED leaf /\ Set(p, [pc |-> "finish", out |-> "ATTESTATION_FAILED"])
  BY <1>2, <1>a
<1>3. ASSUME NEW retained, UNCHANGED leaf,
             Set(p, [pc |-> "finish", out |-> "CREATE_FAILED", state |-> "PRESENT_INVALID", retained |-> retained])
      PROVE  ChainRefined
  BY <1>3, <1>a
<1>4. ASSUME NEW retained, leaf' = [leaf EXCEPT ![l] = Torn], leaf[l] = Prior(op, p), Required(op, p),
             Set(p, [pc |-> "write", retained |-> retained])
      PROVE  ChainRefined
  <2>1. /\ sup'[p].pc = "write" /\ sup'[p].op = op /\ sup'[p].used = sup[p].used
        /\ \A q \in Supervisors : q # p => sup'[q] = sup[q]
    BY <1>0, <1>4, SetMoves
  <2>2. {q \in Supervisors : sup'[q].used} = {q \in Supervisors : sup[q].used}
    <3>1. \A q \in Supervisors : sup'[q].used = sup[q].used
      BY <2>1
    <3> QED
      BY <3>1
  <2>3. ~issue_in_writing /\ (issue_in_writing' <=> op = "ISSUE_GRANT")
    <3>1. \A q \in Supervisors : q # p => sup[q].pc # "write" /\ sup'[q].pc # "write"
      BY <1>0, <2>1, OneWriter DEF InsideMutation
    <3> QED
      BY <1>0, <2>1, <3>1 DEF issue_in_writing
  <2>4. /\ leaf'[l] = Torn /\ \A m \in Leaves : m # l => leaf'[m] = leaf[m]
        /\ Leaves = {"PREPARED", "GRANT", "TERMINAL"}
    BY <1>0, <1>4, Operations DEF Leaves
  <2>5. Torn.kind = "TORN" /\ Absent.kind = "ABSENT" /\ Torn # Absent /\ \A q : Torn # Rec("ISSUED", q)
    BY Records DEF Torn, Absent
  <2> HIDE DEF op, l
  <2>6. CASE op \in {"PENDING", "PREPARE", "CONSUME"}
    <3>1. l = "PREPARED" /\ leaf["PREPARED"].kind # "CONSUMED"
      BY <1>4, <2>5, <2>6, Operations, Records DEF l
    <3> QED
      BY <2>2, <2>3, <2>4, <2>5, <2>6, <3>1 DEF ChainRefined, ChainUse!singleUse
  <2>7. CASE op = "ISSUE_GRANT"
    <3>1. l = "GRANT" /\ leaf["GRANT"] = Absent /\ \A q : leaf["GRANT"] # Rec("ISSUED", q)
      BY <1>4, <2>7, Operations, Records DEF l
    <3>2. {q \in Supervisors : leaf'["GRANT"] = Rec("ISSUED", q)} = {q \in Supervisors : leaf["GRANT"] = Rec("ISSUED", q)}
      BY <2>4, <2>5, <3>1
    <3> QED
      BY <2>2, <2>3, <2>4, <2>5, <2>7, <3>1, <3>2 DEF ChainRefined, ChainUse!singleUse
  <2>8. CASE op = "REVOKE_GRANT"
    <3>1. l = "GRANT" /\ leaf["GRANT"] = Rec("ISSUED", p) /\ leaf["GRANT"] # Absent
      BY <1>4, <2>8, Operations, Records DEF l
    <3>2. {q \in Supervisors : leaf'["GRANT"] = Rec("ISSUED", q)} = {}
      BY <2>4, <2>5, <3>1
    <3>3. ChainUse!Revoke
      BY <2>2, <2>3, <2>4, <2>5, <2>8, <3>1, <3>2 DEF ChainUse!Revoke
    <3> QED
      BY <3>3 DEF ChainRefined, ChainUse!Next
  <2>9. CASE op = "TERMINALIZE"
    <3>1. l = "TERMINAL" /\ leaf["TERMINAL"] = Absent
      BY <1>4, <2>9, Operations DEF l
    <3> QED
      BY <2>2, <2>3, <2>4, <2>5, <2>9, <3>1 DEF ChainRefined, ChainUse!singleUse
  <2> QED
    BY <1>0, <2>6, <2>7, <2>8, <2>9 DEF Ops, op
<1> QED
  BY <1>1, <1>2, <1>3, <1>4, Zenon DEF inspect_and_open

\* Closing a leaf: its record counts, or it stays torn.
LEMMA ChainUseWrite ==
  ASSUME ChainInv, NEW p \in Supervisors, write(p)
  PROVE  ChainRefined
<1> DEFINE op == sup[p].op
           l  == Target(op)
<1>0. /\ ChainTypeOK /\ op \in Ops /\ DOMAIN leaf = Leaves /\ sup[p].pc = "write"
      /\ leaf[l] = Torn /\ Required(op, p)
  BY DEF ChainInv, ChainTypeOK, write, Writing
<1>1. PICK v, to, out, state :
        /\ leaf' = [leaf EXCEPT ![l] = v]
        /\ \/ Set(p, [pc |-> to, state |-> state]) /\ to = "post" /\ v = Result(op, p)
           \/ /\ Set(p, [pc |-> to, out |-> out, state |-> state])
              /\ to = "finish" /\ v \in {Torn, Result(op, p)}
  BY ZenonT(30) DEF write
<1>2. /\ sup'[p].pc # "write" /\ sup'[p].used = sup[p].used
      /\ \A q \in Supervisors : q # p => sup'[q] = sup[q]
  BY <1>0, <1>1, SetMoves
<1>3. {q \in Supervisors : sup'[q].used} = {q \in Supervisors : sup[q].used}
  <2>1. \A q \in Supervisors : sup'[q].used = sup[q].used
    BY <1>2
  <2> QED
    BY <2>1
<1>4. ~issue_in_writing' /\ (issue_in_writing <=> op = "ISSUE_GRANT")
  <2>1. \A q \in Supervisors : q # p => sup[q].pc # "write" /\ sup'[q].pc # "write"
    BY <1>0, <1>2, OneWriter DEF InsideMutation
  <2> QED
    BY <1>0, <1>2, <2>1 DEF issue_in_writing
<1>5. /\ leaf'[l] = v /\ v \in {Torn, Result(op, p)} /\ \A m \in Leaves : m # l => leaf'[m] = leaf[m]
      /\ Leaves = {"PREPARED", "GRANT", "TERMINAL"}
  BY <1>0, <1>1, Operations DEF Leaves
<1>6. Torn.kind = "TORN" /\ Absent.kind = "ABSENT" /\ Torn # Absent /\ \A k, q : Torn # Rec(k, q)
  BY Records DEF Torn, Absent
<1> HIDE DEF op, l
<1>8. CASE op \in {"PENDING", "PREPARE", "CONSUME"}
  <2>1. /\ l = "PREPARED" /\ leaf["PREPARED"].kind # "CONSUMED"
        /\ leaf'["GRANT"] = leaf["GRANT"] /\ leaf'["TERMINAL"] = leaf["TERMINAL"]
    BY <1>0, <1>5, <1>6, <1>8, Operations DEF l
  <2>2. CASE leaf'["PREPARED"].kind # "CONSUMED"
    BY <1>3, <1>4, <1>8, <2>1, <2>2 DEF ChainRefined, ChainUse!singleUse
  <2>3. CASE leaf'["PREPARED"].kind = "CONSUMED"
    <3>1. ChainUse!Spend
      BY <1>3, <1>4, <1>8, <2>1, <2>3 DEF ChainUse!Spend
    <3> QED
      BY <3>1 DEF ChainRefined, ChainUse!Next
  <2> QED
    BY <2>2, <2>3
<1>9. CASE op = "ISSUE_GRANT"
  <2>1. /\ l = "GRANT" /\ leaf["GRANT"] = Torn /\ leaf["PREPARED"] = Rec("CONSUMED", p)
        /\ leaf'["PREPARED"] = leaf["PREPARED"] /\ leaf'["TERMINAL"] = leaf["TERMINAL"]
        /\ leaf'["GRANT"] \in {Torn, Rec("ISSUED", p)}
    BY <1>0, <1>5, <1>9, Operations DEF l
  <2>2. leaf["PREPARED"].kind = "CONSUMED"
    BY <2>1, Records
  <2>3. {q \in Supervisors : leaf["GRANT"] = Rec("ISSUED", q)} = {}
    BY <1>6, <2>1
  <2>4. CASE leaf'["GRANT"] = Torn
    <3>1. {q \in Supervisors : leaf'["GRANT"] = Rec("ISSUED", q)} = {}
      BY <1>6, <2>4
    <3>2. ChainUse!Forfeit
      BY <1>3, <1>4, <1>6, <1>9, <2>1, <2>2, <2>3, <2>4, <3>1 DEF ChainUse!Forfeit
    <3> QED
      BY <3>2 DEF ChainRefined, ChainUse!Next
  <2>5. CASE leaf'["GRANT"] = Rec("ISSUED", p)
    <3>1. {q \in Supervisors : leaf'["GRANT"] = Rec("ISSUED", q)} = {p}
      BY <2>5, Records
    <3>2. leaf'["GRANT"] # Absent
      BY <2>5, Records
    <3>3. leaf["TERMINAL"].kind # "TERMINAL"
      <4>1. leaf["TERMINAL"] = Absent
        <5>1. Phases(p) /\ Terminated(p)
          BY DEF ChainInv
        <5> QED
          BY <1>0, <1>9, <2>1, <5>1 DEF Terminated, Phases, op
      <4> QED
        BY <1>6, <4>1
    <3>4. ChainUse!Grant(p)
      BY <1>3, <1>4, <1>9, <2>1, <2>2, <3>1, <3>2, <3>3 DEF ChainUse!Grant
    <3> QED
      BY <3>4 DEF ChainRefined, ChainUse!Next
  <2> QED
    BY <2>1, <2>4, <2>5
<1>10. CASE op = "REVOKE_GRANT"
  <2>1. /\ l = "GRANT" /\ leaf["GRANT"] = Torn
        /\ leaf'["PREPARED"] = leaf["PREPARED"] /\ leaf'["TERMINAL"] = leaf["TERMINAL"]
        /\ leaf'["GRANT"] \in {Torn, Rec("REVOKED", p)}
    BY <1>0, <1>5, <1>10, Operations DEF l
  <2>2. leaf'["GRANT"] # Absent /\ \A q : leaf'["GRANT"] # Rec("ISSUED", q)
    BY <1>6, <2>1, Records
  <2>3. {q \in Supervisors : leaf'["GRANT"] = Rec("ISSUED", q)} = {q \in Supervisors : leaf["GRANT"] = Rec("ISSUED", q)}
    BY <1>6, <2>1, <2>2
  <2> QED
    BY <1>3, <1>4, <1>6, <1>10, <2>1, <2>2, <2>3 DEF ChainRefined, ChainUse!singleUse
<1>11. CASE op = "TERMINALIZE"
  <2>1. /\ l = "TERMINAL" /\ leaf["TERMINAL"] = Torn
        /\ leaf["PREPARED"] = Rec("CONSUMED", p) /\ leaf["GRANT"] = Rec("REVOKED", p)
        /\ leaf'["PREPARED"] = leaf["PREPARED"] /\ leaf'["GRANT"] = leaf["GRANT"]
    BY <1>0, <1>5, <1>11, Operations DEF l
  <2>2. leaf["PREPARED"].kind = "CONSUMED" /\ leaf["GRANT"] # Absent /\ \A q : leaf["GRANT"] # Rec("ISSUED", q)
    BY <2>1, Records
  <2>3. {q \in Supervisors : leaf["GRANT"] = Rec("ISSUED", q)} = {}
    BY <2>2
  <2>4. CASE leaf'["TERMINAL"].kind # "TERMINAL"
    BY <1>3, <1>4, <1>6, <1>11, <2>1, <2>4 DEF ChainRefined, ChainUse!singleUse
  <2>5. CASE leaf'["TERMINAL"].kind = "TERMINAL"
    <3>1. ChainUse!End
      BY <1>3, <1>4, <1>6, <1>11, <2>1, <2>2, <2>3, <2>5 DEF ChainUse!End
    <3> QED
      BY <3>1 DEF ChainRefined, ChainUse!Next
  <2> QED
    BY <2>4, <2>5
<1> QED
  BY <1>0, <1>8, <1>9, <1>10, <1>11 DEF Ops, op

\* A process that ends while it writes the grant forfeits it.
LEMMA ChainUseCrash ==
  ASSUME ChainInv, NEW p \in Supervisors, crash(p)
  PROVE  ChainRefined
<1>0. ChainTypeOK /\ UNCHANGED leaf
  BY DEF ChainInv, crash
<1>1. /\ sup'[p].pc = "idle" /\ sup'[p].used = sup[p].used
      /\ \A q \in Supervisors : q # p => sup'[q] = sup[q]
  BY <1>0 DEF crash, ChainTypeOK, Fresh
<1>2. CASE sup[p].pc # "write" \/ sup[p].op # "ISSUE_GRANT"
  <2>1. issue_in_writing' <=> issue_in_writing
    BY <1>1, <1>2 DEF issue_in_writing
  <2>2. \A q \in Supervisors : sup'[q].used = sup[q].used
    BY <1>1
  <2>3. {q \in Supervisors : sup'[q].used} = {q \in Supervisors : sup[q].used}
    BY <2>2
  <2> QED
    BY <1>0, <2>1, <2>3 DEF ChainRefined, ChainUse!singleUse
<1>3. CASE sup[p].pc = "write" /\ sup[p].op = "ISSUE_GRANT"
  <2>1. leaf["GRANT"] = Torn /\ leaf["PREPARED"] = Rec("CONSUMED", p)
    BY <1>3, Operations DEF ChainInv, Writing
  <2>2. leaf["GRANT"] # Absent /\ leaf["PREPARED"].kind = "CONSUMED"
    BY <2>1, Records
  <2>3. \A q \in Supervisors : q # p => sup'[q].pc # "write"
    BY <1>1, <1>3, OneWriter DEF InsideMutation
  <2>4. issue_in_writing /\ ~issue_in_writing'
    BY <1>1, <1>3, <2>3 DEF issue_in_writing
  <2>5. \A q \in Supervisors : sup'[q].used = sup[q].used
    BY <1>1
  <2>6. {q \in Supervisors : sup'[q].used} = {q \in Supervisors : sup[q].used}
    BY <2>5
  <2>7. ChainUse!Forfeit
    BY <1>0, <2>2, <2>4, <2>6 DEF ChainUse!Forfeit
  <2> QED
    BY <2>7 DEF ChainRefined, ChainUse!Next
<1> QED
  BY <1>2, <1>3

\* Every step of the canonical chain is a step of SingleUse or a stutter.
LEMMA ChainUseStep ==
  ASSUME ChainInv, [ChainNext]_chainVars
  PROVE  ChainRefined
<1>1. ASSUME NEW p \in Supervisors, Step(p) \/ prepare(p) \/ run(p) \/ expire(p) \/ crash(p) PROVE ChainRefined
  BY <1>1, ChainUseMemory, ChainUseGrant, ChainUseInspect, ChainUseWrite, ChainUseCrash DEF Step
<1>2. CASE UNCHANGED <<leaf, sup>>
  BY <1>2 DEF ChainRefined, ChainUse!singleUse, issue_in_writing
<1> QED
  BY <1>1, <1>2 DEF ChainNext, another_opens, chainVars

\* The canonical chain implements SingleUse, whatever fails, tears a leaf or ends a process
\* (consume, issue_grant, authorize_grant, revoke_grant, terminalize).
THEOREM ChainUsedOnceHolds == ChainSpec => ChainUsedOnce
<1>1. ChainInit => ChainUse!Init
  <2> SUFFICES ASSUME ChainInit PROVE ChainUse!Init
    OBVIOUS
  <2>1. /\ leaf["PREPARED"] = Absent /\ leaf["GRANT"] = Absent /\ leaf["TERMINAL"] = Absent
        /\ \A p \in Supervisors : sup[p].used = FALSE
    BY DEF ChainInit, Leaves, Fresh
  <2>2. Absent.kind = "ABSENT" /\ \A p : Absent # Rec("ISSUED", p)
    BY Records DEF Absent
  <2>3. {p \in Supervisors : sup[p].used} = {} /\ {p \in Supervisors : leaf["GRANT"] = Rec("ISSUED", p)} = {}
    BY <2>1, <2>2
  <2> QED
    BY <2>1, <2>2, <2>3 DEF ChainUse!Init
<1>2. ChainInv /\ [ChainNext]_chainVars => [ChainUse!Next]_(ChainUse!singleUse)
  BY ChainUseStep DEF ChainRefined
<1> QED
  BY <1>1, <1>2, ChainInvInit, ChainInvStep, PTL DEF ChainSpec, ChainUsedOnce, ChainUse!Spec
=============================================================================
