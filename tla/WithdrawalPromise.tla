-------------------------- MODULE WithdrawalPromise --------------------------
(***************************************************************************)
(* What the artifact store and the reconciliation together promise a       *)
(* participant, without a word about how: data are held only before the    *)
(* withdrawal begins, afterwards there is only less of them, and the final *)
(* receipt is issued once, when nothing is held any more.                  *)
(***************************************************************************)
CONSTANTS Items

VARIABLES held,       \* data of the participant that the system holds
          withdrawn,  \* the withdrawal is recorded
          receipt     \* the final reconciliation receipt exists

promise == <<held, withdrawn, receipt>>

Init ==
  /\ held = {}
  /\ withdrawn = FALSE
  /\ receipt = FALSE

Hold(x) ==
  /\ ~ withdrawn
  /\ held' = held \cup {x}
  /\ UNCHANGED <<withdrawn, receipt>>

Release(x) ==
  /\ held' = held \ {x}
  /\ UNCHANGED <<withdrawn, receipt>>

Withdraw ==
  /\ ~ withdrawn
  /\ withdrawn' = TRUE
  /\ UNCHANGED <<held, receipt>>

IssueReceipt ==
  /\ withdrawn
  /\ held = {}
  /\ ~ receipt
  /\ receipt' = TRUE
  /\ UNCHANGED <<held, withdrawn>>

Next ==
  \/ \E x \in Items : Hold(x) \/ Release(x)
  \/ Withdraw
  \/ IssueReceipt

Spec == Init /\ [][Next]_promise
==============================================================================
