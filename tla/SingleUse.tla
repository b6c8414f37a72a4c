------------------------------ MODULE SingleUse ------------------------------
(***************************************************************************)
(* What every store of a single-use camera authority promises, without a   *)
(* word about files, mutexes or processes: the authority is spent once; it *)
(* is granted once, to one user, and a grant that ended never becomes      *)
(* valid again; the camera is used once at most, under a valid grant; the  *)
(* end is recorded once, and nothing is granted or used after it.          *)
(***************************************************************************)
CONSTANTS Users,
          RevokeFirst  \* whether the end is recorded only after the grant was revoked

VARIABLES spent,    \* the authority is consumed
          granted,  \* its only grant is given, or lost
          valid,    \* the user whose grant is valid, if any
          used,     \* the users who opened the camera
          ended     \* the terminal record exists

singleUse == <<spent, granted, valid, used, ended>>

Init ==
  /\ spent = FALSE /\ granted = FALSE /\ valid = {}
  /\ used = {} /\ ended = FALSE

Spend ==
  /\ ~spent
  /\ spent' = TRUE
  /\ UNCHANGED <<granted, valid, used, ended>>

Grant(u) ==
  /\ spent /\ ~granted /\ ~ended
  /\ granted' = TRUE /\ valid' = {u}
  /\ UNCHANGED <<spent, used, ended>>

\* the grant is lost before anyone could use it
Forfeit ==
  /\ spent /\ ~granted
  /\ granted' = TRUE
  /\ UNCHANGED <<spent, valid, used, ended>>

Use(u) ==
  /\ u \in valid /\ used = {} /\ ~ended
  /\ used' = {u}
  /\ UNCHANGED <<spent, granted, valid, ended>>

Revoke ==
  /\ valid' = {}
  /\ UNCHANGED <<spent, granted, used, ended>>

End ==
  /\ spent /\ ~ended
  /\ RevokeFirst => granted /\ valid = {}
  /\ ended' = TRUE
  /\ UNCHANGED <<spent, granted, valid, used>>

Next ==
  \/ \E u \in Users : Grant(u) \/ Use(u)
  \/ Spend \/ Forfeit \/ Revoke \/ End

Spec == Init /\ [][Next]_singleUse
==============================================================================
