--------------------------- MODULE ReviewerAccess ---------------------------
(***************************************************************************)
(* How a reviewer gets in (services/core.py, api/factories.py): the PIN    *)
(* with its lockout, the single bearer token bound to two clocks, logout,  *)
(* and the check every reviewer route makes.                               *)
(*                                                                         *)
(* login and logout are coroutines of the event loop and run to their end. *)
(* require_reviewer is a plain function: the server runs it on a pool      *)
(* thread, beside the loop, and reviewer_expiry reads the fields of the    *)
(* token one after the other before it asks the clocks and, if the token   *)
(* has lapsed, clears whatever token there is by then.  The wall clock may *)
(* be set back or forward; the monotonic clock may not.                    *)
(***************************************************************************)
EXTENDS Naturals, FiniteSets

CONSTANTS Clients,      \* client host and origin
          Checkers,     \* pool threads
          MaxFailures,  \* max_failures
          Cooldown,     \* cooldown_seconds
          Ttl,          \* REVIEWER_BEARER_TTL_SECONDS
          MaxTokens,    \* bound: how many tokens are issued
          MaxClock      \* bound: how far either clock goes

ASSUME AccessAssumption ==
  /\ MaxFailures \in Nat \ {0} /\ Cooldown \in Nat \ {0} /\ Ttl \in Nat \ {0}
  /\ MaxTokens \in Nat /\ MaxClock \in Nat

VARIABLES
  failures,   \* _failures: attempts of each client
  blocked,    \* _failures: blocked_until of each client
  wrong,      \* history: wrong PINs compared since the last right one
  mono, wall, \* the two clocks
  bearer,     \* the reviewer token: its number, or 0
  grants,     \* issued_at and monotonic_issued of every token issued so far
  check       \* what each pool thread has read

accessVars == <<failures, blocked, wrong, mono, wall, bearer, grants, check>>
pinVars    == <<failures, blocked, wrong>>

Tokens == 1 .. MaxTokens
Resting == [step |-> "idle", token |-> 0, expiry |-> 0, current |-> 0]

AccessInit ==
  /\ failures = [c \in Clients |-> 0]
  /\ blocked = [c \in Clients |-> 0]
  /\ wrong = [c \in Clients |-> 0]
  /\ mono = 0 /\ wall = 0
  /\ bearer = 0
  /\ grants = [t \in {} |-> 0]
  /\ check = [k \in Checkers |-> Resting]

------------------------------------------------------------------------------
(* The PIN. *)

\* mutant: the client starts afresh after a cooldown
refuse_afresh(c) ==
  /\ wrong' = [wrong EXCEPT ![c] = @ + 1]
  /\ IF failures[c] + 1 >= MaxFailures
     THEN failures' = [failures EXCEPT ![c] = 0] /\ blocked' = [blocked EXCEPT ![c] = mono + Cooldown]
     ELSE failures' = [failures EXCEPT ![c] = @ + 1] /\ blocked' = [blocked EXCEPT ![c] = 0]

\* authenticate, a wrong PIN: from the last allowed failure on, every further one
\* starts a cooldown.
refuse(c) ==
  /\ wrong' = [wrong EXCEPT ![c] = @ + 1]
  /\ failures' = [failures EXCEPT ![c] = @ + 1]
  /\ blocked' = [blocked EXCEPT ![c] = IF failures[c] + 1 >= MaxFailures THEN mono + Cooldown
                                                                         ELSE 0]

\* A client in its cooldown is refused before its PIN is looked at.
Compared(c) == blocked[c] <= mono

login_refused(c) ==
  /\ Compared(c)
  /\ refuse(c)
  /\ UNCHANGED <<mono, wall, bearer, grants, check>>

\* issue_reviewer_token ends the session of the token before it.  When the
\* revocation callback of that session raises, the token is gone and none issued.
login_accepted(c) ==
  /\ Compared(c)
  /\ failures' = [failures EXCEPT ![c] = 0]
  /\ blocked' = [blocked EXCEPT ![c] = 0]
  /\ wrong' = [wrong EXCEPT ![c] = 0]
  /\ LET t == Cardinality(DOMAIN grants) + 1 IN
       \/ /\ t \in Tokens
          /\ bearer' = t
          /\ grants' = [u \in 1 .. t |-> IF u = t THEN [wall |-> wall, mono |-> mono] ELSE grants[u]]
       \/ /\ bearer # 0
          /\ bearer' = 0 /\ UNCHANGED grants
  /\ UNCHANGED <<mono, wall, check>>

------------------------------------------------------------------------------
(* The check on a pool thread. *)

\* mutant: only the wall clock counts
lapsed_by_wall(t, expiry) == wall < grants[t].wall \/ expiry <= wall

lapsed(t, expiry) ==
  \/ mono < grants[t].mono \/ grants[t].mono + Ttl <= mono
  \/ wall < grants[t].wall \/ expiry <= wall

\* The wall expiry is read first ...
check_begin(k, t) ==
  /\ check[k].step = "idle"
  /\ bearer # 0
  /\ check' = [check EXCEPT ![k] = [Resting EXCEPT !.step = "rest", !.token = t,
                                                    !.expiry = grants[bearer].wall + Ttl]]
  /\ UNCHANGED <<pinVars, mono, wall, bearer, grants>>

\* ... then the digest and the other times, all of one token.
check_reads(k) ==
  /\ check[k].step = "rest"
  /\ check' = [check EXCEPT ![k] = IF bearer = 0 THEN Resting
                                   ELSE [@ EXCEPT !.step = "decide", !.current = bearer]]
  /\ UNCHANGED <<pinVars, mono, wall, bearer, grants>>

Lapsed(k) == lapsed(check[k].current, check[k].expiry)

\* What was read has lapsed: the token that is there now is cleared.
check_lapsed(k) ==
  /\ check[k].step = "decide"
  /\ Lapsed(k)
  /\ bearer' = 0
  /\ check' = [check EXCEPT ![k] = Resting]
  /\ UNCHANGED <<pinVars, mono, wall, grants>>

\* The request is served, or answered 401.
check_answers(k) ==
  /\ check[k].step = "decide"
  /\ ~ Lapsed(k)
  /\ check' = [check EXCEPT ![k] =
       IF check[k].token = check[k].current THEN [@ EXCEPT !.step = "served"] ELSE Resting]
  /\ UNCHANGED <<pinVars, mono, wall, bearer, grants>>

\* A served request ends; a logout is served on the loop, where the token is
\* compared once more before it is cleared.
request_ends(k) ==
  /\ check[k].step = "served"
  /\ check' = [check EXCEPT ![k] = Resting]
  /\ UNCHANGED <<pinVars, mono, wall, bearer, grants>>

reviewer_logout(k) ==
  /\ check[k].step = "served"
  /\ bearer' = IF bearer = check[k].token THEN 0 ELSE bearer
  /\ check' = [check EXCEPT ![k] = Resting]
  /\ UNCHANGED <<pinVars, mono, wall, grants>>

\* Both clocks advance, or the wall clock alone is set.
Tick ==
  /\ mono < MaxClock /\ wall < MaxClock
  /\ mono' = mono + 1 /\ wall' = wall + 1
  /\ UNCHANGED <<pinVars, bearer, grants, check>>

SetWall ==
  /\ \E w \in 0 .. MaxClock : w # wall /\ wall' = w
  /\ UNCHANGED <<pinVars, mono, bearer, grants, check>>

AccessNext ==
  \/ \E c \in Clients : login_refused(c) \/ login_accepted(c)
  \/ \E k \in Checkers : \/ \E t \in DOMAIN grants : check_begin(k, t)
                         \/ check_reads(k) \/ check_lapsed(k) \/ check_answers(k)
                         \/ request_ends(k) \/ reviewer_logout(k)
  \/ Tick \/ SetWall

AccessSpec == AccessInit /\ [][AccessNext]_accessVars

------------------------------------------------------------------------------
(* Properties. *)

\* authenticate: a client gets MaxFailures guesses at the PIN and then one for every
\* cooldown that passes; the counter that stays at its limit after a cooldown is
\* what keeps it to one.
GuessesBounded == \A c \in Clients : wrong[c] <= MaxFailures + mono \div Cooldown

\* reviewer_expiry binds a token to the monotonic clock as well: no request is newly
\* served with a token older than its lifetime, wherever the wall clock was set.  And
\* a token that has not lapsed ends only by its own logout, by a login, or by a check
\* that began while another token, or another time, was current.
TokenLifetime ==
  [][/\ \A k \in Checkers :
          check[k].step # "served" /\ check'[k].step = "served" =>
            mono < grants[check[k].token].mono + Ttl
     /\ bearer # 0 /\ bearer' = 0 /\ ~ lapsed(bearer, grants[bearer].wall + Ttl) =>
          \/ \E c \in Clients : login_accepted(c)
          \/ \E k \in Checkers : check[k].step = "served" /\ check[k].token = bearer
          \/ \E k \in Checkers : check[k].step = "decide" /\ Lapsed(k)]_accessVars
============================================================================
