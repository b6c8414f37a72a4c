--------------------------- MODULE SessionReview ---------------------------
(***************************************************************************)
(* What a reviewer makes of a sealed session (research_runtime/service.py):*)
(* decisions on its events under an expected revision, annotations of his  *)
(* own, the lock, and the labels an export gives to the frames.            *)
(*                                                                         *)
(* The pose timeline is one frame per tick.  The events a recording leaves *)
(* are those of module TemporalRules: here, any set of intervals.          *)
(***************************************************************************)
EXTENDS Integers, Sequences, FiniteSets, FiniteSetsExt, SequencesExt

CONSTANTS ReviewLabels,   \* the labels of ALLOWED_LABELS a reviewer uses
          ReviewFrames,   \* bound: the frames of the timeline
          ReviewEvents,   \* bound: the events of the session, annotations included
          MaxReviews      \* bound: the decisions

ASSUME ReviewAssumption == {ReviewFrames, ReviewEvents, MaxReviews} \subseteq Nat \ {0}

VARIABLES wEvents,    \* the number of OBSERVABLE_EVENT rows
          wReviews,   \* runtime_reviews, in the order of their revision
          wLocked,
          wExport     \* the labels of an export, or <<>>

reviewVars == <<wEvents, wReviews, wLocked, wExport>>

ReviewStatuses == {"CONFIRMED", "REJECTED", "UNCERTAIN"}

ReviewInit == wEvents \in 0 .. ReviewEvents - 1 /\ wReviews = <<>> /\ wLocked = FALSE /\ wExport = <<>>

Revision == Len(wReviews)

\* event 0 asks for an annotation: a new event, and the decision on it.  A request that
\* expects another revision, or an empty interval, is refused.
review(event, label, status, start, end) ==
  /\ ~wLocked /\ Revision < MaxReviews
  /\ LET target == IF event = 0 THEN wEvents + 1 ELSE event
     IN /\ target <= (IF event = 0 THEN ReviewEvents ELSE wEvents)
        /\ wEvents' = Max({wEvents, target})
        /\ wReviews' = Append(wReviews, [event |-> target, label |-> label, status |-> status,
                                         start |-> start, end |-> end])
  /\ UNCHANGED <<wLocked, wExport>>

\* list_reviews as a dictionary: per event the position of its first review, at which it
\* stands, and its last one, which counts
FirstReview(ev) == Min({i \in 1 .. Revision : wReviews[i].event = ev})
latest(ev) == wReviews[Max({i \in 1 .. Revision : wReviews[i].event = ev})]
Reviewed == {wReviews[i].event : i \in 1 .. Revision}
Standing == {ev \in Reviewed : latest(ev).status # "REJECTED"}

Overlapping(a, b) == a.start < b.end /\ b.start < a.end

\* mutant: only the decisions that confirm are compared
conflicts_confirmed ==
  \E a, b \in Standing : /\ latest(a).status = "CONFIRMED" /\ latest(b).status = "CONFIRMED"
                         /\ Overlapping(latest(a), latest(b)) /\ latest(a).label # latest(b).label

conflicts == \E a, b \in Standing : Overlapping(latest(a), latest(b)) /\ latest(a).label # latest(b).label

lock ==
  /\ ~wLocked
  /\ Reviewed = 1 .. wEvents /\ ~conflicts
  /\ wLocked' = TRUE
  /\ UNCHANGED <<wEvents, wReviews, wExport>>

\* The first event in the dictionary that covers the frame decides.
exported_label(offset) ==
  LET covering == {ev \in Standing : latest(ev).start <= offset /\ offset < latest(ev).end}
      first == CHOOSE ev \in covering : \A other \in covering : FirstReview(ev) <= FirstReview(other)
  IN IF covering # {} /\ latest(first).status = "CONFIRMED" THEN latest(first).label ELSE "UNCERTAIN"

export_records ==
  /\ wLocked /\ wExport = <<>>
  /\ wExport' = [i \in 1 .. ReviewFrames |-> exported_label(i - 1)]
  /\ UNCHANGED <<wEvents, wReviews, wLocked>>

ReviewNext ==
  \/ \E start \in 0 .. ReviewFrames - 1 : \E end \in start + 1 .. ReviewFrames :
       \E event \in 0 .. ReviewEvents, label \in ReviewLabels, status \in ReviewStatuses :
         review(event, label, status, start, end)
  \/ lock \/ export_records

ReviewSpec == ReviewInit /\ [][ReviewNext]_reviewVars

------------------------------------------------------------------------------
\* A frame leaves with a label only when a decision that nobody revised confirms it, and
\* then no standing decision covers the frame under another label: the first match that
\* the export takes never decides between two labels, whatever the order in which the
\* events were reviewed, revised and annotated (review, lock, _export_records).  Between a
\* CONFIRMED and an UNCERTAIN decision of one label it does.
ExportUnambiguous ==
  \A i \in 1 .. Len(wExport) :
    LET covering == {ev \in Standing : latest(ev).start <= i - 1 /\ i - 1 < latest(ev).end}
    IN wExport[i] # "UNCERTAIN" =>
         /\ \E ev \in covering : latest(ev).status = "CONFIRMED" /\ latest(ev).label = wExport[i]
         /\ \A ev \in covering : latest(ev).label = wExport[i]
==============================================================================
