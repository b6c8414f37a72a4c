--------------------------- MODULE TemporalRules ---------------------------
(***************************************************************************)
(* How the frames of a recording become observable events: the temporal    *)
(* state machine (showcase/temporal_rules.py), run once on the geometry of *)
(* the pose and once on the predictions of the learned model, and the rows *)
(* the runtime keeps of its events (research_runtime/service.py,           *)
(* _emit_model_or_rule_locked and stop).                                   *)
(*                                                                         *)
(* An orientation is the level it reaches: 0 below the threshold that ends *)
(* an event, 1 between the two thresholds, 2 at the one that starts it.    *)
(* Times are ticks from the first frame.                                   *)
(***************************************************************************)
EXTENDS Integers, Sequences, FiniteSets, FiniteSetsExt, SequencesExt, TLC

CONSTANTS MotionDuration, PresenceDuration, ReleaseTicks, MergeGap, CooldownTicks, \* RulePolicy
          UpdateEvery,     \* between two UPDATEs of an event (1000 ms)
          ModelWindow,     \* what the pose buffer must span (5933 ms)
          ModelEvery,      \* between two predictions (500 ms)
          FramePeriod,     \* what the last frame is taken to last (67 ms)
          MaxFrameGap,     \* bound: between two frames
          MaxRecording     \* bound: the recording

ASSUME RuleAssumption ==
  /\ {MotionDuration, PresenceDuration, FramePeriod, MaxFrameGap} \subseteq Nat \ {0}
  /\ {ReleaseTicks, MergeGap, CooldownTicks, UpdateEvery, ModelWindow, ModelEvery, MaxRecording} \subseteq Nat

VARIABLES vState,      \* RECORDING, STOPPED or FAILED
          vFrames,     \* the pose timeline, with what each engine was told
          vRule,       \* _rule_engines: the state machine on the geometry
          vModel,      \* _model_engines: the one on the predictions
          vModelTime,  \* _last_model_times
          vEvents      \* the OBSERVABLE_EVENT rows of each signal

ruleVars == <<vState, vFrames, vRule, vModel, vModelTime, vEvents>>

Motions == {"PROLONGED_HEAD_DOWN", "PROLONGED_SIDE_LOOK"}
Nothing == "NOTHING"
Rules   == "INDEPENDENT_TEMPORAL_RULES"
Model   == "ST_GCN_TEMPORAL_MODEL"
Signals == {Rules, Model}

\* TemporalRuleEngine.__init__
NewEngine == [pending |-> Nothing, pendingStart |-> 0, active |-> Nothing, start |-> 0, onset |-> 0,
              support |-> 0, emission |-> 0, cooldown |-> 0]

RuleInit ==
  /\ vState = "RECORDING" /\ vFrames = <<>> /\ vEvents = [signal \in Signals |-> <<>>]
  /\ vRule = NewEngine /\ vModel = NewEngine /\ vModelTime = -1000

------------------------------------------------------------------------------
(* TemporalRuleEngine *)

\* orientation_proxy_degrees, by the threshold each angle reaches: 2 begins an event, 1 keeps it
Orientations == {[down |-> 0, side |-> 0], [down |-> 2, side |-> 0], [down |-> 1, side |-> 2]}

\* what a frame shows to an engine whose event has this label
observed(active, count, angles, prediction) ==
  CASE count = 0 -> "NO_PERSON"
    [] count > 1 -> "MULTIPLE_PEOPLE"
    [] count = 1 /\ prediction \in Motions -> prediction
    [] count = 1 /\ prediction = Nothing ->
         IF angles.down >= (IF active = "PROLONGED_HEAD_DOWN" THEN 1 ELSE 2) THEN "PROLONGED_HEAD_DOWN"
         ELSE IF angles.side >= (IF active = "PROLONGED_SIDE_LOOK" THEN 1 ELSE 2) THEN "PROLONGED_SIDE_LOOK"
         ELSE Nothing
    [] OTHER -> Nothing

event(e, kind, end) ==
  [kind |-> kind, label |-> e.active, start |-> e.start, end |-> Max({e.start + 1, end}), onset |-> e.onset]

\* what a call leaves of the engine, and the events it returns
close_engine(e, t) ==
  IF e.active = Nothing THEN [engine |-> e, out |-> <<>>]
  ELSE [engine |-> [e EXCEPT !.active = Nothing, !.pending = Nothing, !.cooldown = t + CooldownTicks],
        out |-> <<event(e, "END", e.support)>>]

advance_active(e, t, seen) ==
  LET held == [e EXCEPT !.support = t + 1]
  IN IF seen = e.active
     THEN IF t - e.emission >= UpdateEvery
          THEN [engine |-> [held EXCEPT !.emission = t], out |-> <<event(e, "UPDATE", t + 1)>>]
          ELSE [engine |-> held, out |-> <<>>]
     ELSE IF t - e.support > Max({ReleaseTicks, MergeGap})
          THEN close_engine(e, t) ELSE [engine |-> e, out |-> <<>>]

advance_pending(e, t, count, seen) ==
  LET since == IF seen = e.pending THEN e.pendingStart ELSE t
      duration == IF count # 1 THEN PresenceDuration ELSE MotionDuration
      started == [e EXCEPT !.active = seen, !.start = since, !.onset = since + duration,
                           !.support = t + 1, !.emission = t, !.pending = Nothing]
  IN IF seen = Nothing \/ t < e.cooldown
     THEN [engine |-> [e EXCEPT !.pending = Nothing], out |-> <<>>]
     ELSE IF t - since < duration
     THEN [engine |-> [e EXCEPT !.pending = seen, !.pendingStart = since], out |-> <<>>]
     ELSE [engine |-> started, out |-> <<event(started, "START", t + 1)>>]

\* mutant: a frame of insufficient quality leaves what is pending
advance_keeping(e, t, count, angles, ok, prediction) ==
  IF ~ok THEN close_engine(e, t)
  ELSE LET seen == observed(e.active, count, angles, prediction)
       IN IF e.active # Nothing THEN advance_active(e, t, seen) ELSE advance_pending(e, t, count, seen)

advance(e, t, count, angles, ok, prediction) ==
  IF ~ok THEN close_engine([e EXCEPT !.pending = Nothing], t)
  ELSE LET seen == observed(e.active, count, angles, prediction)
       IN IF e.active # Nothing THEN advance_active(e, t, seen) ELSE advance_pending(e, t, count, seen)

------------------------------------------------------------------------------
(* The runtime *)

\* The first event of an occurrence makes its row, the later ones rewrite it.
persist_rule_events(rows, out) ==
  LET open == {i \in 1 .. Len(rows) : rows[i].kind # "END"}
  IN IF out = <<>> THEN rows
     ELSE IF out[1].kind = "START" THEN Append(rows, out[1])
     ELSE [rows EXCEPT ![Max(open)] = out[1]]

Elapsed == IF vFrames = <<>> THEN 0 ELSE Last(vFrames).t

\* The buffer spans the window, and the last prediction is long enough ago.
model_due(frames, t) ==
  /\ Len(frames) >= 2 /\ t - frames[1].t >= ModelWindow /\ t - vModelTime >= ModelEvery

\* The model is asked only about a window of good frames with one person; it may be
\* unavailable, abstain, or not know the focus.
Predictions(frames, t, ok) ==
  IF ok /\ \A i \in 1 .. Len(frames) : frames[i].t >= t - ModelWindow => frames[i].count = 1
  THEN {Nothing, "NORMAL"} \cup Motions ELSE {Nothing}

\* A frame, whether the rules judged it, and what the model said if it was asked.
PoseFrame(t, count, angles, ok, judged, said) ==
  [t |-> t, count |-> count, angles |-> angles, ok |-> ok, judged |-> judged, said |-> said]

Level == [down |-> 0, side |-> 0]

\* Without a frozen policy the frame is stored and reaches no engine.
frame_unjudged(t) ==
  /\ vFrames' = Append(vFrames, PoseFrame(t, 1, Level, TRUE, FALSE, Nothing))
  /\ UNCHANGED <<vState, vRule, vModel, vModelTime, vEvents>>

\* _emit_model_or_rule_locked, when the model is not asked and when it is
frame_ruled(t, count, angles, ok) ==
  LET ruled == advance(vRule, t, count, angles, ok, Nothing)
  IN /\ ~ model_due(Append(vFrames, PoseFrame(t, count, angles, ok, TRUE, Nothing)), t)
     /\ vFrames' = Append(vFrames, PoseFrame(t, count, angles, ok, TRUE, Nothing))
     /\ vRule' = ruled.engine
     /\ vEvents' = [vEvents EXCEPT ![Rules] = persist_rule_events(vEvents[Rules], ruled.out)]
     /\ UNCHANGED <<vState, vModel, vModelTime>>

frame_modelled(t, count, angles, ok) ==
  LET frames == Append(vFrames, PoseFrame(t, count, angles, ok, TRUE, Nothing))
      ruled == advance(vRule, t, count, angles, ok, Nothing)
  IN /\ model_due(frames, t)
     /\ \E p \in Predictions(frames, t, ok) :
          LET said == IF p = Nothing THEN "UNCERTAIN" ELSE p
              modelled == advance(vModel, t, 1, Level, p # Nothing, said)
          IN /\ vFrames' = Append(vFrames, PoseFrame(t, count, angles, ok, TRUE, said))
             /\ vRule' = ruled.engine
             /\ vModel' = modelled.engine /\ vModelTime' = t
             /\ vEvents' = [vEvents EXCEPT ![Rules] = persist_rule_events(vEvents[Rules], ruled.out),
                                           ![Model] = persist_rule_events(vEvents[Model], modelled.out)]
     /\ UNCHANGED vState

frame_ingested(t, count, angles, ok) ==
  frame_ruled(t, count, angles, ok) \/ frame_modelled(t, count, angles, ok)

ingest_frame ==
  /\ vState = "RECORDING"
  /\ \E t \in IF vFrames = <<>> THEN {0} ELSE Elapsed + 1 .. Elapsed + MaxFrameGap :
       /\ t <= MaxRecording
       /\ \/ \E count \in {0, 2} : frame_ingested(t, count, Level, TRUE)
          \/ \E angles \in Orientations : frame_ingested(t, 1, angles, TRUE)
          \/ frame_ingested(t, 1, Level, FALSE)
          \/ frame_unjudged(t)

\* stop ends what is still going on at the end of the last frame
stop_recording ==
  /\ vState = "RECORDING" /\ vState' = "STOPPED"
  /\ LET endpoint == Elapsed + FramePeriod
         ruled == close_engine(vRule, endpoint)
         modelled == close_engine(vModel, endpoint)
     IN /\ vRule' = NewEngine /\ vModel' = NewEngine
        /\ vEvents' = [vEvents EXCEPT ![Rules] = persist_rule_events(vEvents[Rules], ruled.out),
                                      ![Model] = persist_rule_events(vEvents[Model], modelled.out)]
  /\ UNCHANGED <<vFrames, vModelTime>>

fail_recording ==
  /\ vState = "RECORDING" /\ vState' = "FAILED"
  /\ UNCHANGED <<vFrames, vRule, vModel, vModelTime, vEvents>>

RuleNext == ingest_frame \/ stop_recording \/ fail_recording

RuleSpec == RuleInit /\ [][RuleNext]_ruleVars

------------------------------------------------------------------------------
(* What an event is evidence of *)

\* The frames an engine was told of.
Told(signal) == {i \in 1 .. Len(vFrames) :
                   IF signal = Rules THEN vFrames[i].judged ELSE vFrames[i].said # Nothing}

\* What the frame shows when the thresholds are those of an event with this label, or of
\* none.
Shows(signal, i, active) ==
  IF signal = Rules
  THEN IF vFrames[i].ok THEN observed(active, vFrames[i].count, vFrames[i].angles, Nothing) ELSE "UNUSABLE"
  ELSE IF vFrames[i].said = "UNCERTAIN" THEN "UNUSABLE" ELSE observed(active, 1, Level, vFrames[i].said)

\* The frames within an event.
Inside(signal, ev) == {i \in Told(signal) : ev.start <= vFrames[i].t /\ vFrames[i].t < ev.end}

\* An event begins with an uninterrupted run of frames that show it at the starting
\* threshold and that lasts until its onset, it ends with the last frame that shows it
\* at the ending one, no unusable frame lies inside it, two of the same signal neither
\* overlap nor touch, it lies within the timeline a reviewer can annotate, and after
\* stop none is left open (TemporalRuleEngine.advance, close, stop).
EventsBacked ==
  \A signal \in Signals : \A n \in 1 .. Len(vEvents[signal]) :
    LET ev == vEvents[signal][n]
        inside == Inside(signal, ev)
    IN /\ \A i \in inside : Shows(signal, i, ev.label) # "UNUSABLE"
       /\ \A i \in inside : vFrames[i].t <= ev.onset => Shows(signal, i, Nothing) = ev.label
       /\ \E i \in inside : vFrames[i].t = ev.start
       /\ \E i \in inside : vFrames[i].t >= ev.onset
       /\ ev.kind = "END" => \E i \in inside : /\ vFrames[i].t + 1 = ev.end
                                               /\ Shows(signal, i, ev.label) = ev.label
       /\ ev.end <= Elapsed + FramePeriod
       /\ \A m \in n + 1 .. Len(vEvents[signal]) : ev.kind = "END" /\ ev.end < vEvents[signal][m].start
       /\ vState = "STOPPED" => ev.kind = "END"
==============================================================================
