---------------------------- MODULE VerdictProofs ----------------------------
(***************************************************************************)
(* A candidate without faults is not blamed: no check of week 2 and no     *)
(* scenario of week 4 fails it, whatever the interleaving, as long as no   *)
(* deadline passes while it can still move.                                *)
(***************************************************************************)
EXTENDS ProbeProofs

-----------------------------------------------------------------------------
(* The phases execution and versioning of week 2 *)

M1 == [msg |-> "m1", proc |-> "signal", body |-> "body", n |-> 0, status |-> "APPLIED"]
M2(s) == [msg |-> "m2", proc |-> "early", body |-> "body", n |-> 1, status |-> s]

Began(l, v) == proc[l].state = "RUNNING" /\ proc[l].ver = v
Arrived(l, st, v) == proc[l].state = st /\ proc[l].ver = v /\ Sign!ActionRows(l)

Executed == {"e_completed", "e_repeat", "e_changed", "e_record", "e_early", "e_stored"}
Resumed == {"e_resume", "e_applied", "e_elsewhere"}

\* The process that gets its signal while it waits, and its repeats.
FairSignal ==
    /\ pc \in {"e_start", "e_waiting", "e_signal"} => signals = {}
    /\ pc = "e_waiting" => Began("signal", 1) \/ Arrived("signal", "WAITING_SIGNAL", 1)
    /\ pc = "e_signal" => Arrived("signal", "WAITING_SIGNAL", 1) /\ seen.history = events["signal"]
    /\ pc \in Executed => signals = {M1} /\ proc["signal"].ended
    /\ pc \in Executed \cup Resumed => proc["signal"].state = "COMPLETED"
    /\ pc = "e_completed" => events["signal"] = Append(seen.history, "SignalApplied")
    /\ pc \in {"e_signal"} \cup Executed => seen.automatic
    /\ pc \in {"e_signal"} \cup Executed \cup Resumed => seen.ok
    /\ pc \in {"e_repeat", "e_changed"} => events["signal"] = seen.history
    /\ pc \in (Executed \ {"e_completed"}) \cup Resumed => seen.signals = {M1}

\* The process that gets its signal before it waits.
FairEarly ==
    /\ pc \in {"e_stored", "e_resume"} => Began("early", 1)
    /\ pc = "e_resume" => signals = {M1, M2("ACCEPTED")}
    /\ pc = "e_applied" => \/ Began("early", 1) /\ signals = {M1, M2("ACCEPTED")}
                           \/ proc["early"].state = "COMPLETED" /\ signals = {M1, M2("APPLIED")}
    /\ pc = "e_elsewhere" => signals = {M1, M2("APPLIED")} /\ seen.early = {M2("APPLIED")}

\* The manual wait, the second version and the unknown outcome.
FairVersions ==
    /\ active = IF pc \in Published \cup {"v_unknown", "v_failed", "done"} THEN {2} ELSE {1}
    /\ pc = "e_manualwait" => Began("manual", 1) \/ Arrived("manual", "WAITING_MANUAL", 1)
    /\ pc \in Published \cup {"e_views", "v_publish"} => Arrived("manual", "WAITING_MANUAL", 1)
    /\ pc = "v_waiting" => Began("v2", 2) \/ Arrived("v2", "WAITING_MANUAL", 2)
    /\ pc \in {"v_repeat", "v_record"} => Arrived("v2", "WAITING_MANUAL", 2)
    /\ pc = "v_record" => seen.same /\ seen.changed
    /\ pc = "v_failed" => \/ proc["unknown"].state = "RUNNING"
                          \/ /\ proc["unknown"].state = "FAILED" /\ proc["unknown"].attempts = 1
                             /\ proc["unknown"].effects = 0
    /\ up <=> pc \notin {"e_stored", "e_resume"}

SignFair ==
    /\ \A c \in Sign!Checks : result[c] # "failed"
    /\ FairSignal /\ FairEarly /\ FairVersions

\* A worker's step of an engine without faults.
LEMMA FairWork ==
    ASSUME GInv, GShow, faults = {}, SignFair, NEW l \in Sign!Labels, Sign!Work(l)
    PROVE  SignFair'
<1> DEFINE apply == Sign!Arrives(l) = "WAITING_SIGNAL" /\ Sign!Stored(l) # {}
           st == IF apply THEN "COMPLETED" ELSE Sign!Arrives(l)
           e == IF l = "unknown" THEN 0 ELSE 1
           r == [proc[l] EXCEPT !.state = st, !.attempts = 1, !.effects = e, !.dispatched = {1}, !.ended = apply]
<1>1. /\ up /\ proc[l].state = "RUNNING" /\ proc' = [proc EXCEPT ![l] = r]
      /\ UNCHANGED <<faults, active, up, pc, seen, result, late>>
      /\ events' = [events EXCEPT ![l] = Append(@, "StepEntered")]
      BY DEF Sign!Work, Sign!Has, Sign!Log
<1>2. signals' = IF apply THEN {IF s \in Sign!Stored(l) THEN [s EXCEPT !.status = "APPLIED"] ELSE s : s \in signals}
                 ELSE signals
      BY DEF Sign!Work, Sign!Has
<1>3. /\ proc \in [Sign!Labels -> ProcessSchema] /\ proc[l] \in ProcessSchema
      BY DEF GInv, SignTables
<1>4. /\ r.state = st /\ r.attempts = 1 /\ r.effects = e /\ r.dispatched = {1} /\ r.ended = apply
      /\ r.ver = proc[l].ver
      BY <1>3 DEF ProcessSchema
<1>5. Sign!Arrives(l) = IF l = "unknown" THEN "FAILED"
                        ELSE IF l = "manual" \/ proc[l].ver = 2 THEN "WAITING_MANUAL" ELSE "WAITING_SIGNAL"
      BY DEF Sign!Arrives, Sign!Has
<1> HIDE DEF r, e
<1>6. proc'[l] = r /\ \A k \in Sign!Labels : k # l => proc'[k] = proc[k]
      BY <1>1, <1>3
<1>7. l # "signal" => events'["signal"] = events["signal"]
      BY <1>1 DEF GShow, SignSeen, Sign!Labels
<1>8. Sign!Stored(l) # {} /\ pc \in {"e_start", "e_waiting", "e_signal"} \cup Executed \cup Resumed =>
         pc = "e_applied" /\ l = "early" /\ signals = {M1, M2("ACCEPTED")} /\ Began("early", 1)
  <2> SUFFICES ASSUME NEW s \in signals, s.proc = l, s.status = "ACCEPTED",
                      pc \in {"e_start", "e_waiting", "e_signal"} \cup Executed \cup Resumed
               PROVE  pc = "e_applied" /\ l = "early" /\ signals = {M1, M2("ACCEPTED")} /\ Began("early", 1)
      BY DEF Sign!Stored
  <2>1. pc \notin {"e_start", "e_waiting", "e_signal"}
        BY DEF SignFair, FairSignal
  <2>2. s # M1 /\ s # M2("APPLIED")
        BY DEF M1, M2
  <2>3. pc \notin Executed /\ pc \notin {"e_resume", "e_elsewhere"}
        BY <1>1, <2>2 DEF SignFair, FairSignal, FairEarly, FairVersions
  <2>4. pc = "e_applied" /\ signals = {M1, M2("ACCEPTED")} /\ Began("early", 1)
        BY <2>1, <2>2, <2>3 DEF Resumed, SignFair, FairEarly
  <2> QED  BY <2>2, <2>4 DEF M2
<1>9. CASE pc \in {"e_start", "e_waiting", "e_signal"} \cup Executed \cup Resumed /\ ~(pc = "e_applied" /\ l = "early")
  <2>1. ~apply /\ signals' = signals /\ st = Sign!Arrives(l)
        BY <1>2, <1>8, <1>9
  <2>2. FairSignal'
    <3>1. l = "signal" => pc \in {"e_start", "e_waiting"}
          BY <1>1, <1>9 DEF SignFair, FairSignal, Arrived
    <3>2. CASE l = "signal" /\ pc = "e_waiting"
          BY <1>1, <1>4, <1>5, <1>6, <2>1, <3>2 DEF SignFair, FairSignal, Began, Arrived, Sign!ActionRows, Executed, Resumed, e
    <3>3. CASE l = "signal" /\ pc = "e_start"
          BY <1>1, <2>1, <3>3 DEF SignFair, FairSignal, Executed, Resumed
    <3>4. CASE l # "signal"
          BY <1>1, <1>6, <1>7, <2>1, <3>4 DEF SignFair, FairSignal, Began, Arrived, Sign!ActionRows, Sign!Labels
    <3> QED  BY <3>1, <3>2, <3>3, <3>4
  <2>3. FairEarly'
    <3>1. l = "early" => pc \notin {"e_stored", "e_resume", "e_applied"}
          BY <1>1, <1>9 DEF SignFair, FairVersions
    <3> QED  BY <1>1, <1>6, <2>1, <3>1 DEF SignFair, FairEarly, Began, Sign!Labels
  <2>4. FairVersions'
        BY <1>1, <1>9 DEF SignFair, FairVersions, Executed, Resumed, Published
  <2> QED  BY <1>1, <2>2, <2>3, <2>4 DEF SignFair
<1>10. CASE pc = "e_applied" /\ l = "early"
  <2>1. proc["early"].state # "COMPLETED" /\ Began("early", 1) /\ signals = {M1, M2("ACCEPTED")}
        BY <1>1, <1>10 DEF SignFair, FairEarly
  <2>2. Sign!Stored(l) = {M2("ACCEPTED")} /\ [M2("ACCEPTED") EXCEPT !.status = "APPLIED"] = M2("APPLIED")
        BY <1>10, <2>1 DEF Sign!Stored, M1, M2
  <2>3. apply
        BY <1>5, <1>10, <2>1, <2>2 DEF Began
  <2>4. signals' = {M1, M2("APPLIED")}
    <3>1. M1 \notin {M2("ACCEPTED")}
          BY DEF M1, M2
    <3>2. signals' = {IF s \in {M2("ACCEPTED")} THEN [s EXCEPT !.status = "APPLIED"] ELSE s : s \in {M1, M2("ACCEPTED")}}
          BY <1>2, <2>1, <2>2, <2>3
    <3> HIDE DEF apply
    <3> QED  BY <2>2, <3>1, <3>2
  <2>5. FairSignal' /\ FairEarly'
    <3>1. pc' = "e_applied" /\ proc'["early"].state = "COMPLETED" /\ proc'["signal"] = proc["signal"] /\ seen' = seen
          BY <1>1, <1>4, <1>6, <1>10, <2>3 DEF Sign!Labels
    <3>2. FairSignal'
          BY <1>10, <3>1 DEF SignFair, FairSignal, Executed, Resumed
    <3> QED  BY <2>4, <3>1, <3>2 DEF FairEarly
  <2>6. FairVersions'
        BY <1>1, <1>10 DEF SignFair, FairVersions, Published
  <2> QED  BY <1>1, <2>5, <2>6 DEF SignFair
<1>11. CASE pc \notin {"e_start", "e_waiting", "e_signal"} \cup Executed \cup Resumed
  <2>1. FairSignal' /\ FairEarly'
        BY <1>1, <1>11 DEF FairSignal, FairEarly, Executed, Resumed
  <2>2. /\ l = "manual" => pc \notin Published \cup {"e_views", "v_publish"}
        /\ l = "v2" => pc \notin {"v_repeat", "v_record"}
        /\ l = "v2" /\ pc = "v_waiting" => proc[l].ver = 2
        /\ l = "manual" /\ pc = "e_manualwait" => proc[l].ver = 1
        /\ active' = active /\ up' = up /\ pc' = pc /\ seen' = seen
        BY <1>1 DEF SignFair, FairVersions, Arrived, Began
  <2>3. /\ l = "manual" => Arrived(l, "WAITING_MANUAL", proc[l].ver)'
        /\ l = "v2" /\ pc = "v_waiting" => Arrived(l, "WAITING_MANUAL", 2)'
        /\ l = "unknown" => proc'[l].state = "FAILED" /\ proc'[l].attempts = 1 /\ proc'[l].effects = 0
        BY <1>4, <1>5, <1>6, <2>2 DEF Arrived, Sign!ActionRows, e
  <2>4. \A k \in Sign!Labels : k # l => proc'[k] = proc[k]
        BY <1>6
  <2>5. FairVersions'
    <3>1. (pc = "e_manualwait" => Began("manual", 1) \/ Arrived("manual", "WAITING_MANUAL", 1))'
          BY <1>4, <1>5, <1>6, <2>2 DEF SignFair, FairVersions, Began, Arrived, Sign!ActionRows, Sign!Labels, e
    <3>2. (pc = "v_waiting" => Began("v2", 2) \/ Arrived("v2", "WAITING_MANUAL", 2))'
          BY <2>2, <2>3, <2>4 DEF SignFair, FairVersions, Began, Arrived, Sign!ActionRows, Sign!Labels
    <3>3. (pc \in Published \cup {"e_views", "v_publish"} => Arrived("manual", "WAITING_MANUAL", 1))'
          BY <2>2, <2>4 DEF SignFair, FairVersions, Arrived, Sign!ActionRows, Sign!Labels
    <3>4. (pc \in {"v_repeat", "v_record"} => Arrived("v2", "WAITING_MANUAL", 2))'
          BY <2>2, <2>4 DEF SignFair, FairVersions, Arrived, Sign!ActionRows, Sign!Labels
    <3>5. (pc = "v_failed" => \/ proc["unknown"].state = "RUNNING"
                              \/ /\ proc["unknown"].state = "FAILED" /\ proc["unknown"].attempts = 1
                                 /\ proc["unknown"].effects = 0)'
          BY <2>2, <2>3, <2>4 DEF SignFair, FairVersions, Sign!Labels
    <3> QED  BY <2>2, <3>1, <3>2, <3>3, <3>4, <3>5 DEF SignFair, FairVersions
  <2> QED  BY <1>1, <2>1, <2>5 DEF SignFair
<1> QED
    BY <1>9, <1>10, <1>11 DEF Resumed

\* A deadline that passes while a worker has something to do.
LEMMA FairTimeout ==
    ASSUME NEW p, Sign!PollTimeout(p), up, NEW l \in Sign!Labels, proc[l].state = "RUNNING"
    PROVE  late'
    BY DEF Sign!PollTimeout, Sign!Contract, Sign!Busy

\* A signal with a new message id.
LEMMA FairAccepts ==
    ASSUME GInv, faults = {}, NEW l \in Sign!Labels, NEW msg, NEW body, Sign!Signal(l, msg, body),
           \A s \in signals : s.msg # msg
    PROVE  /\ Sign!Answer(l, msg, body) = "accepted"
           /\ signals' = signals \cup {[msg |-> msg, proc |-> l, body |-> body, n |-> Sign!Cardinality(signals),
                                        status |-> IF proc[l].state = "WAITING_SIGNAL" THEN "APPLIED" ELSE "ACCEPTED"]}
           /\ IF proc[l].state = "WAITING_SIGNAL"
              THEN proc'[l].state = "COMPLETED" /\ proc'[l].ended
              ELSE proc'[l] = proc[l]
           /\ \A k \in Sign!Labels : k # l => proc'[k] = proc[k]
           /\ events' = [events EXCEPT ![l] = Append(@, "SignalApplied")]
           /\ UNCHANGED <<active, up>>
<1>1. Sign!Known(l, msg) = {}
      BY DEF Sign!Known
<1>2. Sign!Answer(l, msg, body) = "accepted"
      BY <1>1 DEF Sign!Answer, Sign!Has
<1>3. /\ UNCHANGED <<active, up>>
      /\ signals' = signals \cup {[msg |-> msg, proc |-> l, body |-> body, n |-> Sign!Cardinality(signals),
                                   status |-> IF proc[l].state = "WAITING_SIGNAL" THEN "APPLIED" ELSE "ACCEPTED"]}
  <2> DEFINE st == IF proc[l].state = "WAITING_SIGNAL" THEN "APPLIED" ELSE "ACCEPTED"
  <2>1. UNCHANGED <<active, up>>
        BY DEF Sign!Signal
  <2>2. Stores(l, msg, body, st, Sign!Cardinality(signals))
        BY DEF Sign!Signal, Sign!Has, Stores
  <2>3. signals' = signals \cup {[msg |-> msg, proc |-> l, body |-> body, n |-> Sign!Cardinality(signals), status |-> st]}
        BY <1>2, <2>2 DEF Stores
  <2> QED  BY <2>1, <2>3
<1> DEFINE c == "no_end" \notin faults
<1>3a. proc' = IF Sign!Answer(l, msg, body) = "accepted" /\ proc[l].state = "WAITING_SIGNAL"
              THEN [proc EXCEPT ![l].state = "COMPLETED", ![l].ended = c] ELSE proc
      BY DEF Sign!Signal, Sign!Has
<1>4. events' = [events EXCEPT ![l] = Append(@, "SignalApplied")]
  <2>1. Sign!Answer(l, msg, body) = "accepted" =>
           events' = [events EXCEPT ![l] = IF "history_rewritten" \in faults
                                           THEN [i \in 1..Len(@) + 1 |-> "SignalApplied"]
                                           ELSE Append(@, "SignalApplied")]
        BY DEF Sign!Signal, Sign!Has
  <2> QED  BY <1>2, <2>1
<1>5. proc \in [Sign!Labels -> ProcessSchema] /\ proc[l] \in ProcessSchema
      BY DEF GInv, SignTables
<1>6. CASE proc[l].state = "WAITING_SIGNAL"
  <2> DEFINE r == [proc[l] EXCEPT !.state = "COMPLETED", !.ended = c]
  <2>1. r.state = "COMPLETED" /\ r.ended
        BY <1>5 DEF ProcessSchema
  <2>2. proc' = [proc EXCEPT ![l] = r]
        BY <1>2, <1>5, <1>6, <1>3a
  <2> HIDE DEF r
  <2> QED  BY <1>2, <1>3, <1>4, <1>5, <1>6, <2>1, <2>2
<1>7. CASE proc[l].state # "WAITING_SIGNAL"
      BY <1>2, <1>3, <1>4, <1>7, <1>3a
<1> QED
    BY <1>6, <1>7

\* A signal whose message id is known changes nothing.
LEMMA FairRepeats ==
    ASSUME faults = {}, NEW l, NEW msg, NEW body, Sign!Signal(l, msg, body),
           NEW s \in signals, s.msg = msg, \A t \in signals : t.msg = msg => t = s
    PROVE  /\ Sign!Answer(l, msg, body) = IF s.proc = l /\ s.body = body THEN "duplicate" ELSE "conflict"
           /\ UNCHANGED <<signals, proc, events, active, up>>
<1>1. Sign!Known(l, msg) = {s}
      BY DEF Sign!Known, Sign!Has
<1>2. Sign!Answer(l, msg, body) = IF s.proc = l /\ s.body = body THEN "duplicate" ELSE "conflict"
      BY <1>1 DEF Sign!Answer, Sign!Has
<1>3. Sign!Answer(l, msg, body) # "accepted"
      BY <1>2
<1> HIDE <1>2
<1>4. UNCHANGED <<signals, proc, active, up>>
      BY <1>3 DEF Sign!Signal, Sign!Has
<1>5. UNCHANGED events
      BY <1>3 DEF Sign!Signal, Sign!Has
<1> QED
    BY <1>2, <1>4, <1>5

\* The one row is one row.
LEMMA FairCounts ==
    /\ Sign!Cardinality({}) = 0
    /\ \A s : Sign!Cardinality({s}) = 1
<1>1. \A S : Sign!Cardinality(S) = Cardinality(S)
      BY DEF Sign!Cardinality, Cardinality
<1> QED
    BY <1>1, FS_EmptySet, FS_Singleton

\* A recorded check.
LEMMA FairRecords ==
    ASSUME GInv, SignFair, NEW c \in Sign!Checks, NEW b, b, Sign!Record(c, b)
    PROVE  \A d \in Sign!Checks : result'[d] # "failed"
    BY DEF GInv, SignFair, Sign!Record

LEMMA FairStart ==
    ASSUME GInv, GShow, faults = {}, NEW l \in Sign!Labels, Sign!Start(l), NEW v \in {1, 2}, active = {v}
    PROVE  /\ Began(l, v)' /\ \A k \in Sign!Labels : k # l => proc'[k] = proc[k]
           /\ UNCHANGED <<active, signals, up>>
<1>1. (CHOOSE x \in {v} : \A u \in {v} : u <= x) = v
      OBVIOUS
<1>2. Sign!Version = v
      BY <1>1 DEF Sign!Version, Sign!Has
<1> DEFINE r == [Sign!NoProcess EXCEPT !.state = "RUNNING", !.ver = v]
<1>3. r.state = "RUNNING" /\ r.ver = v
      BY DEF Sign!NoProcess
<1>4. proc' = [proc EXCEPT ![l] = r] /\ UNCHANGED <<active, signals, up>>
      BY <1>2 DEF Sign!Start
<1> HIDE DEF r
<1> QED
    BY <1>3, <1>4 DEF GInv, SignTables, Began

\* The checker reads the waiting process.
LEMMA FairWaiting ==
    ASSUME GInv, GShow, faults = {}, SignFair, Sign!ExecutionWaiting
    PROVE  late' \/ SignFair'
<1>1. pc = "e_waiting" /\ up
      BY DEF Sign!ExecutionWaiting, SignFair, FairVersions
<1>2. CASE Sign!PollTimeout(proc["signal"].state = "WAITING_SIGNAL")
  <2>1. proc["signal"].state = "RUNNING"
        BY <1>1, <1>2 DEF Sign!PollTimeout, SignFair, FairSignal, Began, Arrived
  <2> QED  BY <1>1, <1>2, <2>1, FairTimeout DEF Sign!Labels
<1>3. CASE /\ proc["signal"].state = "WAITING_SIGNAL" /\ pc' = "e_signal"
           /\ seen' = [seen EXCEPT !.automatic = Sign!ActionRows("signal"), !.history = events["signal"],
                                   !.ok = Sign!SignalRows("signal") = {}]
           /\ UNCHANGED <<active, proc, signals, events, up, faults, result, late>>
  <2>1. Arrived("signal", "WAITING_SIGNAL", 1) /\ signals = {} /\ Sign!SignalRows("signal") = {}
        BY <1>1, <1>3 DEF SignFair, FairSignal, Began, Sign!SignalRows
  <2>2. seen'.automatic /\ seen'.history = events["signal"] /\ seen'.ok
        BY <1>3, <2>1 DEF Arrived, GShow, SignSeen
  <2>3. FairSignal'
        BY <1>3, <2>1, <2>2 DEF FairSignal, Arrived, Sign!ActionRows, Executed, Resumed
  <2>4. FairEarly' /\ FairVersions'
        BY <1>1, <1>3 DEF SignFair, FairEarly, FairVersions, Published
  <2> QED  BY <1>3, <2>3, <2>4 DEF SignFair
<1> QED
    BY <1>2, <1>3 DEF Sign!ExecutionWaiting, Sign!Go, Sign!Keep, Sign!engine

\* The signal, its repeat and the changed one.
LEMMA FairFirst ==
    ASSUME GInv, GShow, faults = {}, SignFair, Sign!ExecutionSignal
    PROVE  SignFair'
<1>1. /\ pc = "e_signal" /\ pc' = "e_completed" /\ Sign!Signal("signal", "m1", "body")
      /\ seen' = [seen EXCEPT !.ok = @ /\ Sign!Answer("signal", "m1", "body") = "accepted"]
      /\ UNCHANGED <<faults, result, late>>
      BY DEF Sign!ExecutionSignal, Sign!Go, Sign!Keep
<1>2. signals = {} /\ proc["signal"].state = "WAITING_SIGNAL" /\ seen.history = events["signal"] /\ seen.automatic /\ seen.ok
      BY <1>1 DEF SignFair, FairSignal, Arrived
<1>3. /\ Sign!Answer("signal", "m1", "body") = "accepted" /\ signals' = {M1}
      /\ proc'["signal"].state = "COMPLETED" /\ proc'["signal"].ended
      /\ events' = [events EXCEPT !["signal"] = Append(@, "SignalApplied")]
      /\ UNCHANGED <<active, up>>
      BY <1>1, <1>2, FairAccepts, FairCounts DEF M1, Sign!Labels
<1>4. events'["signal"] = Append(events["signal"], "SignalApplied")
      BY <1>3 DEF GShow, SignSeen, Sign!Labels
<1>5. seen'.ok /\ seen'.automatic /\ seen'.history = seen.history
      BY <1>1, <1>2, <1>3 DEF GShow, SignSeen
<1>6. FairSignal'
      BY <1>1, <1>2, <1>3, <1>4, <1>5 DEF FairSignal, Executed, Resumed
<1>7. FairEarly' /\ FairVersions'
      BY <1>1, <1>3 DEF SignFair, FairEarly, FairVersions, Published
<1> QED
    BY <1>1, <1>6, <1>7 DEF SignFair

LEMMA FairCompleted ==
    ASSUME GInv, GShow, faults = {}, SignFair, Sign!ExecutionCompleted
    PROVE  SignFair'
<1>1. /\ pc = "e_completed" /\ proc["signal"].state = "COMPLETED" /\ signals = {M1}
      /\ events["signal"] = Append(seen.history, "SignalApplied") /\ seen.ok /\ seen.automatic
      BY DEF Sign!ExecutionCompleted, SignFair, FairSignal, Executed
<1>2. /\ pc' = "e_repeat"
      /\ seen' = [seen EXCEPT
            !.ok = @ /\ Sign!KeepsHistory(seen.history, events["signal"])
                     /\ Sign!Cardinality(Sign!SignalRows("signal")) = 1,
            !.signals = Sign!SignalRows("signal"), !.history = events["signal"]]
      /\ UNCHANGED <<active, proc, signals, events, up, faults, result, late>>
      BY <1>1 DEF Sign!ExecutionCompleted, Sign!PollTimeout, Sign!Go, Sign!Keep, Sign!engine
<1>3. Sign!SignalRows("signal") = {M1} /\ Sign!Cardinality({M1}) = 1
  <2>1. Sign!SignalRows("signal") = {M1}
        BY <1>1 DEF Sign!SignalRows, M1
  <2> QED  BY <2>1, FairCounts
<1>4. Sign!KeepsHistory(seen.history, events["signal"])
  <2>1. \A q \in Seq(Entries) : LET h == Append(q, "SignalApplied") IN Len(h) > Len(q) /\ SubSeq(h, 1, Len(q)) = q
    <3> SUFFICES ASSUME NEW q \in Seq(Entries)
                 PROVE  LET h == Append(q, "SignalApplied") IN Len(h) > Len(q) /\ SubSeq(h, 1, Len(q)) = q
        OBVIOUS
    <3> DEFINE h == Append(q, "SignalApplied")
    <3>1. h \in Seq(Entries) /\ Len(h) = Len(q) + 1 /\ Len(q) \in Nat
          BY DEF Entries
    <3>2. \A i \in 1..Len(q) : h[i] = q[i]
          OBVIOUS
    <3>3. SubSeq(h, 1, Len(q)) = [i \in 1..Len(q) |-> h[i]]
          BY <3>1
    <3>4. q = [i \in 1..Len(q) |-> q[i]]
          OBVIOUS
    <3> HIDE DEF h
    <3>5. [i \in 1..Len(q) |-> h[i]] = [i \in 1..Len(q) |-> q[i]]
          BY <3>2
    <3> QED  BY <3>1, <3>3, <3>4, <3>5 DEF h
  <2> QED  BY <1>1, <2>1 DEF GShow, SignSeen, Sign!KeepsHistory
<1>5. seen'.ok /\ seen'.automatic /\ seen'.signals = {M1} /\ seen'.history = events["signal"]
      BY <1>1, <1>2, <1>3, <1>4 DEF GShow, SignSeen
<1>6. FairSignal'
      BY <1>1, <1>2, <1>5 DEF SignFair, FairSignal, Executed, Resumed
<1>7. FairEarly' /\ FairVersions'
      BY <1>1, <1>2 DEF SignFair, FairEarly, FairVersions, Published
<1> QED
    BY <1>2, <1>6, <1>7 DEF SignFair

LEMMA FairAgain ==
    ASSUME GInv, GShow, faults = {}, SignFair, Sign!ExecutionRepeat \/ Sign!ExecutionChanged
    PROVE  SignFair'
<1>1. PICK body \in {"body", "changed"} :
         /\ IF body = "body" THEN pc = "e_repeat" /\ pc' = "e_changed" ELSE pc = "e_changed" /\ pc' = "e_record"
         /\ Sign!Unchanging("signal", "m1", body, IF body = "body" THEN "duplicate" ELSE "conflict")
      BY DEF Sign!ExecutionRepeat, Sign!ExecutionChanged, Sign!Go
<1>2. signals = {M1} /\ seen.signals = {M1} /\ events["signal"] = seen.history /\ seen.ok /\ seen.automatic
      BY <1>1 DEF SignFair, FairSignal, Executed, Resumed
<1>3. /\ Sign!Answer("signal", "m1", body) = IF body = "body" THEN "duplicate" ELSE "conflict"
      /\ UNCHANGED <<signals, proc, events, active, up>>
  <2>1. M1 \in signals /\ M1.msg = "m1" /\ M1.proc = "signal" /\ M1.body = "body" /\ \A t \in signals : t = M1
        BY <1>2 DEF M1
  <2>2. Sign!Signal("signal", "m1", body)
        BY <1>1 DEF Sign!Unchanging
  <2> QED  BY <1>1, <2>1, <2>2, FairRepeats
<1>4. {s \in signals' : s.proc = "signal"} = {M1}
      BY <1>2, <1>3 DEF M1
<1>5. UNCHANGED <<faults, result, late>> /\ seen'.ok /\ seen'.automatic /\ seen'.signals = {M1} /\ seen'.history = seen.history
      BY <1>1, <1>2, <1>3, <1>4 DEF Sign!Unchanging, GShow, SignSeen, Sign!Keep
<1>6. FairSignal'
      BY <1>1, <1>2, <1>3, <1>5 DEF SignFair, FairSignal, Executed, Resumed
<1>7. FairEarly' /\ FairVersions'
      BY <1>1, <1>3 DEF SignFair, FairEarly, FairVersions, Published
<1> QED
    BY <1>5, <1>6, <1>7 DEF SignFair

\* The checks that are recorded from what was read.
LEMMA FairRecorded ==
    ASSUME GInv, GShow, faults = {}, SignFair,
           Sign!ExecutionRecord \/ Sign!ExecutionManualWait \/ Sign!ExecutionViews
    PROVE  late' \/ SignFair'
<1>1. CASE Sign!ExecutionRecord
  <2>1. /\ pc = "e_record" /\ pc' = "e_early"
        /\ Sign!Record("automatic-signal-end", seen.automatic /\ proc["signal"].ended)
        /\ UNCHANGED <<active, proc, signals, events, up, seen, faults, late>>
        BY <1>1 DEF Sign!ExecutionRecord, Sign!Go, Sign!engine
  <2>2. seen.automatic /\ proc["signal"].ended
        BY <2>1 DEF SignFair, FairSignal, Executed
  <2>3. \A c \in Sign!Checks : result'[c] # "failed"
        BY <2>1, <2>2, FairRecords DEF Sign!Checks
  <2>4. FairSignal' /\ FairEarly' /\ FairVersions'
        BY <2>1 DEF SignFair, FairSignal, FairEarly, FairVersions, Executed, Resumed, Published
  <2> QED  BY <2>3, <2>4 DEF SignFair
<1>2. CASE Sign!ExecutionManualWait
  <2>1. pc = "e_manualwait" /\ up
        BY <1>2 DEF Sign!ExecutionManualWait, SignFair, FairVersions
  <2>2. CASE Sign!PollTimeout(proc["manual"].state = "WAITING_MANUAL")
    <3>1. proc["manual"].state = "RUNNING"
          BY <2>1, <2>2 DEF Sign!PollTimeout, SignFair, FairVersions, Began, Arrived
    <3> QED  BY <2>1, <2>2, <3>1, FairTimeout DEF Sign!Labels
  <2>3. CASE /\ proc["manual"].state = "WAITING_MANUAL" /\ pc' = "e_views"
             /\ Sign!Record("manual-wait", "manual_no_step" \notin faults)
             /\ UNCHANGED <<active, proc, signals, events, up, seen, faults, late>>
    <3>1. \A c \in Sign!Checks : result'[c] # "failed"
          BY <2>3, FairRecords DEF Sign!Checks
    <3>2. Arrived("manual", "WAITING_MANUAL", 1)'
          BY <2>1, <2>3 DEF SignFair, FairVersions, Began, Arrived, Sign!ActionRows
    <3>3. FairSignal' /\ FairEarly' /\ FairVersions'
          BY <2>1, <2>3, <3>2 DEF SignFair, FairSignal, FairEarly, FairVersions, Executed, Resumed, Published
    <3> QED  BY <3>1, <3>3 DEF SignFair
  <2> QED  BY <1>2, <2>2, <2>3 DEF Sign!ExecutionManualWait, Sign!Go, Sign!Has, Sign!engine
<1>3. CASE Sign!ExecutionViews
  <2>1. /\ pc = "e_views" /\ pc' = "v_publish"
        /\ Sign!Record("stable-views", "view_missing" \notin faults /\ "view_changed" \notin faults)
        /\ UNCHANGED <<active, proc, signals, events, up, seen, faults, late>>
        BY <1>3 DEF Sign!ExecutionViews, Sign!Go, Sign!engine, Sign!Has
  <2>2. \A c \in Sign!Checks : result'[c] # "failed"
        BY <2>1, FairRecords DEF Sign!Checks
  <2>3. Arrived("manual", "WAITING_MANUAL", 1)'
        BY <2>1 DEF SignFair, FairVersions, Arrived, Sign!ActionRows
  <2>4. FairSignal' /\ FairEarly' /\ FairVersions'
        BY <2>1, <2>3 DEF SignFair, FairSignal, FairEarly, FairVersions, Executed, Resumed, Published
  <2> QED  BY <2>2, <2>4 DEF SignFair
<1> QED
    BY <1>1, <1>2, <1>3

\* A process is started.
LEMMA FairStarts ==
    ASSUME GInv, GShow, faults = {}, SignFair,
           Sign!ExecutionStart \/ Sign!ExecutionManual \/ Sign!VersioningUnknown
    PROVE  SignFair'
<1>1. PICK l \in {"signal", "manual", "unknown"} :
         /\ IF l = "signal" THEN pc = "e_start" /\ pc' = "e_waiting"
            ELSE IF l = "manual" THEN pc = "e_manual" /\ pc' = "e_manualwait" ELSE pc = "v_unknown" /\ pc' = "v_failed"
         /\ Sign!Start(l) /\ UNCHANGED <<seen, faults, result, late>>
      BY DEF Sign!ExecutionStart, Sign!ExecutionManual, Sign!VersioningUnknown, Sign!Go, Sign!Keep
<1>2. active = {IF l = "unknown" THEN 2 ELSE 1}
      BY <1>1 DEF SignFair, FairVersions, Published
<1>3. /\ Began(l, IF l = "unknown" THEN 2 ELSE 1)' /\ \A k \in Sign!Labels : k # l => proc'[k] = proc[k]
      /\ UNCHANGED <<active, signals, up>>
      BY <1>1, <1>2, FairStart DEF Sign!Labels
<1>4. FairSignal'
      BY <1>1, <1>3 DEF SignFair, FairSignal, Executed, Resumed
<1>5. FairEarly'
      BY <1>1 DEF FairEarly
<1>6. FairVersions'
      BY <1>1, <1>2, <1>3 DEF SignFair, FairVersions, Published, Began
<1> QED
    BY <1>1, <1>4, <1>5, <1>6 DEF SignFair

\* The process that gets its signal while the workers are stopped.
LEMMA FairStopped ==
    ASSUME GInv, GShow, faults = {}, SignFair,
           Sign!ExecutionEarly \/ Sign!ExecutionEarlySignal \/ Sign!ExecutionResume
    PROVE  SignFair'
<1>1. CASE Sign!ExecutionEarly
  <2> DEFINE r == [Sign!NoProcess EXCEPT !.state = "RUNNING", !.ver = Sign!Version]
  <2>1. pc = "e_early" /\ pc' = "e_stored" /\ up' = FALSE /\ UNCHANGED <<active, signals, seen, faults, result, late>>
        /\ proc' = [proc EXCEPT !["early"] = r]
        BY <1>1 DEF Sign!ExecutionEarly, Sign!Go, Sign!Keep
  <2>2. active = {1} /\ (CHOOSE x \in {1} : \A u \in {1} : u <= x) = 1
        BY <2>1 DEF SignFair, FairVersions, Published
  <2>3. Sign!Version = 1
        BY <2>2 DEF Sign!Version, Sign!Has
  <2>4. r.state = "RUNNING" /\ r.ver = 1
        BY <2>3 DEF Sign!NoProcess
  <2> HIDE DEF r
  <2>5. Began("early", 1)' /\ proc'["signal"] = proc["signal"]
        BY <2>1, <2>4 DEF GInv, SignTables, Began, Sign!Labels
  <2>6. FairSignal' /\ FairEarly'
        BY <2>1, <2>5 DEF SignFair, FairSignal, FairEarly, Executed, Resumed
  <2>7. FairVersions'
        BY <2>1, <2>2 DEF FairVersions, Published
  <2> QED  BY <2>1, <2>6, <2>7 DEF SignFair
<1>2. CASE Sign!ExecutionEarlySignal
  <2>1. /\ pc = "e_stored" /\ pc' = "e_resume" /\ Sign!Signal("early", "m2", "body")
        /\ seen' = [seen EXCEPT !.ok = @ /\ Sign!Answer("early", "m2", "body") = "accepted"
                                     /\ Sign!Cardinality({s \in signals' : s.proc = "early"}) = 1
                                     /\ \A s \in signals' : s.proc = "early" => s.status = "ACCEPTED"]
        /\ UNCHANGED <<faults, result, late>>
        BY <1>2 DEF Sign!ExecutionEarlySignal, Sign!Go, Sign!Keep
  <2>2. signals = {M1} /\ M1.msg # "m2" /\ Began("early", 1) /\ ~up /\ seen.ok /\ seen.signals = {M1}
        /\ proc["signal"].state = "COMPLETED"
        BY <2>1 DEF SignFair, FairSignal, FairEarly, FairVersions, Executed, M1
  <2>3. /\ Sign!Answer("early", "m2", "body") = "accepted" /\ signals' = {M1} \cup {M2("ACCEPTED")}
        /\ proc'["early"] = proc["early"] /\ proc'["signal"] = proc["signal"]
        /\ UNCHANGED <<active, up>>
    <3>1. proc["early"].state # "WAITING_SIGNAL" /\ "early" \in Sign!Labels /\ "signal" \in Sign!Labels
          BY <2>2 DEF Began, Sign!Labels
    <3>2. Sign!Cardinality(signals) = 1
          BY <2>2, FairCounts
    <3>3. /\ Sign!Answer("early", "m2", "body") = "accepted"
          /\ signals' = signals \cup {[msg |-> "m2", proc |-> "early", body |-> "body",
                                       n |-> Sign!Cardinality(signals), status |-> "ACCEPTED"]}
          /\ proc'["early"] = proc["early"] /\ proc'["signal"] = proc["signal"]
          /\ UNCHANGED <<active, up>>
      <4>1. \A s \in signals : s.msg # "m2"
            BY <2>2
      <4> HIDE <2>2
      <4> QED  BY <2>1, <3>1, <4>1, FairAccepts
    <3> QED  BY <2>2, <3>2, <3>3 DEF M2
  <2>4. {s \in signals' : s.proc = "early"} = {M2("ACCEPTED")} /\ M2("ACCEPTED").status = "ACCEPTED"
        BY <2>3 DEF M1, M2
  <2>5. seen'.ok /\ seen'.signals = {M1}
    <3>1. Sign!Cardinality({s \in signals' : s.proc = "early"}) = 1
          BY <2>4, FairCounts
    <3>2. \A s \in signals' : s.proc = "early" => s.status = "ACCEPTED"
          BY <2>4
    <3> QED  BY <2>1, <2>2, <2>3, <3>1, <3>2 DEF GShow, SignSeen
  <2>6. FairSignal'
        BY <2>1, <2>2, <2>3, <2>5 DEF FairSignal, Executed, Resumed
  <2>7. signals' = {M1, M2("ACCEPTED")}
        BY <2>3
  <2>8. FairEarly'
        BY <2>1, <2>2, <2>3, <2>7 DEF FairEarly, Began
  <2>9. FairVersions'
        BY <2>1, <2>2, <2>3 DEF SignFair, FairVersions, Published
  <2> QED  BY <2>1, <2>6, <2>8, <2>9 DEF SignFair
<1>3. CASE Sign!ExecutionResume
  <2>1. /\ pc = "e_resume" /\ pc' = "e_applied" /\ up'
        /\ UNCHANGED <<active, proc, signals, events, seen, faults, result, late>>
        BY <1>3 DEF Sign!ExecutionResume, Sign!Go, Sign!Keep
  <2>2. FairSignal' /\ FairEarly' /\ FairVersions'
        BY <2>1 DEF SignFair, FairSignal, FairEarly, FairVersions, Executed, Resumed, Published, Began
  <2> QED  BY <2>1, <2>2 DEF SignFair
<1> QED
    BY <1>1, <1>2, <1>3

LEMMA FairApplied ==
    ASSUME GInv, GShow, faults = {}, SignFair, Sign!ExecutionApplied
    PROVE  late' \/ SignFair'
<1>1. pc = "e_applied" /\ up
      BY DEF Sign!ExecutionApplied, SignFair, FairVersions
<1>2. CASE Sign!PollTimeout(proc["early"].state = "COMPLETED")
  <2>1. proc["early"].state = "RUNNING"
        BY <1>1, <1>2 DEF Sign!PollTimeout, SignFair, FairEarly, Began
  <2> QED  BY <1>1, <1>2, <2>1, FairTimeout DEF Sign!Labels
<1>3. CASE /\ proc["early"].state = "COMPLETED" /\ pc' = "e_elsewhere"
           /\ seen' = [seen EXCEPT !.early = Sign!SignalRows("early"),
                   !.ok = @ /\ Sign!Cardinality(Sign!SignalRows("early")) = 1
                            /\ \A s \in Sign!SignalRows("early") : s.status = "APPLIED"]
           /\ UNCHANGED <<active, proc, signals, events, up, faults, result, late>>
  <2>1. signals = {M1, M2("APPLIED")} /\ seen.ok /\ seen.signals = {M1} /\ proc["signal"].state = "COMPLETED"
        BY <1>1, <1>3 DEF SignFair, FairSignal, FairEarly, Began, Resumed
  <2>2. Sign!SignalRows("early") = {M2("APPLIED")} /\ M2("APPLIED").status = "APPLIED"
        BY <2>1 DEF Sign!SignalRows, M1, M2
  <2>3. Sign!Cardinality(Sign!SignalRows("early")) = 1
        BY <2>2, FairCounts
  <2>4. seen'.ok /\ seen'.signals = {M1} /\ seen'.early = {M2("APPLIED")}
        BY <1>3, <2>1, <2>2, <2>3 DEF GShow, SignSeen
  <2>5. FairSignal' /\ FairEarly'
        BY <1>3, <2>1, <2>4 DEF FairSignal, FairEarly, Executed, Resumed
  <2>6. FairVersions'
        BY <1>1, <1>3 DEF SignFair, FairVersions, Published
  <2> QED  BY <1>3, <2>5, <2>6 DEF SignFair
<1> QED
    BY <1>2, <1>3 DEF Sign!ExecutionApplied, Sign!Go, Sign!Keep, Sign!engine

LEMMA FairElsewhere ==
    ASSUME GInv, GShow, faults = {}, SignFair, Sign!ExecutionElsewhere
    PROVE  SignFair'
<1> DEFINE same == /\ {s \in signals' : s.proc = "early"} = seen.early
                   /\ {s \in signals' : s.proc = "signal"} = seen.signals
           fine == seen.ok /\ Sign!Answer("signal", "m2", "body") = "conflict" /\ same
<1>1. /\ pc = "e_elsewhere" /\ pc' = "e_manual" /\ Sign!Signal("signal", "m2", "body")
      /\ Sign!Record("signal-idempotency-and-history", fine)
      /\ UNCHANGED <<seen, faults, late>>
      BY DEF Sign!ExecutionElsewhere, Sign!Go
<1>2. /\ signals = {M1, M2("APPLIED")} /\ seen.early = {M2("APPLIED")} /\ seen.ok /\ seen.signals = {M1}
      BY <1>1 DEF SignFair, FairSignal, FairEarly, Resumed
<1>3. Sign!Answer("signal", "m2", "body") = "conflict" /\ UNCHANGED <<signals, proc, events, active, up>>
  <2>1. /\ M2("APPLIED") \in signals /\ M2("APPLIED").msg = "m2" /\ M2("APPLIED").proc # "signal"
        /\ \A t \in signals : t.msg = "m2" => t = M2("APPLIED")
        BY <1>2 DEF M1, M2
  <2> QED  BY <1>1, <2>1, FairRepeats
<1>4. fine
      BY <1>2, <1>3 DEF M1, M2
<1> HIDE DEF fine
<1>5. \A c \in Sign!Checks : result'[c] # "failed"
      BY <1>1, <1>4, FairRecords DEF Sign!Checks
<1>6. FairSignal' /\ FairEarly'
      BY <1>1 DEF FairSignal, FairEarly, Executed, Resumed
<1>7. FairVersions'
      BY <1>1, <1>3 DEF SignFair, FairVersions, Published
<1> QED
    BY <1>5, <1>6, <1>7 DEF SignFair

\* Version 2 is published.
LEMMA FairPublish ==
    ASSUME GInv, GShow, faults = {}, SignFair, Sign!VersioningPublish
    PROVE  SignFair'
<1> DEFINE r == [Sign!NoProcess EXCEPT !.state = "RUNNING", !.ver = 2]
<1>1. /\ pc = "v_publish" /\ pc' = "v_waiting" /\ active' = {2}
      /\ proc' = [l \in Sign!Labels |-> IF l = "v2" THEN r ELSE proc[l]]
      /\ UNCHANGED <<signals, up, seen, faults, result, late>>
      BY DEF Sign!VersioningPublish, Sign!Go, Sign!Has, Sign!Keep
<1>2. r.state = "RUNNING" /\ r.ver = 2
      BY DEF Sign!NoProcess
<1> HIDE DEF r
<1>3. Began("v2", 2)' /\ proc'["manual"] = proc["manual"]
      BY <1>1, <1>2 DEF Began, Sign!Labels
<1>4. FairSignal' /\ FairEarly'
      BY <1>1 DEF FairSignal, FairEarly, Executed, Resumed
<1>5. Arrived("manual", "WAITING_MANUAL", 1)'
      BY <1>1, <1>3 DEF SignFair, FairVersions, Arrived, Sign!ActionRows
<1>6. FairVersions'
      BY <1>1, <1>3, <1>5 DEF SignFair, FairVersions, Published
<1> QED
    BY <1>1, <1>4, <1>6 DEF SignFair

\* The second version is read, started again and compared.
LEMMA FairPinned ==
    ASSUME GInv, GShow, faults = {}, SignFair,
           Sign!VersioningWaiting \/ Sign!VersioningRepeat \/ Sign!VersioningRecord
    PROVE  late' \/ SignFair'
<1>1. CASE Sign!VersioningWaiting
  <2>1. pc = "v_waiting" /\ up
        BY <1>1 DEF Sign!VersioningWaiting, SignFair, FairVersions
  <2>2. CASE Sign!PollTimeout(proc["v2"].state = "WAITING_MANUAL")
    <3>1. proc["v2"].state = "RUNNING"
          BY <2>1, <2>2 DEF Sign!PollTimeout, SignFair, FairVersions, Began, Arrived
    <3> QED  BY <2>1, <2>2, <3>1, FairTimeout DEF Sign!Labels
  <2>3. CASE /\ proc["v2"].state = "WAITING_MANUAL" /\ pc' = "v_repeat"
             /\ UNCHANGED <<active, proc, signals, events, up, seen, faults, result, late>>
    <3>1. Arrived("v2", "WAITING_MANUAL", 2)' /\ Arrived("manual", "WAITING_MANUAL", 1)'
          BY <2>1, <2>3 DEF SignFair, FairVersions, Began, Arrived, Sign!ActionRows, Published
    <3>2. FairSignal' /\ FairEarly' /\ FairVersions'
          BY <2>1, <2>3, <3>1 DEF SignFair, FairSignal, FairEarly, FairVersions, Executed, Resumed, Published
    <3> QED  BY <2>3, <3>2 DEF SignFair
  <2> QED  BY <1>1, <2>2, <2>3 DEF Sign!VersioningWaiting, Sign!Go, Sign!Keep, Sign!engine
<1>2. CASE Sign!VersioningRepeat
  <2>1. /\ pc = "v_repeat" /\ pc' = "v_record" /\ UNCHANGED <<active, proc, signals, events, up, faults, result, late>>
        /\ seen'.same /\ seen'.changed
        BY <1>2 DEF Sign!VersioningRepeat, Sign!Go, Sign!Keep, Sign!engine, Sign!Has, GShow, SignSeen
  <2>2. Arrived("v2", "WAITING_MANUAL", 2)' /\ Arrived("manual", "WAITING_MANUAL", 1)'
        BY <2>1 DEF SignFair, FairVersions, Arrived, Sign!ActionRows, Published
  <2>3. FairSignal' /\ FairEarly' /\ FairVersions'
        BY <2>1, <2>2 DEF SignFair, FairSignal, FairEarly, FairVersions, Executed, Resumed, Published
  <2> QED  BY <2>1, <2>3 DEF SignFair
<1>3. CASE Sign!VersioningRecord
  <2>1. /\ pc = "v_record" /\ pc' = "v_unknown" /\ Sign!Record(Pinned, Sign!VersioningValid)
        /\ UNCHANGED <<active, proc, signals, events, up, seen, faults, late>>
        BY <1>3 DEF Sign!VersioningRecord, Sign!Go, Sign!engine, Pinned
  <2>2. Sign!VersioningValid
        BY <2>1 DEF SignFair, FairVersions, Arrived, Sign!ActionRows, Published, Sign!VersioningValid, Sign!OldProcess
  <2>3. \A c \in Sign!Checks : result'[c] # "failed"
        BY <2>1, <2>2, FairRecords DEF Sign!Checks, Pinned
  <2>4. FairSignal' /\ FairEarly' /\ FairVersions'
        BY <2>1 DEF SignFair, FairSignal, FairEarly, FairVersions, Executed, Resumed, Published
  <2> QED  BY <2>3, <2>4 DEF SignFair
<1> QED
    BY <1>1, <1>2, <1>3

\* The process whose outcome the map does not know.
LEMMA FairFailed ==
    ASSUME GInv, GShow, faults = {}, SignFair, Sign!VersioningFailed
    PROVE  late' \/ SignFair'
<1>1. pc = "v_failed" /\ up
      BY DEF Sign!VersioningFailed, SignFair, FairVersions
<1>2. CASE Sign!PollTimeout(proc["unknown"].state = "FAILED")
  <2>1. proc["unknown"].state = "RUNNING"
        BY <1>1, <1>2 DEF Sign!PollTimeout, SignFair, FairVersions
  <2> QED  BY <1>1, <1>2, <2>1, FairTimeout DEF Sign!Labels
<1>3. CASE /\ proc["unknown"].state = "FAILED" /\ pc' = "done"
           /\ result' = IF proc["unknown"].attempts = 1 /\ proc["unknown"].effects = 0 THEN result
                        ELSE [result EXCEPT !["version-pinning-and-start-idempotency"] = "failed"]
           /\ UNCHANGED <<active, proc, signals, events, up, seen, faults, late>>
  <2>1. result' = result
        BY <1>1, <1>3 DEF SignFair, FairVersions
  <2>2. FairSignal' /\ FairEarly' /\ FairVersions'
        BY <1>1, <1>3 DEF SignFair, FairSignal, FairEarly, FairVersions, Executed, Resumed, Published
  <2> QED  BY <2>1, <2>2 DEF SignFair
<1> QED
    BY <1>2, <1>3 DEF Sign!VersioningFailed, Sign!Go, Sign!engine

\* Time that was lost stays lost.
LEMMA SignLateStays == GInv /\ Sign!Next /\ late => late'
<1> SUFFICES ASSUME GInv, Sign!Next, late
             PROVE  late'
    OBVIOUS
<1>1. \A slow : Sign!Contract(slow) => late'
      BY DEF Sign!Contract
<1>2. \A p : Sign!PollTimeout(p) => late'
      BY <1>1 DEF Sign!PollTimeout
<1>3. CASE Sign!Engine
      BY <1>3 DEF Sign!Engine, Sign!Work
<1>4. CASE Sign!ExecutionStart \/ Sign!ExecutionSignal \/ Sign!ExecutionRepeat \/ Sign!ExecutionChanged
           \/ Sign!ExecutionRecord \/ Sign!ExecutionEarly \/ Sign!ExecutionEarlySignal \/ Sign!ExecutionResume
           \/ Sign!ExecutionElsewhere \/ Sign!ExecutionManual \/ Sign!ExecutionViews \/ Sign!VersioningPublish
           \/ Sign!VersioningRepeat \/ Sign!VersioningRecord \/ Sign!VersioningUnknown
      BY <1>4 DEF Sign!ExecutionStart, Sign!ExecutionSignal, Sign!ExecutionRepeat, Sign!ExecutionChanged,
         Sign!ExecutionRecord, Sign!ExecutionEarly, Sign!ExecutionEarlySignal, Sign!ExecutionResume,
         Sign!ExecutionElsewhere, Sign!ExecutionManual, Sign!ExecutionViews, Sign!VersioningPublish,
         Sign!VersioningRepeat, Sign!VersioningRecord, Sign!VersioningUnknown, Sign!Unchanging, Sign!Keep
<1>5. CASE Sign!ExecutionWaiting \/ Sign!ExecutionCompleted \/ Sign!ExecutionApplied \/ Sign!ExecutionManualWait
           \/ Sign!VersioningWaiting \/ Sign!VersioningFailed \/ Sign!StartRefused
      BY <1>1, <1>2, <1>5 DEF Sign!ExecutionWaiting, Sign!ExecutionCompleted, Sign!ExecutionApplied,
         Sign!ExecutionManualWait, Sign!VersioningWaiting, Sign!VersioningFailed, Sign!StartRefused, Sign!Keep
<1> QED
    BY <1>3, <1>4, <1>5 DEF Sign!Next, Sign!Checker

\* An engine without faults goes through the two phases as they expect, unless time was lost.
GFair == faults = {} /\ ~late => SignFair

LEMMA SignFairs ==
    /\ Sign!Init => GFair
    /\ GInv /\ GShow /\ GFair /\ Sign!Next => GFair'
<1>1. Sign!Init => GFair
  <2> SUFFICES ASSUME Sign!Init
               PROVE  SignFair
      BY DEF GFair
  <2>1. /\ pc = "e_start" /\ active = {1} /\ signals = {} /\ up = TRUE
        /\ result = [c \in Sign!Checks |-> "absent"]
        BY DEF Sign!Init
  <2> QED  BY <2>1 DEF SignFair, FairSignal, FairEarly, FairVersions, Executed, Resumed, Published
<1>2. ASSUME GInv, GShow, GFair, Sign!Next
      PROVE  GFair'
  <2>1. faults' = faults /\ (late => late') /\ late \in BOOLEAN /\ late' \in BOOLEAN
    <3>1. GInv'
          BY <1>2, SignInvariant
    <3> QED  BY <1>2, <3>1, SignFaultsFixed, SignLateStays DEF GInv
  <2> SUFFICES ASSUME faults = {}, SignFair
               PROVE  late' \/ SignFair'
      BY <1>2, <2>1 DEF GFair
  <2>2. ~Sign!StartRefused
        BY DEF Sign!StartRefused, Sign!Has
  <2>3. CASE Sign!Engine
        BY <1>2, <2>3, FairWork DEF Sign!Engine
  <2>4. CASE Sign!Checker
        BY <1>2, <2>2, <2>4, FairWaiting, FairFirst, FairCompleted, FairAgain, FairRecorded, FairStarts, FairStopped,
           FairApplied, FairElsewhere, FairPublish, FairPinned, FairFailed DEF Sign!Checker
  <2> QED  BY <1>2, <2>3, <2>4 DEF Sign!Next
<1> QED
    BY <1>1, <1>2

-----------------------------------------------------------------------------
(* The provider outage scenario *)

\* The window was open when the checker looked, and nothing has failed since.
Open ==
    \/ pc \in {"record", "restore", "available", "resume", "wait"}
    \/ pc = "finally" /\ pending = "none"

\* A delivery is leased to a dispatcher that works on it, and dies of nothing but its attempts.
FairDelivery ==
    /\ payments <= 1
    /\ \A d \in Outa!Dispatchers : disp[d].at = "accepted" => payments = 1
    /\ row.state = "LEASED" => /\ row.owner \in Outa!Dispatchers /\ disp[row.owner].at # "idle"
                               /\ disp[row.owner].ver = row.ver
    /\ row.state = "PENDING" => row.count = 0
    /\ row.state \in {"LEASED", "RETRY_WAIT", "DEAD"} => row.count > 0
    /\ row.state \in {"RETRY_WAIT", "DEAD"} => row.error = "retryable"
    /\ row.state = "DEAD" => row.count >= OutageAttempts
    /\ provider = "down" => /\ row.count <= OutageAttempts
                            /\ row.state \in {"none", "PENDING", "LEASED", "RETRY_WAIT", "DEAD"}

\* What the checker has brought about, and what it has seen, at each of its steps.
FairSteps ==
    /\ pc \notin {"ready", "submit", "done"} => row.state # "none" /\ operation # "none"
    /\ pc \in {"metric", "start"} => row.state = "PENDING"
    /\ pc \in {"ready", "submit", "metric", "start"} => disp["a"].run = "stopped"
    /\ pc \in {"ready", "submit"} => row.count = 0
    /\ pc = "poll" => disp["a"].run = "running"
    /\ pc \in {"pause", "window", "record"} =>
          /\ row.state # "PENDING"
          /\ seen.state \in {"RETRY_WAIT", "DEAD"} /\ seen.count > 0 /\ seen.error = "retryable"
          /\ seen.state = "DEAD" => row.state = "DEAD"
    /\ pc \in {"window", "record", "restore", "available", "finally"} => disp["a"].run = "paused"

\* In an open window an attempt that was refused is not the last one.
FairOpen ==
    /\ pc \in {"available", "resume", "wait", "audit"} \/ (pc = "finally" /\ pending = "none") => provider = "up"
    /\ Open /\ payments = 0 =>
          /\ row.state \in {"RETRY_WAIT", "LEASED"}
          /\ disp["a"].at = "refused" => disp["a"].ver + 1 < OutageAttempts
          /\ disp["b"].at # "refused"

OutaFair ==
    /\ verdict # "ContractError" /\ pending # "ContractError"
    /\ FairDelivery /\ FairSteps /\ FairOpen

\* While the provider is down, only A works.
LEMMA FairAlone ==
    ASSUME OInv, OutaFair, pc # "done", provider = "down"
    PROVE  /\ payments = 0 /\ disp["b"].run = "stopped" /\ disp["b"].at = "idle"
           /\ disp["a"].at # "idle" => Outa!Holds("a")
           /\ disp["a"].at = "idle" => row.state # "LEASED"
<1>1. pc \in Outa!Steps
      BY DEF OInv, Outa!TypeOK
<1>2. pc \notin {"wait", "audit"}
      BY DEF OutaFair, FairOpen
<1>3. disp["b"].run = "stopped" /\ payments = 0 /\ disp["b"].at = "idle"
      BY <1>2 DEF OInv, OutageSteps, OutageDelivery
<1>4. disp["a"].at # "idle" => Outa!Holds("a")
      BY <1>3 DEF OInv, OutageDelivery
<1>5. row.state = "LEASED" => row.owner = "a" /\ disp["a"].at # "idle"
      BY <1>3 DEF OutaFair, FairDelivery, Outa!Dispatchers
<1> QED
    BY <1>3, <1>4, <1>5

LEMMA FairClaim ==
    ASSUME OInv, OutaFair, faults = {}, pc # "done", NEW d \in Outa!Dispatchers, Outa!Claim(d)
    PROVE  OutaFair'
<1> USE CheckersTypes DEF Outa!Dispatchers
<1>1. /\ disp[d].run = "running" /\ disp[d].at = "idle" /\ Outa!Claimable
      /\ row' = [row EXCEPT !.state = "LEASED", !.owner = d, !.ver = @ + 1, !.count = @ + 1]
      /\ disp' = [disp EXCEPT ![d].at = "claimed", ![d].ver = row.ver + 1]
      /\ UNCHANGED <<faults, pc, seen, pending, verdict, provider, payments, operation>>
      BY DEF Outa!Claim, Outa!Checking
<1>2. row \in Outa!Rows /\ disp \in [Outa!Dispatchers -> OutageSchema]
      BY DEF OInv, Outa!TypeOK, OutageSchema
<1>3. /\ row'.state = "LEASED" /\ row'.owner = d /\ row'.ver = row.ver + 1
      /\ row'.count = row.count + 1 /\ row.count \in Nat
      BY <1>1, <1>2 DEF Outa!Rows
<1>4. /\ disp'[d].at = "claimed" /\ disp'[d].ver = row.ver + 1
      /\ \A e \in Outa!Dispatchers : disp'[e].run = disp[e].run /\ (e # d => disp'[e] = disp[e])
      BY <1>1, <1>2 DEF OutageSchema
<1>5. row.state \in {"PENDING", "RETRY_WAIT", "LEASED"}
      BY <1>1 DEF Outa!Claimable
<1>6. provider = "down" => row'.count <= OutageAttempts
  <2> SUFFICES ASSUME provider = "down"
               PROVE  row.count + 1 <= OutageAttempts
      BY <1>3
  <2>1. row.state # "LEASED"
        BY <1>1, FairAlone
  <2>2. row.state = "PENDING" => row.count = 0
        BY DEF OutaFair, FairDelivery
  <2>3. row.state = "RETRY_WAIT" => row.count < OutageAttempts
        BY DEF OInv, OutageRetry
  <2> QED  BY <1>3, <1>5, <2>1, <2>2, <2>3
<1>7. FairDelivery'
  <2>1. \A e \in Outa!Dispatchers : disp'[e].at = "accepted" => disp[e].at = "accepted"
        BY <1>4
  <2>2. row'.count > 0
        BY <1>3
  <2> QED  BY <1>1, <1>3, <1>4, <1>6, <2>1, <2>2 DEF OutaFair, FairDelivery
<1>8. pc \notin {"ready", "submit", "metric", "start"}
  <2>1. pc \in {"ready", "submit", "metric", "start"} => \A e \in Outa!Dispatchers : disp[e].run = "stopped"
        BY DEF OutaFair, FairSteps, OInv, OutageSteps
  <2> QED  BY <1>1, <2>1
<1>9. FairSteps'
      BY <1>1, <1>3, <1>4, <1>5, <1>8 DEF OutaFair, FairSteps
<1>10. FairOpen'
      BY <1>1, <1>3, <1>4 DEF OutaFair, FairOpen, Open
<1> QED
    BY <1>1, <1>7, <1>9, <1>10 DEF OutaFair

LEMMA FairPost ==
    ASSUME OInv, OutaFair, faults = {}, pc # "done", NEW d \in Outa!Dispatchers, Outa!Post(d)
    PROVE  OutaFair'
<1> USE DEF Outa!Dispatchers
<1>1. /\ disp[d].run = "running" /\ disp[d].at = "claimed"
      /\ \/ provider = "up" /\ disp' = [disp EXCEPT ![d].at = "accepted"] /\ payments' = 1
         \/ provider # "up" /\ disp' = [disp EXCEPT ![d].at = "refused"] /\ payments' = payments
      /\ UNCHANGED <<row, provider, operation, faults, pc, seen, pending, verdict>>
      BY DEF Outa!Post, Outa!Checking, Outa!Has
<1>2. disp \in [Outa!Dispatchers -> OutageSchema] /\ provider \in {"up", "down"} /\ payments \in 0..2
      BY DEF OInv, Outa!TypeOK, OutageSchema
<1>3. /\ disp'[d].at # "idle"
      /\ provider # "up" => disp'[d].at = "refused"
      /\ \A e \in Outa!Dispatchers : /\ disp'[e].run = disp[e].run /\ disp'[e].ver = disp[e].ver
                                     /\ e # d => disp'[e] = disp[e]
      BY <1>1, <1>2 DEF OutageSchema
<1>4. FairDelivery'
  <2>1. payments' <= 1 /\ \A e \in Outa!Dispatchers : disp'[e].at = "accepted" => payments' = 1
    <3>1. provider = "up" => payments' = 1
          BY <1>1
    <3>2. provider # "up" => payments' = payments /\ disp'[d].at # "accepted"
          BY <1>1, <1>3
    <3> QED  BY <1>2, <1>3, <3>1, <3>2 DEF OutaFair, FairDelivery
  <2>2. \A e \in Outa!Dispatchers : disp[e].at # "idle" => disp'[e].at # "idle"
        BY <1>3
  <2> QED  BY <1>1, <1>3, <2>1, <2>2 DEF OutaFair, FairDelivery
<1>5. FairSteps'
      BY <1>1, <1>3 DEF OutaFair, FairSteps
<1>6. provider = "down" => ~Open
  <2> SUFFICES ASSUME provider = "down", Open
               PROVE  FALSE
      OBVIOUS
  <2>1. d = "a" /\ pc \in {"record", "restore"}
        BY <1>1, FairAlone DEF OutaFair, FairOpen, Open
  <2> QED  BY <1>1, <2>1 DEF OutaFair, FairSteps
<1>7. FairOpen'
      BY <1>1, <1>2, <1>3, <1>6 DEF OutaFair, FairOpen, Open
<1> QED
    BY <1>1, <1>4, <1>5, <1>7 DEF OutaFair

LEMMA FairReport ==
    ASSUME OInv, OutaFair, faults = {}, pc # "done", NEW d \in Outa!Dispatchers, Outa!Report(d)
    PROVE  OutaFair'
<1> USE CheckersTypes DEF Outa!Dispatchers
<1>1. /\ disp[d].run = "running" /\ disp[d].at \in {"accepted", "refused"}
      /\ row' = IF ~Outa!Holds(d) THEN row
                ELSE IF disp[d].at = "accepted" THEN [row EXCEPT !.state = "DELIVERED", !.owner = "none"]
                ELSE Outa!Failed
      /\ disp' = [disp EXCEPT ![d].at = "idle"]
      /\ UNCHANGED <<provider, payments, operation, faults, pc, seen, pending, verdict>>
      BY DEF Outa!Report, Outa!Checking
<1>2. row \in Outa!Rows /\ disp \in [Outa!Dispatchers -> OutageSchema] /\ payments \in 0..2
      BY DEF OInv, Outa!TypeOK, OutageSchema
<1>3. /\ disp'[d].at = "idle"
      /\ \A e \in Outa!Dispatchers : /\ disp'[e].run = disp[e].run /\ disp'[e].ver = disp[e].ver
                                     /\ e # d => disp'[e] = disp[e]
      BY <1>1, <1>2 DEF OutageSchema
<1>4. pc \notin {"ready", "submit", "metric", "start"}
  <2>1. pc \in {"ready", "submit", "metric", "start"} => \A e \in Outa!Dispatchers : disp[e].run = "stopped"
        BY DEF OutaFair, FairSteps, OInv, OutageSteps
  <2> QED  BY <1>1, <2>1
<1>5. CASE ~Outa!Holds(d)
  <2>1. row' = row /\ (row.state = "LEASED" => row.owner # d)
        BY <1>1, <1>5 DEF Outa!Holds, OutaFair, FairDelivery
  <2>2. FairDelivery'
    <3>1. \A e \in Outa!Dispatchers : disp'[e].at = "accepted" => disp[e].at = "accepted"
          BY <1>3
    <3>2. row.state = "LEASED" => disp'[row.owner] = disp[row.owner]
          BY <1>3, <2>1 DEF OutaFair, FairDelivery
    <3> QED  BY <1>1, <2>1, <3>1, <3>2 DEF OutaFair, FairDelivery
  <2>4. FairSteps'
        BY <1>1, <1>3, <2>1 DEF OutaFair, FairSteps
  <2>3. FairOpen'
        BY <1>1, <1>3, <2>1 DEF OutaFair, FairOpen, Open
  <2> QED  BY <1>1, <2>2, <2>3, <2>4 DEF OutaFair
<1>6. CASE Outa!Holds(d) /\ disp[d].at = "accepted"
  <2>1. row'.state = "DELIVERED" /\ row'.count = row.count
        BY <1>1, <1>2, <1>6 DEF Outa!Rows
  <2>2. payments = 1 /\ provider # "down"
        BY <1>6 DEF OutaFair, FairDelivery, OInv, OutageDelivery
  <2>3. pc \notin {"pause", "window", "record"}
        BY <2>2 DEF OInv, OutageSteps, Outa!TypeOK
  <2>4. FairDelivery' /\ FairSteps'
        BY <1>1, <1>3, <1>4, <2>1, <2>2, <2>3 DEF OutaFair, FairDelivery, FairSteps
  <2>5. FairOpen'
        BY <1>1, <1>3, <2>2 DEF OutaFair, FairOpen, Open
  <2> QED  BY <1>1, <2>4, <2>5 DEF OutaFair
<1>7. CASE Outa!Holds(d) /\ disp[d].at = "refused"
  <2>1. /\ row'.state = IF row.count < OutageAttempts THEN "RETRY_WAIT" ELSE "DEAD"
        /\ row'.error = "retryable" /\ row'.count = row.count /\ row.count \in Nat
        BY <1>1, <1>2, <1>7 DEF Outa!Failed, Outa!Has, Outa!Rows
  <2>2. row.state = "LEASED" /\ row.count > 0 /\ row.count = disp[d].ver
        BY <1>7 DEF Outa!Holds, OutaFair, FairDelivery, OInv, OutageDelivery
  <2>3. FairDelivery'
        BY <1>1, <1>3, <2>1, <2>2 DEF OutaFair, FairDelivery
  <2>4. FairSteps'
        BY <1>1, <1>3, <1>4, <2>1, <2>2 DEF OutaFair, FairSteps
  <2>5. Open /\ payments = 0 => d = "a" /\ row.count < OutageAttempts
        BY <1>2, <1>7, <2>1, <2>2 DEF OutaFair, FairOpen, OutageSchema
  <2>6. FairOpen'
        BY <1>1, <1>3, <2>1, <2>5 DEF OutaFair, FairOpen, Open
  <2> QED  BY <1>1, <2>3, <2>4, <2>6 DEF OutaFair
<1> QED
    BY <1>1, <1>5, <1>6, <1>7

\* The provider's callback, and the passing of time.
LEMMA FairOthers ==
    ASSUME OInv, OutaFair, faults = {}, pc # "done", Outa!Callback \/ Outa!TimePasses
    PROVE  OutaFair'
<1>1. CASE Outa!Callback
  <2>1. /\ provider = "up" /\ payments > 0 /\ operation' = "COMPLETED"
        /\ row' = [row EXCEPT !.state = "CONFIRMED", !.owner = "none"]
        /\ UNCHANGED <<disp, provider, payments, faults, pc, seen, pending, verdict>>
        BY <1>1 DEF Outa!Callback, Outa!Checking
  <2>2. row'.state = "CONFIRMED"
        BY <2>1 DEF OInv, Outa!TypeOK, Outa!Rows
  <2>3. pc \notin {"ready", "submit", "metric", "start", "pause", "window", "record"} /\ payments # 0
        BY <2>1 DEF OInv, OutageSteps, Outa!TypeOK
  <2>4. FairDelivery' /\ FairSteps' /\ FairOpen'
        BY <2>1, <2>2, <2>3 DEF OutaFair, FairDelivery, FairSteps, FairOpen
  <2> QED  BY <2>1, <2>4 DEF OutaFair
<1>2. CASE Outa!TimePasses
  <2>1. UNCHANGED <<row, disp, provider, payments, operation, faults, pc, seen, pending, verdict>>
        BY <1>2 DEF Outa!TimePasses, Outa!Checking
  <2> QED  BY <2>1 DEF OutaFair, FairDelivery, FairSteps, FairOpen, Open
<1> QED
    BY <1>1, <1>2

\* A poll that times out does so early: the candidate could still move.
LEMMA FairPollTimeout ==
    ASSUME OInv, OutaFair, faults = {}, OutageClaims >= OutageAttempts,
           \/ pc = "metric" /\ Outa!PollTimeout(row.state # "none")
           \/ pc = "poll" /\ Outa!PollTimeout(Outa!Retried)
           \/ pc = "wait" /\ Outa!PollTimeout(operation = "COMPLETED")
    PROVE  late'
<1> USE CheckersTypes DEF Outa!Dispatchers
<1>1. /\ row \in Outa!Rows /\ disp \in [Outa!Dispatchers -> OutageSchema] /\ due \in BOOLEAN
      /\ payments \in 0..2 /\ provider \in {"up", "down"} /\ operation \in {"none", "SUBMITTED", "COMPLETED"}
      BY DEF OInv, Outa!TypeOK, OutageSchema
<1> SUFFICES Outa!Busy
    BY DEF Outa!PollTimeout
<1>2. CASE pc = "metric"
      BY <1>2 DEF Outa!PollTimeout, OutaFair, FairSteps
<1>3. CASE pc = "poll" /\ Outa!PollTimeout(Outa!Retried)
  <2>1. provider = "down" /\ disp["a"].run = "running"
        BY <1>1, <1>3 DEF OInv, OutageSteps, OutaFair, FairSteps
  <2>2. row.state \in {"PENDING", "LEASED"}
        BY <1>3, <2>1 DEF Outa!PollTimeout, Outa!Retried, OutaFair, FairDelivery, FairSteps
  <2>3. CASE row.state = "PENDING"
    <3>1. row.count < OutageClaims
          BY <2>3 DEF OutaFair, FairDelivery
    <3> QED  BY <1>3, <2>1, <2>3, <3>1 DEF Outa!Busy, Outa!Claimable
  <2>4. CASE row.state = "LEASED"
    <3>1. disp["a"].at # "idle"
          BY <1>3, <2>1, <2>4, FairAlone
    <3> QED  BY <1>3, <2>1, <3>1 DEF Outa!Busy
  <2> QED  BY <2>2, <2>3, <2>4
<1>4. CASE pc = "wait" /\ Outa!PollTimeout(operation = "COMPLETED")
  <2>1. provider = "up" /\ operation = "SUBMITTED"
        BY <1>1, <1>4 DEF Outa!PollTimeout, OutaFair, FairOpen, FairSteps
  <2>2. \A d \in Outa!Dispatchers : disp[d].run = "running"
        BY <1>4 DEF OInv, OutageSteps
  <2>3. CASE payments > 0
        BY <1>4, <2>1, <2>3 DEF Outa!Busy
  <2>4. CASE payments = 0
    <3>1. row.state \in {"RETRY_WAIT", "LEASED"}
          BY <1>4, <2>4 DEF OutaFair, FairOpen, Open
    <3>2. CASE ~due
          BY <1>4, <3>1, <3>2 DEF Outa!Busy
    <3>3. CASE due /\ row.state = "LEASED"
      <4>1. row.owner \in Outa!Dispatchers /\ disp[row.owner].at # "idle"
            BY <3>3 DEF OutaFair, FairDelivery
      <4> QED  BY <1>4, <2>2, <4>1 DEF Outa!Busy
    <3>4. CASE due /\ row.state = "RETRY_WAIT"
      <4>1. row.count < OutageClaims
            BY <1>1, <3>4 DEF OInv, OutageRetry, Outa!Rows
      <4> QED  BY <1>4, <2>2, <3>4, <4>1 DEF Outa!Busy, Outa!Claimable, Outa!Has
    <3> QED  BY <3>1, <3>2, <3>3, <3>4
  <2> QED  BY <1>1, <2>3, <2>4
<1> QED
    BY <1>2, <1>3, <1>4

\* What the checker reads and records.
LEMMA FairReads ==
    ASSUME OInv, OutaFair, faults = {}, OutageClaims >= OutageAttempts,
           \/ Outa!OutageReady \/ Outa!OutageMetric \/ Outa!OutagePoll \/ Outa!RecoveryWindow
           \/ Outa!OutageRecord \/ Outa!OutageAvailable \/ Outa!OutageWait \/ Outa!OutageAudit
    PROVE  late' \/ OutaFair'
<1> USE DEF Outa!candidate, Outa!Go, Outa!Keep
<1>1. /\ row \in Outa!Rows /\ pc \in Outa!Steps /\ payments \in 0..2 /\ provider \in {"up", "down"}
      /\ pc # "done" => verdict = "none"
      BY DEF OInv, Outa!TypeOK, OutageSteps
<1>2. CASE Outa!OutageReady
  <2>1. /\ pc = "ready" /\ pc' = "submit"
        /\ UNCHANGED <<row, disp, provider, payments, operation, seen, pending, verdict>>
        BY <1>2 DEF Outa!OutageReady, Outa!Require, Outa!Has
  <2> QED  BY <2>1 DEF OutaFair, FairDelivery, FairSteps, FairOpen, Open
<1>3. CASE Outa!OutageMetric
  <2>1. CASE pc = "metric" /\ Outa!PollTimeout(row.state # "none")
        BY <2>1, FairPollTimeout
  <2>2. CASE pc = "metric" /\ row.state # "none" /\ Outa!Require(~Outa!Has("no_metric"), "start")
    <3>1. /\ pc' = "start"
          /\ UNCHANGED <<row, disp, provider, payments, operation, seen, pending, verdict>>
          BY <2>2 DEF Outa!Require, Outa!Has
    <3> QED  BY <2>2, <3>1 DEF OutaFair, FairDelivery, FairSteps, FairOpen, Open
  <2> QED  BY <1>3, <2>1, <2>2 DEF Outa!OutageMetric
<1>4. CASE Outa!OutagePoll
  <2>1. CASE pc = "poll" /\ Outa!PollTimeout(Outa!Retried)
        BY <2>1, FairPollTimeout
  <2>2. CASE /\ pc = "poll" /\ row.state \in {"RETRY_WAIT", "DEAD"} /\ pc' = "pause" /\ seen' = row
             /\ UNCHANGED <<row, disp, provider, payments, operation, pending, verdict>>
        BY <2>2 DEF OutaFair, FairDelivery, FairSteps, FairOpen, Open
  <2> QED  BY <1>4, <2>1, <2>2 DEF Outa!OutagePoll, Outa!Retried
<1>5. CASE Outa!RecoveryWindow
  <2>1. pc = "window" /\ UNCHANGED <<row, disp, provider, payments, operation, seen>>
        BY <1>5 DEF Outa!RecoveryWindow
  <2>2. provider = "down"
        BY <1>1, <2>1 DEF OInv, OutageSteps
  <2>3. /\ row.count \in 1..OutageAttempts /\ row.state \in {"RETRY_WAIT", "LEASED", "DEAD"}
        /\ row.state = "DEAD" => ~(row.count < OutageAttempts)
        /\ row.state # "LEASED" => row.error = "retryable"
        BY <1>1, <2>1, <2>2, CheckersTypes DEF OutaFair, FairDelivery, FairSteps, Outa!Rows
  <2>4. \/ Outa!Raise("environment")
        \/ ~Outa!Missed /\ pc' = "record" /\ UNCHANGED <<pending, verdict>>
        BY <1>5, <2>3 DEF Outa!RecoveryWindow
  <2>5. CASE Outa!Raise("environment")
    <3>1. pending' = "environment" /\ pc' = "finally" /\ verdict' = verdict
          BY <2>1, <2>5 DEF Outa!Raise
    <3> QED  BY <2>1, <3>1 DEF OutaFair, FairDelivery, FairSteps, FairOpen, Open
  <2>6. CASE ~Outa!Missed /\ pc' = "record" /\ UNCHANGED <<pending, verdict>>
    <3>1. row.state \in {"RETRY_WAIT", "LEASED"} /\ (row.state = "LEASED" => row.count + 1 < OutageAttempts)
          BY <2>3, <2>6, CheckersTypes DEF Outa!Missed
    <3>2. /\ disp["a"].at = "refused" => disp["a"].ver + 1 < OutageAttempts
          /\ disp["b"].at # "refused"
          BY <2>1, <2>2, <3>1, FairAlone DEF Outa!Holds, OInv, OutageDelivery
    <3>3. FairDelivery' /\ FairSteps'
          BY <2>1, <2>6 DEF OutaFair, FairDelivery, FairSteps
    <3>4. FairOpen'
          BY <2>1, <2>6, <3>1, <3>2 DEF FairOpen, Open
    <3> QED  BY <2>6, <3>3, <3>4 DEF OutaFair
  <2> QED  BY <2>4, <2>5, <2>6
<1>6. CASE Outa!OutageRecord
  <2>1. pc = "record" /\ provider = "down" /\ payments = 0
        BY <1>1, <1>6 DEF Outa!OutageRecord, OInv, OutageSteps, OutageDelivery
  <2>2. seen.state = "RETRY_WAIT" /\ seen.count >= 1 /\ seen.error = "retryable"
    <3>1. seen.count \in Nat
          BY CheckersTypes DEF OInv, Outa!TypeOK, Outa!Rows
    <3> QED  BY <2>1, <3>1 DEF OutaFair, FairSteps, FairOpen, Open
  <2>3. /\ pc' = "restore"
        /\ UNCHANGED <<row, disp, provider, payments, operation, seen, pending, verdict>>
        BY <1>6, <2>2 DEF Outa!OutageRecord, Outa!Require
  <2> QED  BY <2>1, <2>3 DEF OutaFair, FairDelivery, FairSteps, FairOpen, Open
<1>7. CASE Outa!OutageAvailable
  <2>1. /\ pc = "available" /\ pc' = "finally" /\ verdict' = verdict
        /\ pending' \in {pending, "environment"}
        /\ UNCHANGED <<row, disp, provider, payments, operation, seen>>
        BY <1>7 DEF Outa!OutageAvailable, Outa!Raise
  <2> QED  BY <2>1 DEF OutaFair, FairDelivery, FairSteps, FairOpen, Open
<1>8. CASE Outa!OutageWait
  <2>1. CASE pc = "wait" /\ Outa!PollTimeout(operation = "COMPLETED")
        BY <2>1, FairPollTimeout
  <2>2. CASE /\ pc = "wait" /\ operation = "COMPLETED" /\ pc' = "audit"
             /\ UNCHANGED <<row, disp, provider, payments, operation, seen, pending, verdict>>
        BY <2>2 DEF OutaFair, FairDelivery, FairSteps, FairOpen, Open
  <2> QED  BY <1>8, <2>1, <2>2 DEF Outa!OutageWait
<1>9. CASE Outa!OutageAudit
  <2>1. pc = "audit"
        BY <1>9 DEF Outa!OutageAudit
  <2>2. payments = 1
        BY <1>1, <2>1 DEF OInv, OutageSteps, OutageDelivery, OutaFair, FairDelivery
  <2>3. /\ pc' = "done" /\ verdict' = "passed" /\ pending' = pending
        /\ UNCHANGED <<row, disp, provider, payments, operation, seen>>
        BY <1>9, <2>2 DEF Outa!OutageAudit
  <2> QED  BY <2>3 DEF OutaFair, FairDelivery, FairSteps, FairOpen, Open
<1> QED
    BY <1>2, <1>3, <1>4, <1>5, <1>6, <1>7, <1>8, <1>9

\* What the checker does to the stack.
LEMMA FairCommands ==
    ASSUME OInv, OutaFair, faults = {},
           \/ Outa!OutageSubmit \/ Outa!OutageStart \/ Outa!OutagePause \/ Outa!OutageRestore
           \/ Outa!OutageFinally \/ Outa!OutageResume
    PROVE  OutaFair'
<1> USE CheckersTypes DEF Outa!Go, Outa!Keep
<1>1. row \in Outa!Rows /\ "a" \in Outa!Dispatchers /\ "b" \in Outa!Dispatchers
      BY DEF OInv, Outa!TypeOK, Outa!Dispatchers
<1>2. ASSUME NEW d \in Outa!Dispatchers, NEW state \in {"running", "paused"}, Outa!Run(d, state),
             UNCHANGED <<row, payments, provider>>
      PROVE  /\ FairDelivery' /\ disp'[d].run = state
             /\ \A e \in Outa!Dispatchers : /\ disp'[e].at = disp[e].at /\ disp'[e].ver = disp[e].ver
                                            /\ e # d => disp'[e].run = disp[e].run
  <2>1. /\ disp'[d].run = state
        /\ \A e \in Outa!Dispatchers : /\ disp'[e].at = disp[e].at /\ disp'[e].ver = disp[e].ver
                                       /\ e # d => disp'[e].run = disp[e].run
        BY <1>2, OutageRun
  <2> QED  BY <1>2, <2>1 DEF OutaFair, FairDelivery
<1>3. CASE Outa!OutageSubmit
  <2>1. /\ pc = "submit" /\ pc' = "metric" /\ operation' = "SUBMITTED"
        /\ row' = [row EXCEPT !.state = "PENDING"]
        /\ UNCHANGED <<disp, provider, payments, seen, pending, verdict>>
        BY <1>3 DEF Outa!OutageSubmit, Outa!Has
  <2>2. row'.state = "PENDING" /\ row'.count = row.count /\ row.count = 0
        BY <1>1, <2>1 DEF OutaFair, FairSteps, Outa!Rows
  <2> QED  BY <2>1, <2>2 DEF OutaFair, FairDelivery, FairSteps, FairOpen, Open
<1>4. CASE Outa!OutageStart
  <2>1. /\ pc = "start" /\ pc' = "poll" /\ Outa!Run("a", "running")
        /\ UNCHANGED <<row, provider, payments, operation, seen, pending, verdict>>
        BY <1>4 DEF Outa!OutageStart
  <2> QED  BY <1>1, <1>2, <2>1 DEF OutaFair, FairSteps, FairOpen, Open
<1>5. CASE Outa!OutagePause
  <2>1. /\ pc = "pause" /\ pc' = "window" /\ Outa!Run("a", "paused")
        /\ UNCHANGED <<row, provider, payments, operation, seen, pending, verdict>>
        BY <1>5 DEF Outa!OutagePause
  <2> QED  BY <1>1, <1>2, <2>1 DEF OutaFair, FairSteps, FairOpen, Open
<1>6. CASE Outa!OutageRestore
  <2>1. /\ pc = "restore" /\ pc' = "available" /\ provider' = "up"
        /\ UNCHANGED <<row, disp, payments, operation, seen, pending, verdict>>
        BY <1>6 DEF Outa!OutageRestore
  <2> QED  BY <2>1 DEF OutaFair, FairDelivery, FairSteps, FairOpen, Open
<1>7. CASE Outa!OutageFinally
  <2>1. /\ pc = "finally" /\ Outa!Run("a", "running")
        /\ IF pending = "none" THEN pc' = "resume" /\ verdict' = verdict
                               ELSE verdict' = pending /\ pc' = "done"
        /\ UNCHANGED <<row, provider, payments, operation, seen, pending>>
        BY <1>7 DEF Outa!OutageFinally
  <2> QED  BY <1>1, <1>2, <2>1 DEF OutaFair, FairSteps, FairOpen, Open
<1>8. CASE Outa!OutageResume
  <2>1. /\ pc = "resume" /\ pc' = "wait" /\ Outa!Run("b", "running")
        /\ UNCHANGED <<row, provider, payments, operation, seen, pending, verdict>>
        BY <1>8 DEF Outa!OutageResume
  <2> QED  BY <1>1, <1>2, <2>1 DEF OutaFair, FairSteps, FairOpen, Open
<1> QED
    BY <1>3, <1>4, <1>5, <1>6, <1>7, <1>8

\* Time that was lost stays lost, and so do the commands that failed.
LEMMA OutaLostStays ==
    OInv /\ Outa!Next => /\ faults' = faults /\ (late => late')
                         /\ docker # MaxDocker => docker' # MaxDocker
                         /\ Outa!DockerFails => docker' # MaxDocker
<1> SUFFICES ASSUME OInv, Outa!Next
             PROVE  /\ faults' = faults /\ (late => late')
                    /\ docker # MaxDocker => docker' # MaxDocker
                    /\ Outa!DockerFails => docker' # MaxDocker
    OBVIOUS
<1>1. docker \in 0..MaxDocker /\ MaxDocker \in Nat
      BY CheckersTypes DEF OInv, Outa!TypeOK
<1>2. CASE Outa!DockerFails
      BY <1>1, <1>2 DEF Outa!DockerFails
<1>3. \A p : Outa!PollTimeout(p) => faults' = faults /\ (late => late') /\ docker' = docker
      BY DEF Outa!PollTimeout
<1>4. ASSUME Outa!Candidate
      PROVE  faults' = faults /\ docker' = docker /\ (late => late')
  <2>1. ASSUME NEW d \in Outa!Dispatchers, Outa!Claim(d) \/ Outa!Post(d) \/ Outa!PostTimesOut(d) \/ Outa!Report(d)
        PROVE  faults' = faults /\ docker' = docker /\ (late => late')
        BY <2>1 DEF Outa!Claim, Outa!Post, Outa!PostTimesOut, Outa!Report, Outa!Checking
  <2>2. ASSUME Outa!Callback \/ Outa!TimePasses
        PROVE  faults' = faults /\ docker' = docker /\ (late => late')
        BY <2>2 DEF Outa!Callback, Outa!TimePasses, Outa!Checking
  <2> QED  BY <1>4, <2>1, <2>2 DEF Outa!Candidate
<1>5. ASSUME Outa!Checker
      PROVE  faults' = faults /\ docker' = docker /\ (late => late')
  <2>1. CASE Outa!OutageReady \/ Outa!OutageRecord
        BY <2>1 DEF Outa!OutageReady, Outa!OutageRecord, Outa!Require
  <2>2. CASE Outa!OutageMetric \/ Outa!OutagePoll \/ Outa!OutageWait
        BY <1>3, <2>2 DEF Outa!OutageMetric, Outa!OutagePoll, Outa!OutageWait, Outa!Require, Outa!Keep
  <2>3. CASE \/ Outa!OutageSubmit \/ Outa!OutageStart \/ Outa!OutagePause \/ Outa!OutageRestore
             \/ Outa!OutageFinally \/ Outa!OutageResume
        BY <2>3 DEF Outa!OutageSubmit, Outa!OutageStart, Outa!OutagePause, Outa!OutageRestore,
           Outa!OutageFinally, Outa!OutageResume, Outa!Keep
  <2>4. CASE Outa!RecoveryWindow \/ Outa!OutageAvailable \/ Outa!OutageAudit
        BY <2>4 DEF Outa!RecoveryWindow, Outa!OutageAvailable, Outa!OutageAudit
  <2> QED  BY <1>5, <2>1, <2>2, <2>3, <2>4 DEF Outa!Checker
<1>6. Outa!DockerFails => docker' # MaxDocker
      BY <1>2
<1> QED
    BY <1>2, <1>4, <1>5, <1>6 DEF Outa!Next

\* A dispatcher without faults is never blamed, unless time was lost or Docker failed.
OFair == faults = {} /\ ~late /\ docker = MaxDocker => OutaFair

LEMMA OutaFairs ==
    ASSUME OutageClaims >= OutageAttempts
    PROVE  /\ Outa!Init => OFair
           /\ OInv /\ OFair /\ Outa!Next => OFair'
<1>1. Outa!Init => OFair
  <2> SUFFICES ASSUME Outa!Init
               PROVE  OutaFair
      BY DEF OFair
  <2>1. /\ pc = "ready" /\ row.state = "none" /\ row.count = 0 /\ payments = 0 /\ verdict = "none"
        /\ pending = "none" /\ disp["a"].run = "stopped"
        /\ \A d \in Outa!Dispatchers : disp[d].at = "idle"
        BY DEF Outa!Init, Outa!NoRow, Outa!Dispatchers
  <2> QED  BY <2>1, CheckersTypes DEF OutaFair, FairDelivery, FairSteps, FairOpen, Open
<1>2. ASSUME OInv, OFair, Outa!Next
      PROVE  OFair'
  <2>1. late \in BOOLEAN
        BY <1>2 DEF OInv, Outa!TypeOK
  <2> SUFFICES ASSUME faults = {}, OutaFair, docker' = MaxDocker
               PROVE  late' \/ OutaFair'
      BY <1>2, <2>1, OutaLostStays DEF OFair
  <2>2. ~Outa!DockerFails
        BY <1>2, OutaLostStays
  <2>3. CASE Outa!Candidate
    <3>1. \A d \in Outa!Dispatchers : Outa!PostTimesOut(d) => late'
          BY DEF Outa!PostTimesOut
    <3> QED  BY <1>2, <2>3, <3>1, FairClaim, FairPost, FairReport, FairOthers DEF Outa!Candidate
  <2>4. CASE Outa!Checker
        BY <1>2, <2>4, FairReads, FairCommands DEF Outa!Checker
  <2> QED  BY <1>2, <2>2, <2>3, <2>4 DEF Outa!Next
<1> QED
    BY <1>1, <1>2

-----------------------------------------------------------------------------
(* The delivery, receipt, review and restart scenarios of week 4 *)

\* The operations whose callback the checker makes itself, and how an operation ends.
Called == {"adapter", "recovery"}
Outcome(o) == IF o \in Called THEN "REJECTED" ELSE "COMPLETED"

\* The one row a receipt leaves.
Receipt(o, state) == [msg |-> o, outcome |-> Outcome(o), state |-> state, copy |-> 1]
OneRow(o, state) == Receipt(o, state) \in inbox /\ \A r \in inbox : r.msg = o => r = Receipt(o, state)
NoRows(o) == \A r \in inbox : r.msg # o

\* The steps of the checker before an operation is submitted, and those up to its end.
Unborn(o) ==
    CASE o = "provider" -> {"p_stop"} [] o = "adapter" -> ToEvidence \cup {"a_stop"}
      [] o = "sentinel" -> ToRejected \cup {"a_start"} [] o = "auto" -> ToAudit \cup {"v_auto"}
      [] o = "manual" -> ToRule [] o = "recovery" -> ToStop [] o = "resumed" -> ToReplay
During(o) ==
    CASE o = "provider" -> {"p_outbox", "p_receipts", "p_start", "p_completed"}
      [] o = "adapter" -> {"a_wrong", "a_calls", "a_rejected"}
      [] o = "sentinel" -> {"a_sentinel"} [] o = "auto" -> {"v_rule"}
      [] o = "manual" -> {"v_waits", "v_decide", "v_completed"}
      [] o = "recovery" -> {"n_callback", "n_pending", "n_up", "n_applied"}
      [] o = "resumed" -> {"s_resumed"}

\* An operation is over when the checker goes on.
FairProgress ==
    \A o \in Rece!Ops : /\ pc \in Unborn(o) => op[o] = "none"
                        /\ pc \in During(o) => op[o] # "none"
                        /\ pc \notin Unborn(o) \cup During(o) => op[o] = Outcome(o)

\* The steps after the provider has forgotten its payments.
Forgotten == {"s_kept", "s_replay", "s_resumed", "t_stalled"}

\* The operation, its delivery, the payment and the receipt keep step.
FairPayment(o) ==
    /\ op[o] \in {"none", "SUBMITTED", "WAITING_SIGNAL", Outcome(o)}
    /\ op[o] \in {"none", "SUBMITTED"} => outbox[o] = "none"
    /\ op[o] = "WAITING_SIGNAL" => outbox[o] # "none"
    /\ op[o] = Outcome(o) => outbox[o] = "CONFIRMED"
    /\ outbox[o] # "CONFIRMED" => NoRows(o)
    /\ outbox[o] = "CONFIRMED" /\ op[o] = Outcome(o) => OneRow(o, "APPLIED")
    /\ outbox[o] = "CONFIRMED" /\ op[o] # Outcome(o) => OneRow(o, "RECEIVED")
    /\ outbox[o] \in {"none", "PENDING", "LEASED"} \/ o \in Called => paid[o] = 0
    /\ outbox[o] \in {"LEASED", "DELIVERED"} => o \notin Called
    /\ outbox[o] = "DELIVERED" => paid[o] = 1
    /\ outbox[o] = "CONFIRMED" /\ o \notin Called /\ pc \notin Forgotten => paid[o] = 1

\* A delivery is leased to the dispatcher that has it in hand.
FairHands ==
    /\ \A d \in {"a", "b"} : hand[d] # "none" => dispatching /\ outbox[hand[d]] = "LEASED"
    /\ \A o \in Rece!Ops : outbox[o] = "LEASED" => \E d \in {"a", "b"} : hand[d] = o
    /\ hand["a"] = hand["b"] => hand["a"] = "none"

ByRule == <<"auto", "LIMIT_RULE", "APPROVED">>
ByHand == <<"manual", "MANUAL", "APPROVED">>

\* A reviewed operation has one decision, and neither a delivery nor a receipt.
FairReview ==
    /\ \A o \in Rece!Reviewed : outbox[o] = "none" /\ paid[o] = 0
    /\ \A r \in inbox : r.msg \in Rece!Paying
    /\ op["auto"] \in {"none", "SUBMITTED", "COMPLETED"}
    /\ op["manual"] \in {"none", "SUBMITTED", "WAITING_MANUAL", "DECIDED", "COMPLETED"}
    /\ decided \subseteq {ByRule, ByHand}
    /\ ByRule \in decided <=> op["auto"] = "COMPLETED"
    /\ ByHand \in decided <=> op["manual"] \in {"DECIDED", "COMPLETED"}

Undispatched == {"p_outbox", "p_receipts", "p_start", "a_wrong", "a_calls", "a_rejected", "a_start",
                 "n_callback", "n_pending", "n_up", "s_up"}

\* What runs, and how far the operation of a step has come.
FairProbe ==
    /\ dispatching <=> pc \notin Undispatched
    /\ reconciling <=> pc \notin {"n_callback", "n_pending", "n_up", "s_up"}
    /\ pc \in {"p_outbox", "p_receipts", "p_start"} => outbox["provider"] \in {"none", "PENDING"}
    /\ pc = "a_wrong" => outbox["adapter"] # "CONFIRMED"
    /\ pc = "a_calls" => outbox["adapter"] = "PENDING"
    /\ pc = "a_rejected" => outbox["adapter"] = "CONFIRMED"
    /\ pc = "n_callback" => outbox["recovery"] # "CONFIRMED"
    /\ pc \in {"n_pending", "n_up", "n_applied"} => outbox["recovery"] = "CONFIRMED"
    /\ pc \in {"n_pending", "n_up"} => op["recovery"] = "WAITING_SIGNAL"
    /\ pc = "v_waits" => op["manual"] \in {"SUBMITTED", "WAITING_MANUAL"}
    /\ pc = "v_decide" => op["manual"] = "WAITING_MANUAL"
    /\ pc = "v_completed" => op["manual"] \in {"DECIDED", "COMPLETED"}
    /\ pc \in {"s_up", "s_kept", "s_replay"} => before = Rece!Snapshot

FairTables ==
    /\ \A o \in Rece!Paying : FairPayment(o)
    /\ FairProgress /\ FairHands /\ FairReview /\ FairProbe

ReceFair == verdict # "ContractError" /\ (pc # "done" => FairTables)

\* What did not change for an operation.
LEMMA FairPaymentKept ==
    ASSUME NEW o \in Rece!Ops, FairPayment(o),
           op'[o] = op[o], outbox'[o] = outbox[o], paid'[o] = paid[o],
           \A r \in inbox \cup inbox' : r.msg = o => r \in inbox /\ r \in inbox',
           pc \in Forgotten => pc' \in Forgotten
    PROVE  FairPayment(o)'
<1>1. NoRows(o) => NoRows(o)'
      BY DEF NoRows
<1>2. \A s : Receipt(o, s).msg = o
      BY DEF Receipt
<1>3. OneRow(o, "RECEIVED") => OneRow(o, "RECEIVED")'
      BY <1>2 DEF OneRow, Receipt
<1>4. OneRow(o, "APPLIED") => OneRow(o, "APPLIED")'
      BY <1>2 DEF OneRow, Receipt
<1> QED
    BY <1>1, <1>3, <1>4 DEF FairPayment

\* A step of the candidate for one operation, which is on its way.
LEMMA FairFlight ==
    ASSUME FairTables, pc # "done", NEW o \in Rece!Ops, op[o] \notin {"none", Outcome(o)},
           pc' = pc, op'[o] # "none",
           \A x \in Rece!Ops \ {o} : op'[x] = op[x] /\ outbox'[x] = outbox[x] /\ paid'[x] = paid[x],
           \A r \in inbox \cup inbox' : r.msg # o => r \in inbox /\ r \in inbox'
    PROVE  /\ pc \in During(o) /\ pc \notin {"s_up", "s_kept", "s_replay"}
           /\ FairProgress'
           /\ \A x \in Rece!Paying \ {o} : FairPayment(x)'
<1>1. pc \in During(o)
      BY DEF FairTables, FairProgress
<1>2. pc \notin {"s_up", "s_kept", "s_replay"}
      BY <1>1 DEF During, Rece!Ops, Rece!Paying, Rece!Reviewed
<1>3. pc \notin Unborn(o)
      BY DEF FairTables, FairProgress
<1>4. FairProgress'
      BY <1>1, <1>3 DEF FairTables, FairProgress
<1>5. \A x \in Rece!Paying \ {o} : FairPayment(x)'
  <2> SUFFICES ASSUME NEW x \in Rece!Paying \ {o}
               PROVE  FairPayment(x)'
      OBVIOUS
  <2>1. x \in Rece!Ops /\ FairPayment(x)
        BY DEF Rece!Ops, FairTables
  <2> QED  BY <2>1, FairPaymentKept
<1> QED
    BY <1>1, <1>2, <1>4, <1>5

\* A payment that is on its way moves, unless what moves it is stopped.
LEMMA FairBusy ==
    ASSUME CInv, FairTables, faults = {}, pc # "done", NEW o \in Rece!Ops, op[o] \notin {"none", Outcome(o)},
           \/ op[o] \in {"SUBMITTED", "DECIDED"}
           \/ /\ o \in Rece!Paying
              /\ outbox[o] = "PENDING" => dispatching
              /\ outbox[o] = "CONFIRMED" => reconciling
    PROVE  Rece!Busy
<1>1. CASE op[o] \in {"SUBMITTED", "DECIDED"}
      BY <1>1 DEF Rece!Busy
<1>2. CASE op[o] = "WAITING_SIGNAL" /\ o \in Rece!Paying
  <2>1. FairPayment(o)
        BY <1>2 DEF FairTables
  <2>2. CASE outbox[o] = "PENDING"
    <3>1. CASE \E d \in {"a", "b"} : hand[d] # "none"
          BY <3>1 DEF Rece!Busy
    <3>2. CASE \A d \in {"a", "b"} : hand[d] = "none"
      <4>1. o # "none"
            BY DEF Rece!Ops, Rece!Paying, Rece!Reviewed
      <4>2. Rece!Free("a", o)
            BY <1>2, <2>2, <3>2, <4>1 DEF Rece!Free, Rece!Has, Rece!Sendable
      <4> QED  BY <4>2 DEF Rece!Busy
    <3> QED  BY <3>1, <3>2
  <2>3. CASE outbox[o] = "LEASED"
    <3>1. PICK d \in {"a", "b"} : hand[d] = o
          BY <2>3 DEF FairTables, FairHands
    <3>2. o # "none"
          BY DEF Rece!Ops, Rece!Paying, Rece!Reviewed
    <3> QED  BY <3>1, <3>2 DEF Rece!Busy
  <2>4. CASE outbox[o] = "DELIVERED"
    <3>1. Rece!Answerable(o)
          BY <2>1, <2>4 DEF FairPayment, NoRows, Rece!Answerable
    <3> QED  BY <3>1 DEF Rece!Busy
  <2>5. CASE outbox[o] = "CONFIRMED"
    <3>1. Receipt(o, "RECEIVED") \in inbox
          BY <2>1, <2>5 DEF FairPayment, OneRow
    <3>2. Rece!Awaited(Receipt(o, "RECEIVED"))
          BY <1>2, <2>5 DEF Rece!Awaited, Receipt
    <3> QED  BY <3>1, <3>2 DEF Rece!Busy
  <2>6. outbox[o] \in {"none", "PENDING", "LEASED", "DELIVERED", "CONFIRMED"}
        BY DEF CInv, Rece!TypeOK
  <2> QED  BY <1>2, <2>1, <2>2, <2>3, <2>4, <2>5, <2>6 DEF FairPayment
<1> QED
    BY <1>1, <1>2 DEF FairTables, FairPayment

\* The process of an operation goes on.
LEMMA FairProcess ==
    ASSUME CInv, FairTables, faults = {}, pc # "done", NEW o \in Rece!Ops,
           Rece!Prepare(o) \/ Rece!Limit(o) \/ Rece!Complete(o)
    PROVE  FairTables'
<1>1. /\ op \in [Rece!Ops -> OpStates] /\ inbox \subseteq Rece!Message
      /\ outbox \in [Rece!Ops -> {"none", "PENDING", "LEASED", "DELIVERED", "CONFIRMED"}]
      BY DEF CInv, Rece!TypeOK, OpStates
<1>2. CASE Rece!Prepare(o)
  <2>1. /\ o \in Rece!Paying /\ op[o] = "SUBMITTED"
        /\ op' = [op EXCEPT ![o] = "WAITING_SIGNAL"] /\ outbox' = [outbox EXCEPT ![o] = "PENDING"]
        /\ UNCHANGED <<faults, pc, before, verdict, paid, inbox, decided, extra, hand, dispatching, reconciling>>
        BY <1>2 DEF Rece!Prepare, Rece!Checking
  <2>2. /\ op'[o] = "WAITING_SIGNAL" /\ outbox'[o] = "PENDING"
        /\ \A x \in Rece!Ops \ {o} : op'[x] = op[x] /\ outbox'[x] = outbox[x]
        BY <1>1, <2>1
  <2>3. op[o] \notin {"none", Outcome(o)} /\ outbox[o] = "none" /\ FairPayment(o)
        BY <2>1 DEF Outcome, FairTables, FairPayment
  <2>4. /\ pc \in During(o) /\ pc \notin {"s_up", "s_kept", "s_replay"}
        /\ FairProgress' /\ \A x \in Rece!Paying \ {o} : FairPayment(x)'
        BY <2>1, <2>2, <2>3, FairFlight
  <2>5. FairPayment(o)'
        BY <2>1, <2>2, <2>3 DEF FairPayment, NoRows, Outcome
  <2>6. FairHands'
    <3>1. \A d \in {"a", "b"} : hand[d] # o /\ (hand[d] # "none" => hand[d] \in Rece!Ops)
      <4>1. o # "none"
            BY DEF Rece!Ops, Rece!Paying, Rece!Reviewed
      <4> QED  BY <2>1, <2>3, <4>1 DEF FairTables, FairHands, CInv, Rece!TypeOK
    <3> QED  BY <2>1, <2>2, <3>1 DEF FairTables, FairHands
  <2>7. FairReview'
        BY <2>1, <2>2 DEF FairTables, FairReview, Rece!Ops, Rece!Paying, Rece!Reviewed
  <2>8. FairProbe'
        BY <2>1, <2>2, <2>3, <2>4 DEF FairTables, FairProbe, Rece!Ops, Rece!Paying, Rece!Reviewed
  <2> QED  BY <2>4, <2>5, <2>6, <2>7, <2>8 DEF FairTables
<1>3. CASE Rece!Limit(o) \/ Rece!Complete(o)
  <2>1. /\ o \in Rece!Reviewed
        /\ op' = [op EXCEPT ![o] = IF o = "auto" \/ op[o] = "DECIDED" THEN "COMPLETED" ELSE "WAITING_MANUAL"]
        /\ decided' = IF o = "auto" THEN decided \cup {ByRule} ELSE decided
        /\ op[o] = "SUBMITTED" \/ (o = "manual" /\ op[o] = "DECIDED")
        /\ UNCHANGED <<faults, pc, before, verdict, outbox, paid, inbox, extra, hand, dispatching, reconciling>>
    <3>1. CASE Rece!Limit(o)
          BY <3>1 DEF Rece!Limit, Rece!Checking, Rece!Has, ByRule
    <3>2. CASE Rece!Complete(o)
      <4>1. op[o] = "DECIDED"
            BY <3>2 DEF Rece!Complete
      <4>2. o \notin Rece!Paying
            BY <4>1 DEF FairTables, FairPayment, Outcome
      <4>3. o = "manual"
            BY <4>1, <4>2 DEF FairTables, FairReview, Rece!Ops, Rece!Reviewed
      <4> QED  BY <3>2, <4>1, <4>3 DEF Rece!Complete, Rece!Checking, Rece!Reviewed
    <3> QED  BY <1>3, <3>1, <3>2
  <2>2. /\ op'[o] = IF o = "auto" \/ op[o] = "DECIDED" THEN "COMPLETED" ELSE "WAITING_MANUAL"
        /\ \A x \in Rece!Ops \ {o} : op'[x] = op[x]
        BY <1>1, <2>1
  <2>3. op[o] \notin {"none", Outcome(o)} /\ o \notin Rece!Paying
        BY <2>1 DEF Outcome, Rece!Reviewed, Rece!Paying
  <2>4. /\ pc \in During(o) /\ pc \notin {"s_up", "s_kept", "s_replay"}
        /\ FairProgress' /\ \A x \in Rece!Paying \ {o} : FairPayment(x)'
        BY <2>1, <2>2, <2>3, FairFlight
  <2>5. FairHands'
        BY <2>1 DEF FairTables, FairHands
  <2>6. FairReview'
    <3>1. ByRule # ByHand
          BY DEF ByRule, ByHand
    <3>2. CASE o = "auto"
          BY <2>1, <2>2, <3>1, <3>2 DEF FairTables, FairReview, Rece!Ops, Rece!Reviewed
    <3>3. CASE o = "manual"
          BY <2>1, <2>2, <3>1, <3>3 DEF FairTables, FairReview, Rece!Ops, Rece!Reviewed
    <3> QED  BY <2>1, <3>2, <3>3 DEF Rece!Reviewed
  <2>7. FairProbe'
        BY <2>1, <2>2, <2>3, <2>4 DEF FairTables, FairProbe, Rece!Ops, Rece!Paying, Rece!Reviewed
  <2> QED  BY <2>3, <2>4, <2>5, <2>6, <2>7 DEF FairTables
<1> QED
    BY <1>2, <1>3

\* A delivery is claimed, posted, and called back for.
LEMMA FairSends ==
    ASSUME CInv, FairTables, faults = {}, pc # "done",
           \/ \E d \in {"a", "b"}, o \in Rece!Ops : Rece!Claim(d, o)
           \/ \E d \in {"a", "b"} : Rece!Deliver(d)
           \/ \E o \in Rece!Ops : Rece!Callback(o)
    PROVE  FairTables'
<1>1. /\ op \in [Rece!Ops -> OpStates] /\ inbox \subseteq Rece!Message /\ paid \in [Rece!Ops -> 0..2]
      /\ outbox \in [Rece!Ops -> {"none", "PENDING", "LEASED", "DELIVERED", "CONFIRMED"}]
      /\ hand \in [{"a", "b"} -> Rece!Ops \cup {"none"}]
      BY DEF CInv, Rece!TypeOK, OpStates
<1>2. ASSUME NEW o \in Rece!Ops, outbox[o] \in {"PENDING", "LEASED", "DELIVERED"}
      PROVE  /\ o \in Rece!Paying /\ FairPayment(o) /\ op[o] = "WAITING_SIGNAL"
             /\ op[o] \notin {"none", Outcome(o)} /\ NoRows(o)
  <2>1. o \in Rece!Paying
        BY <1>2 DEF FairTables, FairReview, Rece!Ops
  <2>2. FairPayment(o)
        BY <2>1 DEF FairTables
  <2>3. op[o] = "WAITING_SIGNAL"
        BY <1>2, <2>2 DEF FairPayment
  <2> QED  BY <1>2, <2>1, <2>2, <2>3 DEF Outcome, FairPayment
<1>3. ASSUME NEW d \in {"a", "b"}, NEW o \in Rece!Ops, Rece!Claim(d, o)
      PROVE  FairTables'
  <2>1. /\ dispatching /\ hand[d] = "none" /\ (\A e \in {"a", "b"} : hand[e] # o) /\ outbox[o] = "PENDING"
        /\ hand' = [hand EXCEPT ![d] = o] /\ outbox' = [outbox EXCEPT ![o] = "LEASED"]
        /\ UNCHANGED <<faults, pc, before, verdict, op, paid, inbox, decided, extra, dispatching, reconciling>>
        BY <1>3 DEF Rece!Claim, Rece!Free, Rece!Sendable, Rece!Has, Rece!Checking
  <2>2. /\ outbox'[o] = "LEASED" /\ \A x \in Rece!Ops \ {o} : outbox'[x] = outbox[x]
        /\ hand'[d] = o /\ \A e \in {"a", "b"} \ {d} : hand'[e] = hand[e]
        BY <1>1, <2>1
  <2>3. /\ o \in Rece!Paying /\ FairPayment(o) /\ op[o] = "WAITING_SIGNAL"
        /\ op[o] \notin {"none", Outcome(o)} /\ NoRows(o)
        BY <1>2, <2>1
  <2>4. /\ pc \in During(o) /\ pc \notin {"s_up", "s_kept", "s_replay"}
        /\ FairProgress' /\ \A x \in Rece!Paying \ {o} : FairPayment(x)'
        BY <2>1, <2>2, <2>3, FairFlight
  <2>5. o \notin Called
    <3>1. pc \notin Undispatched
          BY <2>1 DEF FairTables, FairProbe
    <3>2. pc # "n_applied" \/ o # "recovery"
          BY <2>1 DEF FairTables, FairProbe
    <3> QED  BY <2>4, <3>1, <3>2 DEF During, Undispatched, Called
  <2>6. FairPayment(o)'
        BY <2>1, <2>2, <2>3, <2>5 DEF FairPayment, NoRows, Outcome
  <2>7. FairHands'
    <3>1. o # "none" /\ "none" \notin Rece!Ops
          BY DEF Rece!Ops, Rece!Paying, Rece!Reviewed
    <3>2. \A e \in {"a", "b"} : hand'[e] # "none" => dispatching' /\ outbox'[hand'[e]] = "LEASED"
      <4> SUFFICES ASSUME NEW e \in {"a", "b"} \ {d}, hand[e] # "none"
                   PROVE  dispatching' /\ outbox'[hand[e]] = "LEASED"
          BY <2>1, <2>2
      <4>1. hand[e] \in Rece!Ops \ {o} /\ outbox[hand[e]] = "LEASED"
            BY <1>1, <2>1 DEF FairTables, FairHands
      <4> QED  BY <2>1, <2>2, <4>1
    <3>3. \A x \in Rece!Ops : outbox'[x] = "LEASED" => \E e \in {"a", "b"} : hand'[e] = x
      <4> SUFFICES ASSUME NEW x \in Rece!Ops \ {o}, outbox[x] = "LEASED"
                   PROVE  \E e \in {"a", "b"} : hand'[e] = x
          BY <2>2
      <4>1. PICK e \in {"a", "b"} : hand[e] = x
            BY DEF FairTables, FairHands
      <4>2. e # d
            BY <2>1, <3>1, <4>1
      <4> QED  BY <2>2, <4>1, <4>2
    <3>4. hand'["a"] # hand'["b"]
          BY <2>1, <2>2
    <3> QED  BY <3>2, <3>3, <3>4 DEF FairHands
  <2>8. FairReview'
        BY <2>1, <2>2, <2>3 DEF FairTables, FairReview, Rece!Ops, Rece!Paying, Rece!Reviewed
  <2>9. FairProbe'
        BY <2>1, <2>2, <2>3, <2>4, <2>5 DEF FairTables, FairProbe, Undispatched, Called, Rece!Ops, Rece!Paying
  <2> QED  BY <2>4, <2>6, <2>7, <2>8, <2>9 DEF FairTables
<1>4. ASSUME NEW d \in {"a", "b"}, NEW o, o = hand[d], Rece!Deliver(d)
      PROVE  FairTables'
  <2>1. /\ o # "none" /\ paid' = [paid EXCEPT ![o] = 1]
        /\ outbox' = [outbox EXCEPT ![o] = IF @ = "LEASED" THEN "DELIVERED" ELSE @]
        /\ hand' = [hand EXCEPT ![d] = "none"]
        /\ UNCHANGED <<faults, pc, before, verdict, op, inbox, decided, extra, dispatching, reconciling>>
        BY <1>4 DEF Rece!Deliver, Rece!Has
  <2>2. o \in Rece!Ops /\ outbox[o] = "LEASED" /\ dispatching
        BY <1>1, <1>4, <2>1 DEF FairTables, FairHands
  <2>3. /\ o \in Rece!Paying /\ FairPayment(o) /\ op[o] = "WAITING_SIGNAL"
        /\ op[o] \notin {"none", Outcome(o)} /\ NoRows(o)
        BY <1>2, <2>2
  <2>4. /\ outbox'[o] = "DELIVERED" /\ paid'[o] = 1
        /\ \A x \in Rece!Ops \ {o} : outbox'[x] = outbox[x] /\ paid'[x] = paid[x]
        /\ hand'[d] = "none" /\ \A e \in {"a", "b"} \ {d} : hand'[e] = hand[e]
        BY <1>1, <2>1, <2>2
  <2>5. /\ pc \in During(o) /\ pc \notin {"s_up", "s_kept", "s_replay"}
        /\ FairProgress' /\ \A x \in Rece!Paying \ {o} : FairPayment(x)'
        BY <2>1, <2>2, <2>3, <2>4, FairFlight
  <2>10. o \notin Called
        BY <2>2, <2>3 DEF FairPayment
  <2>6. FairPayment(o)'
        BY <2>1, <2>2, <2>3, <2>4, <2>10 DEF FairPayment, NoRows, Outcome
  <2>7. \A e \in {"a", "b"} \ {d} : hand[e] # o
        BY <1>4, <2>1 DEF FairTables, FairHands
  <2>8. FairHands'
        BY <1>1, <2>1, <2>2, <2>4, <2>7 DEF FairTables, FairHands
  <2>9. FairReview'
        BY <2>1, <2>3, <2>4 DEF FairTables, FairReview, Rece!Ops, Rece!Paying, Rece!Reviewed
  <2>11. FairProbe'
        BY <2>1, <2>2, <2>3, <2>4, <2>5, <2>10
        DEF FairTables, FairProbe, Undispatched, Called, Rece!Ops, Rece!Paying
  <2> QED  BY <2>5, <2>6, <2>8, <2>9, <2>11 DEF FairTables
<1>5. ASSUME NEW o \in Rece!Ops, Rece!Callback(o)
      PROVE  FairTables'
  <2>1. /\ paid[o] > 0 /\ NoRows(o)
        /\ inbox' = inbox \cup {[msg |-> o, outcome |-> "COMPLETED", state |-> "RECEIVED", copy |-> 1]}
        /\ outbox' = [outbox EXCEPT ![o] = "CONFIRMED"]
        /\ UNCHANGED <<faults, pc, before, verdict, op, paid, decided, extra, hand, dispatching, reconciling>>
        BY <1>5 DEF Rece!Callback, Rece!Answerable, Rece!Stored, Rece!Confirmed, Rece!Checking, NoRows
  <2>2. o \in Rece!Paying /\ FairPayment(o)
        BY <2>1 DEF FairTables, FairReview, Rece!Ops
  <2>3. outbox[o] = "DELIVERED" /\ o \notin Called
    <3>1. \A s : Receipt(o, s) \notin inbox
          BY <2>1 DEF NoRows, Receipt
    <3>2. outbox[o] # "CONFIRMED"
          BY <2>2, <3>1 DEF FairPayment, OneRow
    <3> QED  BY <1>1, <2>1, <2>2, <3>2 DEF FairPayment
  <2>4. op[o] = "WAITING_SIGNAL" /\ op[o] \notin {"none", Outcome(o)}
        BY <1>2, <2>3
  <2>5. /\ inbox' = inbox \cup {Receipt(o, "RECEIVED")}
        /\ outbox'[o] = "CONFIRMED" /\ \A x \in Rece!Ops \ {o} : outbox'[x] = outbox[x]
        BY <1>1, <2>1, <2>3 DEF Receipt, Outcome
  <2>6. Receipt(o, "RECEIVED").msg = o
        BY DEF Receipt
  <2>7. /\ pc \in During(o) /\ pc \notin {"s_up", "s_kept", "s_replay"}
        /\ FairProgress' /\ \A x \in Rece!Paying \ {o} : FairPayment(x)'
        BY <2>1, <2>4, <2>5, <2>6, FairFlight
  <2>8. OneRow(o, "RECEIVED")'
        BY <2>1, <2>5 DEF OneRow, NoRows, Receipt
  <2>9. FairPayment(o)'
        BY <2>1, <2>2, <2>3, <2>4, <2>5, <2>8 DEF FairPayment
  <2>10. FairHands'
        BY <1>1, <2>1, <2>3, <2>5 DEF FairTables, FairHands
  <2>11. FairReview'
        BY <2>1, <2>2, <2>5, <2>6 DEF FairTables, FairReview, Rece!Ops, Rece!Paying, Rece!Reviewed
  <2>12. FairProbe'
        BY <2>1, <2>2, <2>3, <2>5, <2>7 DEF FairTables, FairProbe, Undispatched, Called, Rece!Ops, Rece!Paying
  <2> QED  BY <2>7, <2>9, <2>10, <2>11, <2>12 DEF FairTables
<1> QED
    BY <1>3, <1>4, <1>5

\* The receipt is applied.
LEMMA FairApply ==
    ASSUME CInv, FairTables, faults = {}, pc # "done", NEW m \in inbox, Rece!Apply(m)
    PROVE  FairTables'
<1> DEFINE o == m.msg
<1>1. /\ op \in [Rece!Ops -> OpStates] /\ inbox \subseteq Rece!Message
      BY DEF CInv, Rece!TypeOK, OpStates
<1>2. /\ m.state = "RECEIVED" /\ o \in Rece!Ops /\ op[o] = "WAITING_SIGNAL" /\ reconciling
      /\ inbox' = (inbox \ {m}) \cup {[m EXCEPT !.state = "APPLIED"]}
      /\ op' = [op EXCEPT ![o] = m.outcome]
      /\ UNCHANGED <<faults, pc, before, verdict, outbox, paid, decided, extra, hand, dispatching, reconciling>>
      BY DEF Rece!Apply, Rece!Awaited, Rece!Has, Rece!Checking
<1>3. o \in Rece!Paying /\ FairPayment(o)
      BY DEF FairTables, FairReview
<1>4. op[o] \notin {"none", Outcome(o)}
      BY <1>2 DEF Outcome
<1>5. outbox[o] = "CONFIRMED" /\ OneRow(o, "RECEIVED") /\ m = Receipt(o, "RECEIVED")
      BY <1>2, <1>3, <1>4 DEF FairPayment, NoRows, OneRow
<1>6. m.outcome = Outcome(o) /\ [m EXCEPT !.state = "APPLIED"] = Receipt(o, "APPLIED")
      BY <1>5 DEF Receipt
<1> HIDE DEF o
<1>7. /\ op'[o] = Outcome(o) /\ \A x \in Rece!Ops \ {o} : op'[x] = op[x]
      /\ inbox' = (inbox \ {m}) \cup {Receipt(o, "APPLIED")}
      BY <1>1, <1>2, <1>6
<1>8. Receipt(o, "APPLIED").msg = o /\ m.msg = o
      BY DEF Receipt, o
<1>9. /\ pc \in During(o) /\ pc \notin {"s_up", "s_kept", "s_replay"}
      /\ FairProgress' /\ \A x \in Rece!Paying \ {o} : FairPayment(x)'
  <2>1. \A r \in inbox \cup inbox' : r.msg # o => r \in inbox /\ r \in inbox'
        BY <1>7, <1>8
  <2>2. Outcome(o) # "none"
        BY DEF Outcome
  <2> QED  BY <1>2, <1>4, <1>7, <2>1, <2>2, FairFlight
<1>10. OneRow(o, "APPLIED")'
      BY <1>5, <1>7 DEF OneRow, Receipt, Outcome
<1>11. FairPayment(o)'
      BY <1>2, <1>3, <1>4, <1>5, <1>7, <1>10 DEF FairPayment, Outcome
<1>12. FairHands'
      BY <1>2 DEF FairTables, FairHands
<1>13. FairReview'
      BY <1>2, <1>3, <1>7, <1>8 DEF FairTables, FairReview, Rece!Ops, Rece!Paying, Rece!Reviewed
<1>14. FairProbe'
      BY <1>2, <1>3, <1>7, <1>9 DEF FairTables, FairProbe, Rece!Ops, Rece!Paying, Rece!Reviewed
<1> QED
    BY <1>9, <1>11, <1>12, <1>13, <1>14 DEF FairTables

\* A step of the checker that only looks.
LEMMA FairQuiet ==
    ASSUME FairTables, UNCHANGED <<op, outbox, paid, inbox, decided, hand, dispatching>>,
           pc \in Forgotten => pc' \in Forgotten
    PROVE  (\A o \in Rece!Paying : FairPayment(o)') /\ FairHands' /\ FairReview'
<1>1. ASSUME NEW o \in Rece!Paying
      PROVE  FairPayment(o)'
  <2>1. o \in Rece!Ops /\ FairPayment(o)
        BY DEF Rece!Ops, FairTables
  <2> QED  BY <2>1, FairPaymentKept
<1>2. FairHands' /\ FairReview'
      BY DEF FairTables, FairHands, FairReview
<1> QED
    BY <1>1, <1>2

\* The moves of the checker that change nothing else, and when it makes them.
LookingMoves ==
    {<<"p_outbox", "p_receipts">>, <<"p_receipts", "p_start">>, <<"p_completed", "p_evidence">>,
     <<"p_evidence", "a_stop">>, <<"a_wrong", "a_calls">>, <<"a_rejected", "a_start">>,
     <<"a_sentinel", "a_audit">>, <<"a_audit", "v_auto">>, <<"v_waits", "v_decide">>,
     <<"v_completed", "n_stop">>, <<"n_pending", "n_up">>, <<"n_applied", "s_down">>,
     <<"s_kept", "s_replay">>, <<"s_resumed", "t_stalled">>}

LEMMA FairLooks ==
    ASSUME FairTables, <<pc, pc'>> \in LookingMoves,
           UNCHANGED <<op, outbox, paid, inbox, decided, extra, hand, dispatching, reconciling, before>>,
           \A o \in Rece!Ops : pc \in During(o) /\ pc' \notin During(o) => op[o] = Outcome(o),
           pc = "a_wrong" => outbox["adapter"] = "PENDING",
           pc = "v_waits" => op["manual"] = "WAITING_MANUAL"
    PROVE  FairTables'
<1>1. (\A o \in Rece!Paying : FairPayment(o)') /\ FairHands' /\ FairReview'
      BY FairQuiet DEF LookingMoves, Forgotten
<1>2. FairProgress'
  <2>1. ASSUME NEW o \in Rece!Ops
        PROVE  /\ pc' \in Unborn(o) => pc \in Unborn(o)
               /\ pc' \in During(o) => pc \in During(o)
               /\ pc \in Unborn(o) => pc' \in Unborn(o)
    <3> USE DEF LookingMoves, Unborn, During, ToOutbox, ToReceipts, ToEvidence, ToWrong, ToCalls, ToRejected, ToAudit,
                ToRule, ToDecide, ToStop, ToApplied, ToKept, ToReplay
    <3>1. CASE o \in {"provider", "adapter", "sentinel"}
          BY <3>1
    <3>2. CASE o \in {"auto", "manual"}
          BY <3>2
    <3>3. CASE o \in {"recovery", "resumed"}
          BY <3>3
    <3> QED  BY <3>1, <3>2, <3>3 DEF Rece!Ops, Rece!Paying, Rece!Reviewed
  <2> QED  BY <2>1 DEF FairTables, FairProgress
<1>3. Rece!Snapshot' = Rece!Snapshot
      BY DEF Rece!Snapshot
<1>4. FairProbe'
      BY <1>3 DEF FairTables, FairProbe, LookingMoves, Undispatched
<1> QED
    BY <1>1, <1>2, <1>4 DEF FairTables

\* What is on its way at the steps that wait, with what moves it.
LEMMA FairRuns ==
    ASSUME CInv, FairTables, faults = {}, NEW o \in Rece!Ops, op[o] # Outcome(o),
           \/ o = "provider" /\ pc = "p_completed"
           \/ o = "adapter" /\ pc = "a_rejected"
           \/ o = "sentinel" /\ pc = "a_sentinel"
           \/ o = "auto" /\ pc = "v_rule"
           \/ o = "manual" /\ pc = "v_completed"
           \/ o = "recovery" /\ pc = "n_applied"
           \/ o = "resumed" /\ pc = "s_resumed"
    PROVE  Rece!Busy
<1>1. pc # "done" /\ op[o] # "none"
      BY DEF FairTables, FairProgress, During
<1>2. CASE o \in {"auto", "manual"}
  <2>1. op[o] \in {"SUBMITTED", "DECIDED"}
        BY <1>1, <1>2 DEF FairTables, FairReview, FairProbe, Outcome, Called
  <2> QED  BY <1>1, <2>1, FairBusy
<1>3. CASE o \in Rece!Paying
  <2>1. /\ outbox[o] = "PENDING" => dispatching
        /\ outbox[o] = "CONFIRMED" => reconciling
        BY DEF FairTables, FairProbe, Undispatched
  <2> QED  BY <1>1, <1>3, <2>1, FairBusy
<1> QED
    BY <1>2, <1>3 DEF Rece!Ops, Rece!Reviewed

\* A poll for the end of an operation.
LEMMA FairAwaits ==
    ASSUME CInv, FairTables, faults = {}, verdict # "ContractError",
           \/ Rece!ProviderCompleted \/ Rece!AdapterSentinel \/ Rece!ReviewWaits \/ Rece!RecreatePending
           \/ Rece!RecreateApplied \/ Rece!RestartResumed
    PROVE  late' \/ ReceFair'
<1> USE DEF Rece!Go, Rece!Keep, Rece!candidate
<1>1. ASSUME NEW o \in Rece!Ops, NEW next \in Rece!Steps, NEW step \in Rece!Steps, NEW p, p <=> op[o] = Outcome(o),
             \/ o = "provider" /\ step = "p_completed" /\ next = "p_evidence"
             \/ o = "sentinel" /\ step = "a_sentinel" /\ next = "a_audit"
             \/ o = "recovery" /\ step = "n_applied" /\ next = "s_down"
             \/ o = "resumed" /\ step = "s_resumed" /\ next = "t_stalled",
             Rece!Poll(step, p, next)
      PROVE  late' \/ ReceFair'
  <2>1. CASE /\ pc = step /\ p /\ pc' = next
             /\ UNCHANGED <<op, outbox, paid, inbox, decided, extra, hand, dispatching, reconciling, before, verdict>>
    <3>1. \A x \in Rece!Ops : pc \in During(x) => x = o
          BY <1>1, <2>1 DEF During, Rece!Ops, Rece!Paying, Rece!Reviewed
    <3>2. <<pc, pc'>> \in LookingMoves
          BY <1>1, <2>1 DEF LookingMoves
    <3>3. FairTables'
          BY <1>1, <2>1, <3>1, <3>2, FairLooks
    <3> QED  BY <2>1, <3>3 DEF ReceFair
  <2>2. CASE pc = step /\ Rece!PollTimeout(p)
    <3>1. Rece!Busy
          BY <1>1, <2>2, FairRuns DEF Rece!PollTimeout
    <3> QED  BY <2>2, <3>1 DEF Rece!PollTimeout
  <2> QED  BY <1>1, <2>1, <2>2 DEF Rece!Poll
<1>2. {"provider", "sentinel", "recovery", "resumed"} \subseteq Rece!Ops
      BY DEF Rece!Ops, Rece!Paying
<1>3. CASE Rece!ProviderCompleted \/ Rece!AdapterSentinel \/ Rece!RestartResumed
  <2>1. CASE Rece!ProviderCompleted
    <3> DEFINE p == op["provider"] = Outcome("provider")
    <3>1. Rece!Poll("p_completed", p, "p_evidence")
          BY <2>1 DEF Rece!ProviderCompleted, Outcome, Called
    <3>2. p <=> op["provider"] = Outcome("provider")
          OBVIOUS
    <3> HIDE DEF p
    <3> QED  BY <1>1, <1>2, <3>1, <3>2 DEF Rece!Steps
  <2>2. CASE Rece!AdapterSentinel
    <3> DEFINE p == op["sentinel"] = Outcome("sentinel")
    <3>1. Rece!Poll("a_sentinel", p, "a_audit")
          BY <2>2 DEF Rece!AdapterSentinel, Outcome, Called
    <3>2. p <=> op["sentinel"] = Outcome("sentinel")
          OBVIOUS
    <3> HIDE DEF p
    <3> QED  BY <1>1, <1>2, <3>1, <3>2 DEF Rece!Steps
  <2>3. CASE Rece!RestartResumed
    <3> DEFINE p == op["resumed"] = Outcome("resumed")
    <3>1. Rece!Poll("s_resumed", p, "t_stalled")
          BY <2>3 DEF Rece!RestartResumed, Outcome, Called
    <3>2. p <=> op["resumed"] = Outcome("resumed")
          OBVIOUS
    <3> HIDE DEF p
    <3> QED  BY <1>1, <1>2, <3>1, <3>2 DEF Rece!Steps
  <2> QED  BY <1>3, <2>1, <2>2, <2>3
<1>4. CASE Rece!RecreateApplied
  <2> DEFINE p == op["recovery"] = "REJECTED" /\ \E r \in Rece!Rows("recovery") : r.state = "APPLIED"
  <2>1. Rece!Poll("n_applied", p, "s_down")
        BY <1>4 DEF Rece!RecreateApplied
  <2>2. op["recovery"] = "REJECTED" => \E r \in Rece!Rows("recovery") : r.state = "APPLIED"
    <3> SUFFICES ASSUME op["recovery"] = "REJECTED"
                 PROVE  \E r \in Rece!Rows("recovery") : r.state = "APPLIED"
        OBVIOUS
    <3>1. OneRow("recovery", "APPLIED")
          BY DEF FairTables, FairPayment, Outcome, Called, Rece!Paying
    <3>2. Receipt("recovery", "APPLIED") \in Rece!Rows("recovery") /\ Receipt("recovery", "APPLIED").state = "APPLIED"
          BY <3>1 DEF OneRow, Receipt, Rece!Rows
    <3> QED  BY <3>2
  <2>3. p <=> op["recovery"] = Outcome("recovery")
        BY <2>2 DEF Outcome, Called
  <2> HIDE DEF p
  <2> QED  BY <1>1, <1>2, <2>1, <2>3 DEF Rece!Steps
<1>5. CASE Rece!ReviewWaits
  <2>1. CASE /\ pc = "v_waits" /\ op["manual"] = "WAITING_MANUAL" /\ pc' = "v_decide"
             /\ UNCHANGED <<op, outbox, paid, inbox, decided, extra, hand, dispatching, reconciling, before, verdict>>
    <3>1. \A x \in Rece!Ops : pc \in During(x) => pc' \in During(x)
          BY <2>1 DEF During, Rece!Ops, Rece!Paying, Rece!Reviewed
    <3>2. FairTables'
          BY <2>1, <3>1, FairLooks DEF LookingMoves
    <3> QED  BY <2>1, <3>2 DEF ReceFair
  <2>2. CASE pc = "v_waits" /\ Rece!PollTimeout(op["manual"] = "WAITING_MANUAL")
    <3>1. op["manual"] = "SUBMITTED" /\ "manual" \in Rece!Ops
          BY <2>2 DEF FairTables, FairProbe, Rece!PollTimeout, Rece!Ops, Rece!Reviewed
    <3>2. Rece!Busy
          BY <2>2, <3>1 DEF Rece!Busy
    <3> QED  BY <2>2, <3>2 DEF Rece!PollTimeout
  <2> QED  BY <1>5, <2>1, <2>2 DEF Rece!ReviewWaits, Rece!Poll
<1>6. CASE Rece!RecreatePending
  <2>1. pc = "n_pending"
        BY <1>6 DEF Rece!RecreatePending, Rece!Poll
  <2>2. \E r \in Rece!Rows("recovery") : r.state = "RECEIVED"
    <3>1. OneRow("recovery", "RECEIVED")
          BY <2>1 DEF FairTables, FairPayment, FairProbe, Outcome, Called, Rece!Paying
    <3>2. Receipt("recovery", "RECEIVED") \in Rece!Rows("recovery") /\ Receipt("recovery", "RECEIVED").state = "RECEIVED"
          BY <3>1 DEF OneRow, Receipt, Rece!Rows
    <3> QED  BY <3>2
  <2>3. /\ pc' = "n_up"
        /\ UNCHANGED <<op, outbox, paid, inbox, decided, extra, hand, dispatching, reconciling, before, verdict>>
        BY <1>6, <2>2 DEF Rece!RecreatePending, Rece!Poll, Rece!PollTimeout
  <2>4. \A x \in Rece!Ops : pc \in During(x) => pc' \in During(x)
        BY <2>1, <2>3 DEF During, Rece!Ops, Rece!Paying, Rece!Reviewed
  <2>5. FairTables'
        BY <2>1, <2>3, <2>4, FairLooks DEF LookingMoves
  <2> QED  BY <2>3, <2>5 DEF ReceFair
<1> QED
    BY <1>3, <1>4, <1>5, <1>6

\* A check of what is there.
LEMMA FairRequires ==
    ASSUME CInv, FairTables, faults = {}, verdict # "ContractError",
           \/ Rece!ProviderOutbox \/ Rece!ProviderReceipts \/ Rece!ProviderEvidence
           \/ Rece!AdapterWrong \/ Rece!AdapterRejected \/ Rece!AdapterAudit
           \/ Rece!ReviewCompleted \/ Rece!RestartKept \/ Rece!Stalled
    PROVE  late' \/ ReceFair'
<1> USE DEF Rece!Go, Rece!Keep, Rece!candidate, Rece!Require, Rece!Has
<1> DEFINE Looks(step, next) ==
             /\ pc = step /\ pc' = next
             /\ UNCHANGED <<op, outbox, paid, inbox, decided, extra, hand, dispatching, reconciling, before, verdict>>
<1>1. {"provider", "adapter", "sentinel", "recovery", "manual"} \subseteq Rece!Ops
      BY DEF Rece!Ops, Rece!Paying, Rece!Reviewed
<1>2. ASSUME NEW o \in Rece!Ops, op[o] = "SUBMITTED", pc # "done", NEW p, Rece!PollTimeout(p)
      PROVE  late'
  <2>1. Rece!Busy
        BY <1>2 DEF Rece!Busy
  <2> QED  BY <1>2, <2>1 DEF Rece!PollTimeout
<1>3. CASE Rece!ProviderOutbox
  <2>1. pc = "p_outbox"
        BY <1>3 DEF Rece!ProviderOutbox
  <2>2. /\ outbox["provider"] \in {"none", "PENDING"} /\ paid["provider"] = 0
        /\ outbox["provider"] = "none" => op["provider"] = "SUBMITTED"
        BY <2>1 DEF FairTables, FairProbe, FairPayment, FairProgress, Rece!Paying, Rece!Ops, During, Outcome, Called
  <2>3. CASE outbox["provider"] = "none"
        BY <1>1, <1>2, <1>3, <2>1, <2>2, <2>3 DEF Rece!ProviderOutbox
  <2>4. CASE outbox["provider"] = "PENDING"
    <3>1. Looks("p_outbox", "p_receipts")
          BY <1>3, <2>2, <2>4 DEF Rece!ProviderOutbox, Rece!Audit, Rece!PollTimeout
    <3>2. \A x \in Rece!Ops : pc \in During(x) => pc' \in During(x)
          BY <3>1 DEF During, Rece!Ops, Rece!Paying, Rece!Reviewed
    <3>3. FairTables'
          BY <3>1, <3>2, FairLooks DEF LookingMoves
    <3> QED  BY <3>1, <3>3 DEF ReceFair
  <2> QED  BY <2>2, <2>3, <2>4
<1>4. CASE Rece!ProviderReceipts
  <2>1. pc = "p_receipts" /\ inbox' = inbox
        BY <1>4 DEF Rece!ProviderReceipts
  <2>2. \A r \in inbox' : r.msg \notin {"unsigned", "invalid"}
        BY <2>1 DEF FairTables, FairReview, Rece!Paying
  <2>3. Looks("p_receipts", "p_start")
        BY <1>4, <2>1, <2>2 DEF Rece!ProviderReceipts
  <2>4. \A x \in Rece!Ops : pc \in During(x) => pc' \in During(x)
        BY <2>3 DEF During, Rece!Ops, Rece!Paying, Rece!Reviewed
  <2>5. FairTables'
        BY <2>3, <2>4, FairLooks DEF LookingMoves
  <2> QED  BY <2>3, <2>5 DEF ReceFair
<1>5. CASE Rece!ProviderEvidence
  <2>1. pc = "p_evidence" /\ op["provider"] = "COMPLETED"
        BY <1>5 DEF Rece!ProviderEvidence, FairTables, FairProgress, Unborn, During, Outcome, Called, Rece!Ops, Rece!Paying
  <2>2. OneRow("provider", "APPLIED") /\ paid["provider"] = 1
        BY <2>1 DEF FairTables, FairPayment, Outcome, Called, Rece!Paying, Forgotten
  <2> DEFINE x == Receipt("provider", "APPLIED")
  <2>3. Rece!Rows("provider") = {x} /\ x.outcome = "COMPLETED" /\ x.state = "APPLIED"
        BY <2>2 DEF OneRow, Receipt, Outcome, Called, Rece!Rows
  <2>4. Rece!Cardinality({x}) = 1
    <3>1. Cardinality({x}) = 1
          BY FS_Singleton
    <3> QED  BY <3>1 DEF Rece!Cardinality, Cardinality
  <2> HIDE DEF x
  <2>5. Looks("p_evidence", "a_stop")
        BY <1>5, <2>2, <2>3, <2>4 DEF Rece!ProviderEvidence, Rece!Audit
  <2>6. \A o \in Rece!Ops : pc \notin During(o)
        BY <2>1 DEF During, Rece!Ops, Rece!Paying, Rece!Reviewed
  <2>7. FairTables'
        BY <2>5, <2>6, FairLooks DEF LookingMoves
  <2> QED  BY <2>5, <2>7 DEF ReceFair
<1>6. CASE Rece!AdapterWrong
  <2>1. pc = "a_wrong"
        BY <1>6 DEF Rece!AdapterWrong
  <2>2. /\ outbox["adapter"] \in {"none", "PENDING"}
        /\ outbox["adapter"] = "none" => op["adapter"] = "SUBMITTED"
    <3>1. outbox["adapter"] \in {"none", "PENDING", "LEASED", "DELIVERED", "CONFIRMED"}
          BY <1>1 DEF CInv, Rece!TypeOK
    <3> QED  BY <2>1, <3>1
             DEF FairTables, FairProbe, FairPayment, FairProgress, Rece!Paying, Rece!Ops, During, Outcome, Called
  <2>3. CASE outbox["adapter"] = "none"
        BY <1>1, <1>2, <1>6, <2>1, <2>2, <2>3 DEF Rece!AdapterWrong
  <2>4. CASE outbox["adapter"] = "PENDING"
    <3>1. Looks("a_wrong", "a_calls")
          BY <1>6, <2>4 DEF Rece!AdapterWrong, Rece!PollTimeout
    <3>2. \A x \in Rece!Ops : pc \in During(x) => pc' \in During(x)
          BY <3>1 DEF During, Rece!Ops, Rece!Paying, Rece!Reviewed
    <3>3. FairTables'
          BY <2>4, <3>1, <3>2, FairLooks DEF LookingMoves
    <3> QED  BY <3>1, <3>3 DEF ReceFair
  <2> QED  BY <2>2, <2>3, <2>4
<1>7. CASE Rece!AdapterRejected
  <2>1. pc = "a_rejected"
        BY <1>7 DEF Rece!AdapterRejected
  <2>2. CASE op["adapter"] # "REJECTED"
    <3>1. Rece!Busy
          BY <1>1, <2>1, <2>2, FairRuns DEF Outcome, Called
    <3> QED  BY <1>7, <2>2, <3>1 DEF Rece!AdapterRejected, Rece!PollTimeout
  <2>3. CASE op["adapter"] = "REJECTED"
    <3>1. OneRow("adapter", "APPLIED")
          BY <2>3 DEF FairTables, FairPayment, Outcome, Called, Rece!Paying
    <3> DEFINE x == Receipt("adapter", "APPLIED")
    <3>2. x \in inbox /\ Rece!Rows("adapter") = {x} /\ x.state = "APPLIED"
          BY <3>1 DEF OneRow, Receipt, Rece!Rows
    <3> HIDE DEF x
    <3>3. Looks("a_rejected", "a_start")
          BY <1>7, <2>3, <3>2 DEF Rece!AdapterRejected, Rece!PollTimeout
    <3>4. \A o \in Rece!Ops : pc \in During(o) => op[o] = Outcome(o)
          BY <2>1, <2>3 DEF During, Rece!Ops, Rece!Paying, Rece!Reviewed, Outcome, Called
    <3>5. FairTables'
          BY <3>3, <3>4, FairLooks DEF LookingMoves
    <3> QED  BY <3>3, <3>5 DEF ReceFair
  <2> QED  BY <2>2, <2>3
<1>8. CASE Rece!AdapterAudit
  <2>1. pc = "a_audit" /\ op["sentinel"] = "COMPLETED" /\ op["adapter"] = "REJECTED"
    <3>1. pc = "a_audit"
          BY <1>8 DEF Rece!AdapterAudit
    <3> USE <3>1 DEF Unborn, During, Outcome, Called, ToOutbox, ToReceipts, ToEvidence, ToWrong, ToCalls, ToRejected
    <3>2. op["sentinel"] = "COMPLETED"
          BY <1>1 DEF FairTables, FairProgress
    <3>3. op["adapter"] = "REJECTED"
          BY <1>1 DEF FairTables, FairProgress
    <3> QED  BY <3>2, <3>3
  <2>2. paid["sentinel"] = 1 /\ paid["adapter"] = 0
        BY <2>1 DEF FairTables, FairPayment, Outcome, Called, Rece!Paying, Forgotten
  <2>3. Looks("a_audit", "v_auto")
        BY <1>8, <2>2 DEF Rece!AdapterAudit, Rece!Audit
  <2>4. \A o \in Rece!Ops : pc \notin During(o)
        BY <2>1 DEF During, Rece!Ops, Rece!Paying, Rece!Reviewed
  <2>5. FairTables'
        BY <2>3, <2>4, FairLooks DEF LookingMoves
  <2> QED  BY <2>3, <2>5 DEF ReceFair
<1>9. CASE Rece!ReviewCompleted
  <2>1. pc = "v_completed"
        BY <1>9 DEF Rece!ReviewCompleted
  <2>2. CASE op["manual"] # "COMPLETED"
    <3>1. Rece!Busy
          BY <1>1, <2>1, <2>2, FairRuns DEF Outcome, Called
    <3> QED  BY <1>9, <2>2, <3>1 DEF Rece!ReviewCompleted, Rece!PollTimeout
  <2>3. CASE op["manual"] = "COMPLETED"
    <3>1. {x \in decided : x[1] = "manual"} = {<<"manual", "MANUAL", "APPROVED">>}
          BY <2>3 DEF FairTables, FairReview, ByRule, ByHand
    <3>2. Looks("v_completed", "n_stop")
          BY <1>9, <2>3, <3>1 DEF Rece!ReviewCompleted, Rece!PollTimeout
    <3>3. \A o \in Rece!Ops : pc \in During(o) => op[o] = Outcome(o)
          BY <2>1, <2>3 DEF During, Rece!Ops, Rece!Paying, Rece!Reviewed, Outcome, Called
    <3>4. FairTables'
          BY <3>2, <3>3, FairLooks DEF LookingMoves
    <3> QED  BY <3>2, <3>4 DEF ReceFair
  <2> QED  BY <2>2, <2>3
<1>10. CASE Rece!RestartKept
  <2>1. pc = "s_kept" /\ Rece!Snapshot = before
        BY <1>10 DEF Rece!RestartKept, FairTables, FairProbe
  <2>2. Looks("s_kept", "s_replay")
        BY <1>10, <2>1 DEF Rece!RestartKept
  <2>3. \A o \in Rece!Ops : pc \notin During(o)
        BY <2>1 DEF During, Rece!Ops, Rece!Paying, Rece!Reviewed
  <2>4. FairTables'
        BY <2>2, <2>3, FairLooks DEF LookingMoves
  <2> QED  BY <2>2, <2>4 DEF ReceFair
<1>11. CASE Rece!Stalled
      BY <1>11 DEF Rece!Stalled, ReceFair
<1> QED
    BY <1>3, <1>4, <1>5, <1>6, <1>7, <1>8, <1>9, <1>10, <1>11

\* Between two operations nothing is on its way.
LEMMA FairRest ==
    ASSUME CInv, FairTables, \A o \in Rece!Ops : pc \notin During(o)
    PROVE  /\ \A o \in Rece!Ops : outbox[o] \in {"none", "CONFIRMED"} /\ op[o] \in {"none", Outcome(o)}
           /\ \A d \in {"a", "b"} : hand[d] = "none"
           /\ Rece!StopDispatchers => outbox' = outbox /\ \A d \in {"a", "b"} : hand'[d] = "none"
<1>1. ASSUME NEW o \in Rece!Ops
      PROVE  outbox[o] \in {"none", "CONFIRMED"} /\ op[o] \in {"none", Outcome(o)}
  <2>1. op[o] \in {"none", Outcome(o)}
        BY DEF FairTables, FairProgress
  <2>2. CASE o \in Rece!Paying
        BY <2>1, <2>2 DEF FairTables, FairPayment
  <2>3. CASE o \in Rece!Reviewed
        BY <2>1, <2>3 DEF FairTables, FairReview
  <2> QED  BY <2>2, <2>3 DEF Rece!Ops
<1>2. \A d \in {"a", "b"} : hand[d] = "none"
      BY <1>1 DEF FairTables, FairHands, CInv, Rece!TypeOK
<1>3. Rece!StopDispatchers => outbox' = outbox
      BY <1>1 DEF Rece!StopDispatchers, CInv, Rece!TypeOK
<1> QED
    BY <1>1, <1>2, <1>3 DEF Rece!StopDispatchers

\* An operation is submitted, and perhaps the dispatchers are stopped.
LEMMA FairSubmits ==
    ASSUME CInv, FairTables, NEW o \in Rece!Ops, op[o] = "none", op' = [op EXCEPT ![o] = "SUBMITTED"],
           UNCHANGED <<outbox, paid, inbox, decided>>, pc \in Forgotten => pc' \in Forgotten,
           \/ hand' = hand /\ (dispatching => dispatching')
           \/ (\A d \in {"a", "b"} : hand'[d] = "none") /\ \A x \in Rece!Ops : outbox[x] \in {"none", "CONFIRMED"}
    PROVE  (\A x \in Rece!Paying : FairPayment(x)') /\ FairHands' /\ FairReview'
<1>1. op'[o] = "SUBMITTED" /\ \A x \in Rece!Ops \ {o} : op'[x] = op[x]
      BY DEF CInv, Rece!TypeOK
<1>2. ASSUME NEW x \in Rece!Paying
      PROVE  FairPayment(x)'
  <2>1. x \in Rece!Ops /\ FairPayment(x)
        BY DEF Rece!Ops, FairTables
  <2>2. CASE x # o
        BY <1>1, <2>1, <2>2, FairPaymentKept
  <2>3. CASE x = o
    <3>1. outbox[o] = "none" /\ NoRows(o) /\ paid[o] = 0
          BY <2>1, <2>3 DEF FairPayment
    <3> QED  BY <1>1, <2>3, <3>1 DEF FairPayment, NoRows, Outcome
  <2> QED  BY <2>2, <2>3
<1>3. FairHands'
  <2>1. CASE hand' = hand /\ (dispatching => dispatching')
        BY <2>1 DEF FairTables, FairHands
  <2>2. CASE (\A d \in {"a", "b"} : hand'[d] = "none") /\ \A x \in Rece!Ops : outbox[x] \in {"none", "CONFIRMED"}
        BY <2>2 DEF FairHands
  <2> QED  BY <2>1, <2>2
<1>4. FairReview'
      BY <1>1 DEF FairTables, FairReview, Rece!Ops, Rece!Reviewed
<1> QED
    BY <1>2, <1>3, <1>4

\* The step at which an operation is submitted, and the one after it.
SubmitMoves ==
    {<<"provider", "p_stop", "p_outbox">>, <<"adapter", "a_stop", "a_wrong">>, <<"sentinel", "a_start", "a_sentinel">>,
     <<"auto", "v_auto", "v_rule">>, <<"manual", "v_rule", "v_waits">>, <<"recovery", "n_stop", "n_callback">>,
     <<"resumed", "s_replay", "s_resumed">>}

LEMMA FairBegins ==
    ASSUME CInv, FairProgress, NEW o \in Rece!Ops, <<o, pc, pc'>> \in SubmitMoves,
           op' = [op EXCEPT ![o] = "SUBMITTED"], pc = "v_rule" => op["auto"] = "COMPLETED"
    PROVE  op[o] = "none" /\ FairProgress'
<1>1. op'[o] = "SUBMITTED" /\ \A x \in Rece!Ops \ {o} : op'[x] = op[x]
      BY DEF CInv, Rece!TypeOK
<1>2. /\ pc \in Unborn(o) /\ pc' \in During(o) /\ pc' \notin Unborn(o)
      BY DEF SubmitMoves, Unborn, During, ToOutbox, ToReceipts, ToEvidence, ToWrong, ToCalls, ToRejected, ToAudit,
         ToRule, ToDecide, ToStop, ToApplied, ToKept, ToReplay
<1>3. ASSUME NEW x \in Rece!Ops \ {o}
      PROVE  /\ pc' \notin During(x)
             /\ pc' \in Unborn(x) <=> pc \in Unborn(x)
             /\ pc \in During(x) => x = "auto" /\ pc = "v_rule"
  <2> USE DEF SubmitMoves, Unborn, During, ToOutbox, ToReceipts, ToEvidence, ToWrong, ToCalls, ToRejected, ToAudit,
              ToRule, ToDecide, ToStop, ToApplied, ToKept, ToReplay
  <2>1. CASE x \in {"provider", "adapter", "sentinel"}
        BY <2>1
  <2>2. CASE x \in {"auto", "manual"}
        BY <2>2
  <2>3. CASE x \in {"recovery", "resumed"}
        BY <2>3
  <2> QED  BY <2>1, <2>2, <2>3 DEF Rece!Ops, Rece!Paying, Rece!Reviewed
<1>4. op[o] = "none"
      BY <1>2 DEF FairProgress
<1>5. Outcome("auto") = "COMPLETED"
      BY DEF Outcome, Called
<1>6. FairProgress'
      BY <1>1, <1>2, <1>3, <1>5 DEF FairProgress
<1> QED
    BY <1>4, <1>6

LEMMA FairSubmissions ==
    ASSUME CInv, FairTables, faults = {}, verdict # "ContractError",
           \/ Rece!ProviderSubmit \/ Rece!AdapterSubmit \/ Rece!AdapterStart \/ Rece!ReviewSubmit
           \/ Rece!ReviewRule \/ Rece!RecreateStop \/ Rece!RestartReplay
    PROVE  late' \/ ReceFair'
<1> USE DEF Rece!Go, Rece!Keep, Rece!Submit, Rece!Has
<1>1. {"provider", "adapter", "sentinel", "recovery", "resumed", "auto", "manual"} \subseteq Rece!Ops
      BY DEF Rece!Ops, Rece!Paying, Rece!Reviewed
<1>2. CASE Rece!ProviderSubmit \/ Rece!AdapterSubmit \/ Rece!RecreateStop
  <2>1. PICK o \in {"provider", "adapter", "recovery"} :
          /\ <<o, pc, pc'>> \in SubmitMoves /\ op' = [op EXCEPT ![o] = "SUBMITTED"] /\ Rece!StopDispatchers
          /\ UNCHANGED <<paid, inbox, decided, extra, before, verdict>>
          /\ reconciling' = IF o = "recovery" THEN FALSE ELSE reconciling
        BY <1>2 DEF Rece!ProviderSubmit, Rece!AdapterSubmit, Rece!RecreateStop, SubmitMoves
  <2>2. pc \in {"p_stop", "a_stop", "n_stop"}
        BY <2>1 DEF SubmitMoves
  <2>3. \A x \in Rece!Ops : pc \notin During(x)
        BY <2>2 DEF During, Rece!Ops, Rece!Paying, Rece!Reviewed
  <2>4. /\ \A x \in Rece!Ops : outbox[x] \in {"none", "CONFIRMED"}
        /\ outbox' = outbox /\ (\A d \in {"a", "b"} : hand'[d] = "none") /\ dispatching' = FALSE
        BY <2>1, <2>3, FairRest DEF Rece!StopDispatchers
  <2>5. op[o] = "none" /\ FairProgress'
        BY <1>1, <2>1, <2>2, FairBegins DEF FairTables
  <2>6. (\A x \in Rece!Paying : FairPayment(x)') /\ FairHands' /\ FairReview'
        BY <1>1, <2>1, <2>2, <2>4, <2>5, FairSubmits DEF Forgotten
  <2>7. outbox[o] = "none"
        BY <2>1, <2>5 DEF FairTables, FairPayment, Rece!Paying
  <2>8. FairProbe'
        BY <2>1, <2>2, <2>4, <2>7 DEF FairTables, FairProbe, SubmitMoves, Undispatched
  <2> QED  BY <2>1, <2>5, <2>6, <2>8 DEF FairTables, ReceFair
<1>3. CASE Rece!AdapterStart \/ Rece!ReviewSubmit
  <2>1. PICK o \in {"sentinel", "auto"} :
          /\ <<o, pc, pc'>> \in SubmitMoves /\ op' = [op EXCEPT ![o] = "SUBMITTED"]
          /\ dispatching' = IF o = "sentinel" THEN TRUE ELSE dispatching
          /\ UNCHANGED <<outbox, paid, inbox, decided, extra, hand, reconciling, before, verdict>>
        BY <1>3 DEF Rece!AdapterStart, Rece!ReviewSubmit, SubmitMoves
  <2>2. pc \in {"a_start", "v_auto"}
        BY <2>1 DEF SubmitMoves
  <2>3. op[o] = "none" /\ FairProgress'
        BY <1>1, <2>1, <2>2, FairBegins DEF FairTables
  <2>4. (\A x \in Rece!Paying : FairPayment(x)') /\ FairHands' /\ FairReview'
        BY <1>1, <2>1, <2>2, <2>3, FairSubmits DEF Forgotten
  <2>5. FairProbe'
        BY <2>1, <2>2 DEF FairTables, FairProbe, SubmitMoves, Undispatched
  <2> QED  BY <2>1, <2>3, <2>4, <2>5 DEF FairTables, ReceFair
<1>4. CASE Rece!ReviewRule
  <2>1. pc = "v_rule"
        BY <1>4 DEF Rece!ReviewRule
  <2>2. CASE op["auto"] # "COMPLETED"
    <3>1. Rece!Busy
          BY <1>1, <2>1, <2>2, FairRuns DEF Outcome, Called
    <3> QED  BY <1>4, <2>2, <3>1 DEF Rece!ReviewRule, Rece!PollTimeout
  <2>3. CASE op["auto"] = "COMPLETED"
    <3>1. {x \in decided : x[1] = "auto"} = {<<"auto", "LIMIT_RULE", "APPROVED">>}
          BY <2>3 DEF FairTables, FairReview, ByRule, ByHand
    <3>2. /\ pc' = "v_waits" /\ op' = [op EXCEPT !["manual"] = "SUBMITTED"]
          /\ UNCHANGED <<outbox, paid, inbox, decided, extra, hand, dispatching, reconciling, before, verdict>>
          BY <1>4, <2>3, <3>1 DEF Rece!ReviewRule, Rece!PollTimeout
    <3>3. op["manual"] = "none" /\ FairProgress'
          BY <1>1, <2>1, <2>3, <3>2, FairBegins DEF FairTables, SubmitMoves
    <3>4. (\A x \in Rece!Paying : FairPayment(x)') /\ FairHands' /\ FairReview'
          BY <1>1, <2>1, <3>2, <3>3, FairSubmits DEF Forgotten
    <3>5. op'["manual"] = "SUBMITTED"
          BY <1>1, <3>2 DEF CInv, Rece!TypeOK
    <3>6. FairProbe'
          BY <2>1, <3>2, <3>5 DEF FairTables, FairProbe, Undispatched
    <3> QED  BY <3>2, <3>3, <3>4, <3>6 DEF FairTables, ReceFair
  <2> QED  BY <2>2, <2>3
<1>5. CASE Rece!RestartReplay
  <2>1. pc = "s_replay" /\ extra' = extra /\ extra = 0 /\ before.extra = 0
        BY <1>5 DEF Rece!RestartReplay, CInv, ReceiptSteps
  <2>2. Rece!Snapshot.inbox = before.inbox
        BY <2>1 DEF FairTables, FairProbe
  <2>3. /\ pc' = "s_resumed" /\ op' = [op EXCEPT !["resumed"] = "SUBMITTED"]
        /\ UNCHANGED <<outbox, paid, inbox, decided, hand, dispatching, reconciling, before, verdict>>
        BY <1>5, <2>1, <2>2 DEF Rece!RestartReplay
  <2>4. op["resumed"] = "none" /\ FairProgress'
        BY <1>1, <2>1, <2>3, FairBegins DEF FairTables, SubmitMoves
  <2>5. (\A x \in Rece!Paying : FairPayment(x)') /\ FairHands' /\ FairReview'
        BY <1>1, <2>1, <2>3, <2>4, FairSubmits DEF Forgotten
  <2>6. FairProbe'
        BY <2>1, <2>3 DEF FairTables, FairProbe, Undispatched
  <2> QED  BY <2>3, <2>4, <2>5, <2>6 DEF FairTables, ReceFair
<1> QED
    BY <1>2, <1>3, <1>4, <1>5

\* The callbacks of the checker, and the decision of the reviewer.
LEMMA FairCalls ==
    ASSUME CInv, FairTables, faults = {}, verdict # "ContractError",
           Rece!AdapterCalls \/ Rece!RecreateCallback \/ Rece!ReviewDecide
    PROVE  late' \/ ReceFair'
<1> USE DEF Rece!Go, Rece!Keep, Rece!Has, Rece!Require, Rece!candidate
<1>1. /\ {"adapter", "recovery", "manual", "auto"} \subseteq Rece!Ops /\ op \in [Rece!Ops -> OpStates]
      /\ outbox \in [Rece!Ops -> {"none", "PENDING", "LEASED", "DELIVERED", "CONFIRMED"}]
      /\ hand \in [{"a", "b"} -> Rece!Ops \cup {"none"}]
      BY DEF Rece!Ops, Rece!Paying, Rece!Reviewed, CInv, Rece!TypeOK, OpStates
<1>2. CASE Rece!AdapterCalls \/ (Rece!RecreateCallback /\ outbox["recovery"] # "none")
  <2>1. PICK o \in Called :
          /\ \/ o = "adapter" /\ pc = "a_calls" /\ pc' = "a_rejected"
             \/ o = "recovery" /\ pc = "n_callback" /\ pc' = "n_pending" /\ outbox[o] # "none"
          /\ inbox' = inbox \cup {[msg |-> o, outcome |-> "REJECTED", state |-> "RECEIVED", copy |-> 1]}
          /\ outbox' = [outbox EXCEPT ![o] = "CONFIRMED"]
          /\ UNCHANGED <<op, paid, decided, extra, hand, dispatching, reconciling, before, verdict>>
    <3>1. CASE Rece!AdapterCalls
          BY <3>1 DEF Rece!AdapterCalls, Rece!Stored, Rece!Confirmed, Called
    <3>2. CASE Rece!RecreateCallback /\ outbox["recovery"] # "none"
          BY <3>2 DEF Rece!RecreateCallback, Rece!PollTimeout, Rece!Stored, Rece!Confirmed, Called
    <3> QED  BY <1>2, <3>1, <3>2
  <2>2. o \in Rece!Ops /\ o \in Rece!Paying /\ FairPayment(o)
        BY <1>1 DEF Called, FairTables, Rece!Paying
  <2>3. outbox[o] = "PENDING" /\ op[o] = "WAITING_SIGNAL" /\ op[o] \notin {"none", Outcome(o)}
    <3>1. outbox[o] \notin {"none", "CONFIRMED"}
          BY <2>1 DEF FairTables, FairProbe
    <3>2. outbox[o] = "PENDING"
          BY <1>1, <2>2, <3>1 DEF FairPayment, Called
    <3> QED  BY <2>2, <3>2 DEF FairPayment, Outcome
  <2>4. /\ inbox' = inbox \cup {Receipt(o, "RECEIVED")} /\ Receipt(o, "RECEIVED").msg = o
        /\ outbox'[o] = "CONFIRMED" /\ \A x \in Rece!Ops \ {o} : outbox'[x] = outbox[x]
        BY <1>1, <2>1, <2>2 DEF Receipt, Outcome
  <2>5. ASSUME NEW x \in Rece!Paying
        PROVE  FairPayment(x)'
    <3>1. CASE x # o
      <4>1. x \in Rece!Ops /\ FairPayment(x) /\ pc \notin Forgotten
            BY <2>1 DEF Rece!Ops, FairTables, Forgotten
      <4> QED  BY <2>1, <2>4, <3>1, <4>1, FairPaymentKept
    <3>2. CASE x = o
      <4>1. NoRows(o) /\ paid[o] = 0
            BY <2>2, <2>3 DEF FairPayment
      <4>2. OneRow(o, "RECEIVED")'
            BY <2>4, <4>1 DEF OneRow, NoRows, Receipt
      <4> QED  BY <2>1, <2>2, <2>3, <2>4, <3>2, <4>1, <4>2 DEF FairPayment
    <3> QED  BY <3>1, <3>2
  <2>6. FairHands'
        BY <1>1, <2>1, <2>3, <2>4 DEF FairTables, FairHands
  <2>7. FairReview'
        BY <2>1, <2>2, <2>4 DEF FairTables, FairReview, Rece!Ops, Rece!Reviewed, Rece!Paying
  <2>8. FairProgress'
    <3>1. \A x \in Rece!Ops : (pc' \in Unborn(x) <=> pc \in Unborn(x)) /\ (pc' \in During(x) <=> pc \in During(x))
      <4> SUFFICES ASSUME NEW x \in Rece!Ops
                   PROVE  (pc' \in Unborn(x) <=> pc \in Unborn(x)) /\ (pc' \in During(x) <=> pc \in During(x))
          OBVIOUS
      <4> USE DEF Unborn, During, ToOutbox, ToReceipts, ToEvidence, ToWrong, ToCalls, ToRejected, ToAudit,
                  ToRule, ToDecide, ToStop, ToApplied, ToKept, ToReplay
      <4>1. CASE x \in {"provider", "adapter", "sentinel", "auto"}
            BY <2>1, <4>1
      <4>2. CASE x \in {"manual", "recovery", "resumed"}
            BY <2>1, <4>2
      <4> QED  BY <4>1, <4>2 DEF Rece!Ops, Rece!Paying, Rece!Reviewed
    <3> QED  BY <2>1, <3>1 DEF FairTables, FairProgress
  <2>9. FairProbe'
        BY <2>1, <2>3, <2>4 DEF FairTables, FairProbe, Undispatched
  <2> QED  BY <2>1, <2>5, <2>6, <2>7, <2>8, <2>9 DEF FairTables, ReceFair
<1>3. CASE Rece!RecreateCallback /\ outbox["recovery"] = "none"
  <2>1. pc = "n_callback" /\ Rece!PollTimeout(outbox["recovery"] # "none")
        BY <1>3 DEF Rece!RecreateCallback
  <2>2. op["recovery"] = "SUBMITTED"
        BY <1>1, <1>3, <2>1
        DEF FairTables, FairProbe, FairPayment, FairProgress, Rece!Paying, During, Outcome, Called
  <2>3. Rece!Busy
        BY <1>1, <2>1, <2>2 DEF Rece!Busy
  <2> QED  BY <2>1, <2>3 DEF Rece!PollTimeout
<1>4. CASE Rece!ReviewDecide
  <2>1. /\ pc = "v_decide" /\ pc' = "v_completed" /\ op' = [op EXCEPT !["manual"] = "DECIDED"]
        /\ decided' = decided \cup {ByHand}
        /\ UNCHANGED <<outbox, paid, inbox, extra, hand, dispatching, reconciling, before, verdict>>
        BY <1>4 DEF Rece!ReviewDecide, ByHand
  <2>2. op'["manual"] = "DECIDED" /\ \A x \in Rece!Ops \ {"manual"} : op'[x] = op[x]
        BY <1>1, <2>1
  <2>3. op["manual"] = "WAITING_MANUAL"
        BY <2>1 DEF FairTables, FairProbe
  <2>4. ASSUME NEW x \in Rece!Paying
        PROVE  FairPayment(x)'
    <3>1. x \in Rece!Ops \ {"manual"} /\ FairPayment(x) /\ pc \notin Forgotten
          BY <2>1 DEF Rece!Ops, Rece!Paying, FairTables, Forgotten
    <3> QED  BY <2>1, <2>2, <3>1, FairPaymentKept
  <2>5. FairHands'
        BY <2>1 DEF FairTables, FairHands
  <2>6. FairReview'
    <3>1. ByRule # ByHand
          BY DEF ByRule, ByHand
    <3> QED  BY <1>1, <2>1, <2>2, <2>3, <3>1 DEF FairTables, FairReview
  <2>7. FairProgress'
    <3>1. \A x \in Rece!Ops : (pc' \in Unborn(x) <=> pc \in Unborn(x)) /\ (pc' \in During(x) <=> pc \in During(x))
      <4> SUFFICES ASSUME NEW x \in Rece!Ops
                   PROVE  (pc' \in Unborn(x) <=> pc \in Unborn(x)) /\ (pc' \in During(x) <=> pc \in During(x))
          OBVIOUS
      <4> USE DEF Unborn, During, ToOutbox, ToReceipts, ToEvidence, ToWrong, ToCalls, ToRejected, ToAudit,
                  ToRule, ToDecide, ToStop, ToApplied, ToKept, ToReplay
      <4>1. CASE x \in {"provider", "adapter", "sentinel", "auto"}
            BY <2>1, <4>1
      <4>2. CASE x \in {"manual", "recovery", "resumed"}
            BY <2>1, <4>2
      <4> QED  BY <4>1, <4>2 DEF Rece!Ops, Rece!Paying, Rece!Reviewed
    <3>2. pc \in During("manual") /\ pc \notin Unborn("manual")
          BY <2>1 DEF During, Unborn, ToOutbox, ToReceipts, ToEvidence, ToWrong, ToCalls, ToRejected, ToAudit, ToRule
    <3> QED  BY <2>2, <3>1, <3>2 DEF FairTables, FairProgress
  <2>8. FairProbe'
        BY <1>1, <2>1, <2>2 DEF FairTables, FairProbe, Undispatched
  <2> QED  BY <2>1, <2>4, <2>5, <2>6, <2>7, <2>8 DEF FairTables, ReceFair
<1> QED
    BY <1>2, <1>3, <1>4

\* The services are started, replaced and stopped, and the whole stack is.
LEMMA FairServices ==
    ASSUME CInv, FairTables, faults = {}, verdict # "ContractError",
           Rece!ProviderStart \/ Rece!RecreateUp \/ Rece!RestartDown \/ Rece!RestartUp
    PROVE  ReceFair'
<1> USE DEF Rece!Go, Rece!Keep, Rece!Has
<1>1. /\ \/ pc = "p_start" /\ pc' = "p_completed"
         \/ pc = "n_up" /\ pc' = "n_applied"
         \/ pc = "s_down" /\ pc' = "s_up"
         \/ pc = "s_up" /\ pc' = "s_kept"
      /\ UNCHANGED <<op, inbox, decided, extra, verdict>>
      BY DEF Rece!ProviderStart, Rece!RecreateUp, Rece!RestartDown, Rece!RestartUp
<1>2. FairProgress'
  <2>1. \A x \in Rece!Ops : (pc' \in Unborn(x) <=> pc \in Unborn(x)) /\ (pc' \in During(x) <=> pc \in During(x))
    <3> SUFFICES ASSUME NEW x \in Rece!Ops
                 PROVE  (pc' \in Unborn(x) <=> pc \in Unborn(x)) /\ (pc' \in During(x) <=> pc \in During(x))
        OBVIOUS
    <3> USE DEF Unborn, During, ToOutbox, ToReceipts, ToEvidence, ToWrong, ToCalls, ToRejected, ToAudit,
                ToRule, ToDecide, ToStop, ToApplied, ToKept, ToReplay
    <3>1. CASE x \in {"provider", "adapter", "sentinel", "auto"}
          BY <1>1, <3>1
    <3>2. CASE x \in {"manual", "recovery", "resumed"}
          BY <1>1, <3>2
    <3> QED  BY <3>1, <3>2 DEF Rece!Ops, Rece!Paying, Rece!Reviewed
  <2> QED  BY <1>1, <2>1 DEF FairTables, FairProgress
<1>3. CASE Rece!ProviderStart \/ Rece!RecreateUp
  <2>1. /\ dispatching' = TRUE /\ UNCHANGED <<outbox, paid, before>>
        /\ hand' = hand \/ hand' = [d \in {"a", "b"} |-> "none"]
        /\ reconciling' = (reconciling \/ pc = "n_up") /\ pc \in {"p_start", "n_up"}
        BY <1>3 DEF Rece!ProviderStart, Rece!RecreateUp, FairTables, FairProbe
  <2>2. \A d \in {"a", "b"} : hand[d] = "none"
        BY <2>1 DEF FairTables, FairProbe, FairHands, Undispatched
  <2>3. FairHands'
    <3>1. \A d \in {"a", "b"} : hand'[d] = "none"
          BY <2>1, <2>2
    <3>2. "none" \notin Rece!Ops
          BY DEF Rece!Ops, Rece!Paying, Rece!Reviewed
    <3>3. \A o \in Rece!Ops : outbox[o] # "LEASED"
          BY <2>2, <3>2 DEF FairTables, FairHands
    <3> QED  BY <2>1, <3>1, <3>3 DEF FairHands
  <2>4. ASSUME NEW x \in Rece!Paying
        PROVE  FairPayment(x)'
    <3>1. x \in Rece!Ops /\ FairPayment(x) /\ pc \notin Forgotten
          BY <2>1 DEF Rece!Ops, FairTables, Forgotten
    <3> QED  BY <1>1, <2>1, <3>1, FairPaymentKept
  <2>5. FairReview'
        BY <1>1, <2>1 DEF FairTables, FairReview
  <2>6. FairProbe'
        BY <1>1, <2>1 DEF FairTables, FairProbe, Undispatched
  <2> QED  BY <1>1, <1>2, <2>3, <2>4, <2>5, <2>6 DEF FairTables, ReceFair
<1>4. CASE Rece!RestartDown \/ Rece!RestartUp
  <2>1. pc \in {"s_down", "s_up"}
        BY <1>4 DEF Rece!RestartDown, Rece!RestartUp
  <2>2. \A x \in Rece!Ops : pc \notin During(x)
        BY <2>1 DEF During, Rece!Ops, Rece!Paying, Rece!Reviewed
  <2>3. /\ \A o \in Rece!Ops : outbox[o] \in {"none", "CONFIRMED"}
        /\ \A d \in {"a", "b"} : hand[d] = "none"
        BY <2>2, FairRest
  <2>4. /\ outbox' = outbox /\ \A d \in {"a", "b"} : hand'[d] = "none"
        /\ \/ pc' = "s_kept" /\ paid' = [o \in Rece!Ops |-> 0]
           \/ paid' = paid
        BY <1>4, <2>2, <2>3, FairRest DEF Rece!RestartDown, Rece!RestartUp
  <2>5. Rece!Snapshot' = Rece!Snapshot
        BY <1>1, <2>4 DEF Rece!Snapshot
  <2>6. /\ before' = Rece!Snapshot
        /\ dispatching' = (pc = "s_up") /\ reconciling' = (pc = "s_up")
    <3>1. CASE Rece!RestartDown
          BY <3>1 DEF Rece!RestartDown, Rece!StopDispatchers
    <3>2. CASE Rece!RestartUp
          BY <3>2 DEF Rece!RestartUp, FairTables, FairProbe
    <3> QED  BY <1>4, <3>1, <3>2
  <2>7. ASSUME NEW x \in Rece!Paying
        PROVE  FairPayment(x)'
    <3>1. x \in Rece!Ops /\ FairPayment(x) /\ pc \notin Forgotten
          BY <2>1 DEF Rece!Ops, FairTables, Forgotten
    <3>2. CASE paid' = paid
          BY <1>1, <2>4, <3>1, <3>2, FairPaymentKept
    <3>3. CASE pc' = "s_kept" /\ paid' = [o \in Rece!Ops |-> 0]
      <4>1. paid'[x] = 0 /\ outbox'[x] = outbox[x] /\ outbox[x] \in {"none", "CONFIRMED"}
            BY <2>3, <2>4, <3>1, <3>3
      <4>2. /\ NoRows(x) => NoRows(x)'
            /\ OneRow(x, "APPLIED") => OneRow(x, "APPLIED")'
            /\ OneRow(x, "RECEIVED") => OneRow(x, "RECEIVED")'
            BY <1>1 DEF NoRows, OneRow, Receipt
      <4> QED  BY <1>1, <3>1, <3>3, <4>1, <4>2 DEF FairPayment, Forgotten
    <3> QED  BY <2>4, <3>2, <3>3
  <2>8. FairHands'
        BY <2>3, <2>4 DEF FairHands
  <2>9. FairReview'
    <3>1. \A o \in Rece!Reviewed : paid'[o] = 0
          BY <2>4 DEF FairTables, FairReview, Rece!Ops
    <3> QED  BY <1>1, <2>4, <3>1 DEF FairTables, FairReview
  <2>10. FairProbe'
        BY <1>1, <2>1, <2>4, <2>5, <2>6 DEF FairTables, FairProbe, Undispatched
  <2> QED  BY <1>1, <1>2, <2>7, <2>8, <2>9, <2>10 DEF FairTables, ReceFair
<1> QED
    BY <1>3, <1>4

\* Time that was lost stays lost.
LEMMA ReceLateStays == CInv /\ Rece!Next => faults' = faults /\ (late => late')
<1> SUFFICES ASSUME CInv, Rece!Next
             PROVE  faults' = faults /\ (late => late')
    OBVIOUS
<1> USE DEF Rece!Checking, Rece!Keep
<1>1. \A p : Rece!PollTimeout(p) => faults' = faults /\ (late => late')
      BY DEF Rece!PollTimeout
<1>2. \A step, p, next : Rece!Poll(step, p, next) => faults' = faults /\ (late => late')
      BY <1>1 DEF Rece!Poll
<1>3. CASE Rece!Candidate
  <2>1. \A o : Rece!Prepare(o) \/ Rece!Limit(o) \/ Rece!Complete(o) \/ Rece!Callback(o) => UNCHANGED <<faults, late>>
        BY DEF Rece!Prepare, Rece!Limit, Rece!Complete, Rece!Callback
  <2>2. \A d, o : Rece!Claim(d, o) => UNCHANGED <<faults, late>>
        BY DEF Rece!Claim
  <2>3. \A d : Rece!Deliver(d) => UNCHANGED <<faults, late>>
        BY DEF Rece!Deliver
  <2>4. \A m : Rece!Apply(m) => UNCHANGED <<faults, late>>
        BY DEF Rece!Apply
  <2> QED  BY <1>3, <2>1, <2>2, <2>3, <2>4 DEF Rece!Candidate
<1>4. CASE \/ Rece!ProviderSubmit \/ Rece!ProviderReceipts \/ Rece!ProviderStart \/ Rece!ProviderEvidence
           \/ Rece!AdapterSubmit \/ Rece!AdapterCalls \/ Rece!AdapterStart \/ Rece!AdapterAudit
           \/ Rece!ReviewSubmit \/ Rece!ReviewDecide
  <2>1. CASE Rece!ProviderSubmit \/ Rece!ProviderReceipts \/ Rece!ProviderStart
        BY <2>1 DEF Rece!ProviderSubmit, Rece!ProviderReceipts, Rece!ProviderStart, Rece!Require
  <2>5. CASE Rece!ProviderEvidence
        BY <2>5 DEF Rece!ProviderEvidence, Rece!Require
  <2>2. CASE Rece!AdapterSubmit \/ Rece!AdapterStart \/ Rece!AdapterAudit
        BY <2>2 DEF Rece!AdapterSubmit, Rece!AdapterStart, Rece!AdapterAudit
  <2>4. CASE Rece!AdapterCalls
        BY <2>4 DEF Rece!AdapterCalls
  <2>3. CASE Rece!ReviewSubmit \/ Rece!ReviewDecide
        BY <2>3 DEF Rece!ReviewSubmit, Rece!ReviewDecide
  <2> QED  BY <1>4, <2>1, <2>2, <2>3, <2>4, <2>5
<1>5. CASE \/ Rece!RecreateStop \/ Rece!RecreateUp \/ Rece!RestartDown \/ Rece!RestartUp \/ Rece!RestartKept
           \/ Rece!RestartReplay \/ Rece!Stalled
  <2>1. CASE Rece!RecreateStop \/ Rece!RecreateUp
        BY <2>1 DEF Rece!RecreateStop, Rece!RecreateUp
  <2>2. CASE Rece!RestartDown \/ Rece!RestartUp \/ Rece!RestartKept
        BY <2>2 DEF Rece!RestartDown, Rece!RestartUp, Rece!RestartKept
  <2>3. CASE Rece!RestartReplay \/ Rece!Stalled
        BY <2>3 DEF Rece!RestartReplay, Rece!Stalled
  <2> QED  BY <1>5, <2>1, <2>2, <2>3
<1>6. CASE \/ Rece!ProviderOutbox \/ Rece!AdapterWrong \/ Rece!AdapterRejected \/ Rece!ReviewRule
           \/ Rece!ReviewCompleted \/ Rece!RecreateCallback
  <2>1. CASE Rece!ProviderOutbox
        BY <1>1, <2>1 DEF Rece!ProviderOutbox, Rece!Require
  <2>2. CASE Rece!AdapterWrong
        BY <1>1, <2>2 DEF Rece!AdapterWrong
  <2>3. CASE Rece!AdapterRejected
        BY <1>1, <2>3 DEF Rece!AdapterRejected, Rece!Require
  <2>4. CASE Rece!ReviewRule
        BY <1>1, <2>4 DEF Rece!ReviewRule
  <2>5. CASE Rece!ReviewCompleted
        BY <1>1, <2>5 DEF Rece!ReviewCompleted
  <2>6. CASE Rece!RecreateCallback
        BY <1>1, <2>6 DEF Rece!RecreateCallback
  <2> QED  BY <1>6, <2>1, <2>2, <2>3, <2>4, <2>5, <2>6
<1>7. CASE \/ Rece!ProviderCompleted \/ Rece!AdapterSentinel \/ Rece!ReviewWaits \/ Rece!RecreatePending
           \/ Rece!RecreateApplied \/ Rece!RestartResumed
      BY <1>2, <1>7 DEF Rece!ProviderCompleted, Rece!AdapterSentinel, Rece!ReviewWaits, Rece!RecreatePending,
         Rece!RecreateApplied, Rece!RestartResumed
<1> QED
    BY <1>3, <1>4, <1>5, <1>6, <1>7 DEF Rece!Next, Rece!Checker

\* A candidate without faults passes, unless time was lost.
RFair == faults = {} /\ ~late => ReceFair

LEMMA ReceFairs ==
    /\ Rece!Init => RFair
    /\ CInv /\ RFair /\ Rece!Next => RFair'
<1>1. Rece!Init => RFair
  <2> SUFFICES ASSUME Rece!Init
               PROVE  ReceFair
      BY DEF RFair
  <2>1. /\ pc = "p_stop" /\ verdict = "none" /\ inbox = {} /\ decided = {} /\ dispatching /\ reconciling
        /\ \A o \in Rece!Ops : op[o] = "none" /\ outbox[o] = "none" /\ paid[o] = 0
        /\ \A d \in {"a", "b"} : hand[d] = "none"
        BY DEF Rece!Init, Rece!NoRow
  <2>2. \A o \in Rece!Paying : FairPayment(o)
        BY <2>1 DEF FairPayment, NoRows, Outcome, Rece!Ops
  <2>3. \A o \in Rece!Ops : pc \in Unborn(o) /\ pc \notin During(o)
        BY <2>1 DEF Unborn, During, ToOutbox, ToReceipts, ToEvidence, ToWrong, ToCalls, ToRejected, ToAudit, ToRule,
           ToDecide, ToStop, ToApplied, ToKept, ToReplay, Rece!Ops, Rece!Paying, Rece!Reviewed
  <2>4. FairProgress
        BY <2>1, <2>3 DEF FairProgress
  <2>5. FairHands /\ FairReview /\ FairProbe
        BY <2>1 DEF FairHands, FairReview, FairProbe, Undispatched, Rece!Ops, Rece!Reviewed
  <2> QED  BY <2>1, <2>2, <2>4, <2>5 DEF ReceFair, FairTables
<1>2. ASSUME CInv, RFair, Rece!Next
      PROVE  RFair'
  <2>1. late \in BOOLEAN
        BY <1>2 DEF CInv, Rece!TypeOK
  <2> SUFFICES ASSUME faults = {}, ReceFair
               PROVE  late' \/ ReceFair'
      BY <1>2, <2>1, ReceLateStays DEF RFair
  <2>2. CASE Rece!Candidate
    <3>1. pc # "done" /\ FairTables
          BY <2>2 DEF Rece!Candidate, ReceFair
    <3>2. FairTables' /\ verdict' = verdict
      <4>1. verdict' = verdict
            BY <2>2 DEF Rece!Candidate, Rece!Prepare, Rece!Limit, Rece!Complete, Rece!Callback, Rece!Claim,
               Rece!Deliver, Rece!Apply, Rece!Checking
      <4> QED  BY <1>2, <2>2, <3>1, <4>1, FairProcess, FairSends, FairApply DEF Rece!Candidate
    <3> QED  BY <3>2 DEF ReceFair
  <2>3. CASE Rece!Checker
    <3>1. pc # "done"
          BY <2>3 DEF Rece!Checker, Rece!ProviderSubmit, Rece!ProviderOutbox, Rece!ProviderReceipts,
             Rece!ProviderStart, Rece!ProviderCompleted, Rece!ProviderEvidence, Rece!AdapterSubmit,
             Rece!AdapterWrong, Rece!AdapterCalls, Rece!AdapterRejected, Rece!AdapterStart, Rece!AdapterSentinel,
             Rece!AdapterAudit, Rece!ReviewSubmit, Rece!ReviewRule, Rece!ReviewWaits, Rece!ReviewDecide,
             Rece!ReviewCompleted, Rece!RecreateStop, Rece!RecreateCallback, Rece!RecreatePending,
             Rece!RecreateUp, Rece!RecreateApplied, Rece!RestartDown, Rece!RestartUp, Rece!RestartKept,
             Rece!RestartReplay, Rece!RestartResumed, Rece!Stalled, Rece!Poll
    <3>2. FairTables /\ verdict # "ContractError"
          BY <3>1 DEF ReceFair
    <3> QED  BY <1>2, <2>3, <3>2, FairAwaits, FairRequires, FairSubmissions, FairCalls, FairServices
             DEF Rece!Checker
  <2> QED  BY <1>2, <2>2, <2>3 DEF Rece!Next
<1> QED
    BY <1>1, <1>2

-----------------------------------------------------------------------------
(* The phases concurrency, recovery and resilience of week 2 *)

\* The rows of a job: one attempt per claim, numbered by its version; the earlier ones ended when
\* their lease was taken over or when the action failed, the last one tells the state of the job.
FairAttempts ==
    /\ job.id = 0 /\ job.exec = 0 /\ job.ver = job.count /\ Len(attempts) = job.count
    /\ \A i \in 1..job.count :
          /\ attempts[i].id = 0 /\ attempts[i].exec = 0 /\ attempts[i].ver = i
          /\ i # job.count => attempts[i].status = IF job.mode = "signal" THEN "STALE" ELSE "FAILED"
    /\ job.state = "LEASED" => attempts[job.count].status = "RUNNING"
    /\ job.state = "SUCCEEDED" => attempts[job.count].status = "SUCCEEDED"
    /\ job.state \in {"RETRY_WAIT", "DEAD"} => attempts[job.count].status = "FAILED"
    /\ job.count = 0 <=> job.state \in {"none", "READY"}

\* What the job has done, and how often it was tried.
FairOutcome ==
    /\ effects = (IF job.state = "SUCCEEDED" THEN 1 ELSE 0) /\ dispatches = effects
    /\ job.state = "SUCCEEDED" => job.mode = "signal"
    /\ job.state = "RETRY_WAIT" => job.mode = "retry" /\ job.count < 3
    /\ job.state = "DEAD" => job.mode # "signal" /\ job.count = (IF job.mode = "retry" THEN 3 ELSE 1)
    /\ job.mode = "retry" => job.count <= 3
    /\ job.mode \in {"error", "invalid"} => job.count <= 1

\* The lease of a worker that was killed or restarted, until another claim takes it over.
Orphaned ==
    \/ pc = "c_loser" /\ job.count = 1
    \/ pc = "c_final" /\ job.count = 2
    \/ pc \in {"a_crash", "a_final"} /\ job.count = 1

\* A worker that is busy holds the lease, or is the winner that lost it at its failpoint.
FairLease(w) ==
    /\ worker[w].at = "idle" => worker[w].ver = 0
    /\ worker[w].at # "idle" => worker[w].up /\ (Work!Holds(w) \/ (pc = "c_ack" /\ w = seen.winner))
    /\ due /\ Work!Holds(w) => Work!Paused(w)
    /\ worker[w].up => acks[w] = IF Work!Paused(w) THEN 1 ELSE 0

FairLeases ==
    /\ \A w \in Work!Workers : FairLease(w)
    /\ job.state = "LEASED" => Orphaned \/ Work!Holds(job.owner)
    /\ Work!Hurried \/ job.state = "READY" => ~due

AllDown == {"c_boot", "a_boot", "a_crash", "r_ready"}
AllUp == {"c_start", "a_start", "r_start", "r_wait", "r_resumed", "r_retry", "r_retrywait", "r_recreate",
          "r_failed", "t_error", "t_invalid", "r_verdict", "done"}
JobDone == {"c_restore", "a_start", "a_restore", "r_start", "r_retry"}

\* The containers and the job at the steps where the checker holds no worker.
FairPhases ==
    /\ pc \in AllUp => \A w \in Work!Workers : worker[w].up /\ worker[w].fp = ""
    /\ pc \in AllDown => \A w \in Work!Workers : ~worker[w].up
    /\ pc = "c_start" => job.state = "none"
    /\ pc \in AllDown \ {"a_crash"} => job.state = "READY"
    /\ pc \in JobDone => job.state = "SUCCEEDED"
    /\ pc \in {"r_wait", "r_resumed"} => job.state \in {"READY", "LEASED", "SUCCEEDED"}
    /\ pc = "r_retrywait" => job.count <= 1 /\ job.state \in {"READY", "LEASED", "RETRY_WAIT"}
    /\ pc = "r_recreate" => job.state = "RETRY_WAIT"
    /\ pc = "r_failed" => job.state \in {"RETRY_WAIT", "LEASED", "DEAD"}
    /\ pc \in {"r_wait", "r_ready", "r_resumed"} => job.mode = "signal"
    /\ pc \in {"r_retrywait", "r_recreate", "r_failed"} => job.mode = "retry"
    /\ pc = "t_error" => job.mode = "error"
    /\ pc = "t_invalid" => job.mode = "invalid"
    /\ pc \in {"t_error", "t_invalid"} => job.state \in {"READY", "LEASED", "DEAD"}
    /\ pc \in {"r_verdict", "done"} => job.state = "DEAD"

\* The race for one job: the loser takes over the lease of the winner, and then its own.
Raced == {"c_reclaim", "c_attempts", "c_stale", "c_restart"}
FairRace ==
    /\ pc \in {"c_claim", "c_ack", "c_loser"} \cup Raced =>
          \A w \in Work!Workers : worker[w].up => worker[w].fp = "after_job_claim"
    /\ pc = "c_claim" => /\ \A w \in Work!Workers : worker[w].up
                         /\ job.state \in {"READY", "LEASED"} /\ job.count <= 1
    /\ pc \in {"c_ack", "c_loser"} \cup Raced =>
          /\ job.state = "LEASED" /\ worker[Work!Other(seen.winner)].up
          /\ \/ job.count = 1 /\ job.owner = seen.winner /\ pc \notin Raced
             \/ job.count = 2 /\ job.owner = Work!Other(seen.winner)
    /\ pc \in {"c_ack", "c_loser", "c_final"} \cup Raced => seen.winner \in Work!Workers
    /\ pc = "c_ack" => worker[seen.winner].up /\ worker[seen.winner].at = "claimed"
    /\ pc \in {"c_loser", "c_final"} \cup Raced => ~worker[seen.winner].up
    /\ pc = "c_final" =>
          /\ worker[Work!Other(seen.winner)].up /\ worker[Work!Other(seen.winner)].fp = ""
          /\ job.owner = Work!Other(seen.winner)
          /\ \/ job.state = "LEASED" /\ job.count = 2 /\ worker[Work!Other(seen.winner)].at = "idle"
             \/ job.state \in {"LEASED", "SUCCEEDED"} /\ job.count = 3
    /\ pc \in {"c_stale", "c_restart", "c_final"} => seen.job.ver = 2
    /\ pc \in {"c_boot", "c_claim", "c_ack", "c_loser", "c_final"} \cup Raced => job.mode = "signal"

\* worker-a is killed between its action and its finish, and worker-b takes over its lease.
FairCrash ==
    /\ pc \in {"a_boot", "a_ack", "a_crash", "a_final"} => job.mode = "signal"
    /\ pc = "a_ack" => /\ worker["worker-a"].up /\ worker["worker-a"].fp = "after_action_before_finish"
                       /\ ~worker["worker-b"].up
                       /\ \/ job.state = "READY"
                          \/ job.state = "LEASED" /\ job.owner = "worker-a" /\ job.count = 1
    /\ pc \in {"a_crash", "a_final"} => ~worker["worker-a"].up
    /\ pc = "a_crash" => job.state = "LEASED" /\ job.owner = "worker-a" /\ job.count = 1
    /\ pc = "a_final" =>
          /\ worker["worker-b"].up /\ worker["worker-b"].fp = ""
          /\ \/ job.state = "LEASED" /\ job.owner = "worker-a" /\ job.count = 1
             \/ job.state = "LEASED" /\ job.owner = "worker-b" /\ job.count = 2
             \/ job.state = "SUCCEEDED"

FairSeen ==
    /\ waiting = "kept" /\ seen.ok /\ seen.preserved
    /\ seen.job.id = 0 /\ seen.job.exec = 0

WorkFair ==
    /\ \A c \in Work!Checks : result[c] # "failed"
    /\ FairSeen /\ FairAttempts /\ FairOutcome /\ FairLeases /\ FairPhases /\ FairRace /\ FairCrash

LEMMA JobTypes ==
    ASSUME WInv, WShow
    PROVE  /\ job \in JobSchema /\ job.count \in Nat /\ job.ver \in Nat /\ attempts \in Seq(AttemptSchema)
           /\ worker \in [Work!Workers -> WorkerSchema] /\ acks \in [Work!Workers -> Nat]
           /\ seen \in WorkSeen /\ due \in BOOLEAN /\ late \in BOOLEAN
           /\ \A w \in Work!Workers : /\ worker[w].at \in {"idle", "claimed", "acted"}
                                      /\ worker[w].fp \in {"", "after_job_claim", "after_action_before_finish"}
                                      /\ worker[w].up \in BOOLEAN
           /\ pc \in Concurrency \cup Recovery \cup Resilience \cup {"c_restore", "a_restore", "done"}
<1>1. /\ job \in JobSchema /\ attempts \in Seq(AttemptSchema)
      /\ worker \in [Work!Workers -> WorkerSchema] /\ acks \in [Work!Workers -> Nat]
      /\ seen \in WorkSeen /\ due \in BOOLEAN /\ late \in BOOLEAN
      /\ pc \in Concurrency \cup Recovery \cup Resilience \cup {"c_restore", "a_restore", "done"}
      BY DEF WInv, WShow, WorkTables, WorkChecker, WorkCounts
<1>2. job.count \in Nat /\ job.ver \in Nat
  <2>1. job.count \in 0..WorkerClaims /\ job.ver \in 0..WorkerClaims
        BY <1>1 DEF JobSchema
  <2> QED  BY <2>1, ClaimBounds
<1>3. \A r \in WorkerSchema : /\ r.at \in {"idle", "claimed", "acted"} /\ r.up \in BOOLEAN
                              /\ r.fp \in {"", "after_job_claim", "after_action_before_finish"}
      BY DEF WorkerSchema
<1> QED
    BY <1>1, <1>2, <1>3

\* A worker that holds the lease is busy, and one that the checker does not hold at a failpoint
\* holds it in time.
LEMMA JobHolder ==
    ASSUME WInv, WShow, WorkFair
    PROVE  /\ \A w \in Work!Workers : Work!Holds(w) => worker[w].at # "idle" /\ worker[w].up
           /\ job.state # "LEASED" /\ pc # "c_ack" => \A w \in Work!Workers : worker[w].at = "idle"
<1>1. ASSUME NEW w \in Work!Workers, Work!Holds(w)
      PROVE  worker[w].at # "idle" /\ worker[w].up
  <2>1. job.ver = job.count /\ job.count # 0
        BY <1>1 DEF WorkFair, FairAttempts, Work!Holds
  <2> QED  BY <1>1, <2>1 DEF WorkFair, FairLeases, FairLease, Work!Holds
<1> QED
    BY <1>1 DEF WorkFair, FairLeases, FairLease, Work!Holds

\* A worker's own step: its log has one line exactly when it is at its failpoint.
LEMMA JobMoves ==
    ASSUME WInv, WShow, WorkFair, NEW w \in Work!Workers, NEW at, NEW ver, Work!At(w, at, ver),
           worker[w].up, ~Work!Paused(w)
    PROVE  /\ worker'[w].at = at /\ worker'[w].ver = ver /\ worker'[w].up /\ worker'[w].fp = worker[w].fp
           /\ acks'[w] = IF Work!Paused(w)' THEN 1 ELSE 0
           /\ \A v \in Work!Workers : /\ v # w => worker'[v] = worker[v] /\ acks'[v] = acks[v]
                                      /\ worker'[v].up = worker[v].up /\ worker'[v].fp = worker[v].fp
<1>1. worker \in [Work!Workers -> WorkerSchema] /\ acks \in [Work!Workers -> Nat]
      BY JobTypes
<1>2. /\ worker'[w].at = at /\ worker'[w].up = worker[w].up /\ worker'[w].fp = worker[w].fp
      /\ \A v \in Work!Workers : v # w => worker'[v] = worker[v] /\ acks'[v] = acks[v]
      BY <1>1, WorkMoves
<1> DEFINE r == [worker[w] EXCEPT !.at = at, !.ver = ver]
           paused == Work!Paused(w)'
<1>3. worker' = [worker EXCEPT ![w] = r] /\ acks' = [acks EXCEPT ![w] = acks[w] + (IF paused THEN 1 ELSE 0)]
      BY DEF Work!At
<1>4. r.ver = ver
      BY <1>1 DEF WorkerSchema
<1> HIDE DEF r, paused
<1>5. worker'[w].ver = ver /\ acks'[w] = acks[w] + (IF paused THEN 1 ELSE 0)
      BY <1>1, <1>3, <1>4
<1>6. acks[w] = 0
      BY DEF WorkFair, FairLeases, FairLease
<1>7. acks'[w] = IF paused THEN 1 ELSE 0
      BY <1>5, <1>6
<1> QED
    BY <1>2, <1>5, <1>7 DEF paused

\* Which lease runs out without anything being late.
LEMMA JobClaimable ==
    ASSUME WInv, WShow, WorkFair, faults = {}, NEW w \in Work!Workers, worker[w].up, worker[w].at = "idle",
           Work!Claimable
    PROVE  \/ job.state = "READY"
           \/ job.state = "RETRY_WAIT" /\ pc = "r_failed"
           \/ /\ job.state = "LEASED"
              /\ \/ pc \in {"c_ack", "c_loser"} /\ w = Work!Other(seen.winner) /\ job.count = 1
                 \/ pc = "c_final" /\ w = Work!Other(seen.winner) /\ job.count = 2
                 \/ pc = "a_final" /\ w = "worker-b" /\ job.count = 1
<1>1. pc \in Concurrency \cup Recovery \cup Resilience \cup {"c_restore", "a_restore", "done"}
      BY JobTypes
<1>2. \/ job.state = "READY" \/ (job.state = "RETRY_WAIT" /\ due) \/ (job.state = "LEASED" /\ due)
      BY DEF Work!Claimable, Work!Reclaim
<1>3. CASE job.state = "RETRY_WAIT" /\ due
  <2>1. ~Work!Hurried
        BY <1>3 DEF WorkFair, FairLeases
  <2>2. pc \notin {"c_claim", "r_retrywait", "r_recreate"}
        BY <2>1 DEF Work!Hurried
  <2>3. job.mode = "retry"
        BY <1>3 DEF WorkFair, FairOutcome
  <2>4. pc \in AllUp \cup AllDown \cup JobDone => pc = "r_failed"
        BY <1>3, <2>2 DEF WorkFair, FairPhases, FairCrash, AllUp, AllDown, JobDone
  <2>5. pc \notin {"c_ack", "c_loser", "c_final", "a_ack", "a_crash", "a_final"} \cup Raced
        BY <2>3 DEF WorkFair, FairRace, FairCrash
  <2> QED  BY <1>1, <1>3, <2>2, <2>4, <2>5
           DEF AllUp, AllDown, JobDone, Raced, Concurrency, Recovery, Resilience
<1>4. CASE job.state = "LEASED" /\ due
  <2>1. CASE Orphaned
    <3>1. CASE pc = "c_loser" \/ pc = "c_final"
      <4>1. /\ seen.winner \in Work!Workers /\ ~worker[seen.winner].up
            /\ \/ pc = "c_loser" /\ job.count = 1
               \/ pc = "c_final" /\ job.count = 2
            BY <2>1, <3>1 DEF WorkFair, FairRace, Orphaned
      <4>2. w # seen.winner
            BY <4>1
      <4>3. w = Work!Other(seen.winner)
            BY <4>1, <4>2, WorkTwo
      <4> QED  BY <1>4, <4>1, <4>3
    <3>2. CASE pc = "a_final"
          BY <1>4, <2>1, <3>2, WorkTwo DEF WorkFair, FairCrash, Orphaned
    <3> QED  BY <2>1, <3>1, <3>2 DEF Orphaned, WorkFair, FairPhases, AllDown
  <2>2. CASE ~Orphaned
    <3> DEFINE o == job.owner
    <3>1. o \in Work!Workers
          BY <1>4 DEF WShow, WorkFresh
    <3>2. Work!Holds(o) /\ Work!Paused(o) /\ worker[o].up /\ worker[o].at # "idle"
          BY <1>4, <2>2, <3>1, JobHolder DEF WorkFair, FairLeases, FairLease
    <3>3. o # w /\ worker[o].fp # ""
          BY <3>2 DEF Work!Paused
    <3>4. pc \notin AllUp \cup AllDown \cup JobDone
          BY <1>4, <3>1, <3>2, <3>3 DEF WorkFair, FairPhases
    <3>5. pc # "c_claim"
          BY <1>4 DEF WorkFair, FairLeases, Work!Hurried
    <3>6. CASE pc = "c_ack"
      <4>1. /\ seen.winner \in Work!Workers /\ worker[seen.winner].at = "claimed"
            /\ (job.count = 1 /\ o = seen.winner) \/ o = Work!Other(seen.winner)
            BY <3>6 DEF WorkFair, FairRace
      <4>2. w # seen.winner
            BY <4>1
      <4>3. w = Work!Other(seen.winner) /\ o # Work!Other(seen.winner)
            BY <3>3, <4>1, <4>2, WorkTwo
      <4> QED  BY <1>4, <3>6, <4>1, <4>3
    <3>7. pc \notin {"c_loser"} \cup Raced
      <4> SUFFICES ASSUME pc \in {"c_loser"} \cup Raced
                   PROVE  FALSE
          OBVIOUS
      <4>1. seen.winner \in Work!Workers /\ ~worker[seen.winner].up
            BY DEF WorkFair, FairRace
      <4>2. \A u \in Work!Workers : u = w \/ u = o
            BY <3>1, <3>3, WorkTwo
      <4> QED  BY <3>2, <4>1, <4>2
    <3>8. pc \notin {"c_final", "a_ack", "a_final"}
          BY <1>4, <3>1, <3>2, <3>3, WorkTwo DEF WorkFair, FairRace, FairCrash
    <3> QED  BY <1>1, <3>4, <3>5, <3>6, <3>7, <3>8
             DEF AllUp, AllDown, JobDone, Raced, Concurrency, Recovery, Resilience
  <2> QED  BY <2>1, <2>2
<1> QED
    BY <1>2, <1>3, <1>4

\* The attempts after a claim: the one that lost its lease is STALE, the new one is RUNNING.
LEMMA JobAppends ==
    ASSUME NEW s \in Seq(AttemptSchema), NEW stale \in BOOLEAN, NEW a,
           stale => Len(s) # 0
    PROVE  LET old == IF stale THEN [s EXCEPT ![Len(s)].status = "STALE"] ELSE s
               t == Append(old, a)
           IN /\ Len(t) = Len(s) + 1 /\ t[Len(s) + 1] = a
              /\ \A i \in 1..Len(s) :
                    /\ t[i].id = s[i].id /\ t[i].exec = s[i].exec /\ t[i].ver = s[i].ver
                    /\ t[i].status = IF stale /\ i = Len(s) THEN "STALE" ELSE s[i].status
<1> DEFINE old == IF stale THEN [s EXCEPT ![Len(s)].status = "STALE"] ELSE s
<1>1. s \in [1..Len(s) -> AttemptSchema] /\ Len(s) \in Nat
      OBVIOUS
<1>2. old \in Seq(AttemptSchema) /\ Len(old) = Len(s)
      BY WorkAttempts
<1>3. \A i \in 1..Len(s) : old[i] = IF stale /\ i = Len(s) THEN [s[i] EXCEPT !.status = "STALE"] ELSE s[i]
      BY <1>1
<1> HIDE DEF old
<1>4. Len(Append(old, a)) = Len(s) + 1 /\ Append(old, a)[Len(s) + 1] = a
      BY <1>2
<1>5. \A i \in 1..Len(s) : Append(old, a)[i] = old[i]
      BY <1>2
<1>6. \A r \in AttemptSchema : LET x == [r EXCEPT !.status = "STALE"]
                              IN x.id = r.id /\ x.exec = r.exec /\ x.ver = r.ver /\ x.status = "STALE"
      BY DEF AttemptSchema
<1>7. \A i \in 1..Len(s) : s[i] \in AttemptSchema
      BY <1>1
<1>8. ASSUME NEW i \in 1..Len(s)
      PROVE  /\ old[i].id = s[i].id /\ old[i].exec = s[i].exec /\ old[i].ver = s[i].ver
             /\ old[i].status = IF stale /\ i = Len(s) THEN "STALE" ELSE s[i].status
      BY <1>3, <1>6, <1>7, ZenonT(40)
<1> QED
    BY <1>4, <1>5, <1>8 DEF old

LEMMA JobClaimed ==
    ASSUME WInv, WShow, WorkFair, faults = {}, NEW w \in Work!Workers, Work!Claim(w)
    PROVE  /\ worker[w].up /\ worker[w].at = "idle" /\ Work!Claimable
           /\ job'.state = "LEASED" /\ job'.owner = w /\ job'.mode = job.mode /\ job'.count = job.count + 1
           /\ job'.ver = job.count + 1 /\ job'.id = 0 /\ job'.exec = 0
           /\ attempts' = Append(Work!Settled,
                                 [ver |-> job.count + 1, status |-> "RUNNING", id |-> 0, exec |-> 0])
           /\ Work!At(w, "claimed", job.count + 1) /\ due' = FALSE
           /\ UNCHANGED <<effects, dispatches, waiting, faults, pc, seen, result, late>>
<1>1. job.ver = job.count /\ job.id = 0 /\ job.exec = 0
      BY DEF WorkFair, FairAttempts
<1>2. job \in JobSchema
      BY JobTypes
<1> DEFINE n == job.count + 1
           j == [job EXCEPT !.state = "LEASED", !.owner = w, !.ver = n, !.exec = 0, !.count = n, !.id = 0]
<1>3. /\ worker[w].up /\ worker[w].at = "idle" /\ Work!Claimable /\ job' = j
      /\ attempts' = Append(Work!Settled, [ver |-> n, status |-> "RUNNING", id |-> 0, exec |-> 0])
      /\ Work!At(w, "claimed", n) /\ due' = FALSE
      /\ UNCHANGED <<effects, dispatches, waiting, faults, pc, seen, result, late>>
      BY <1>1 DEF Work!Claim, Work!Unseen, Work!Has
<1> HIDE DEF n
<1>4. /\ j.state = "LEASED" /\ j.owner = w /\ j.mode = job.mode /\ j.count = n
      /\ j.ver = n /\ j.id = 0 /\ j.exec = 0
      BY <1>2 DEF JobSchema
<1> QED
    BY <1>3, <1>4 DEF n

LEMMA JobClaims ==
    ASSUME WInv, WShow, WorkFair, faults = {}, NEW w \in Work!Workers, Work!Claim(w)
    PROVE  WorkFair'
<1>1. /\ worker[w].up /\ worker[w].at = "idle" /\ Work!Claimable
      /\ job'.state = "LEASED" /\ job'.owner = w /\ job'.mode = job.mode /\ job'.count = job.count + 1
      /\ job'.ver = job.count + 1 /\ job'.id = 0 /\ job'.exec = 0
      /\ attempts' = Append(Work!Settled,
                            [ver |-> job.count + 1, status |-> "RUNNING", id |-> 0, exec |-> 0])
      /\ Work!At(w, "claimed", job.count + 1) /\ due' = FALSE
      /\ UNCHANGED <<effects, dispatches, waiting, faults, pc, seen, result>>
      BY JobClaimed
<1>2. /\ job.count \in Nat /\ attempts \in Seq(AttemptSchema)
      /\ pc \in Concurrency \cup Recovery \cup Resilience \cup {"c_restore", "a_restore", "done"}
      BY JobTypes
<1>3. /\ worker'[w].at = "claimed" /\ worker'[w].ver = job.count + 1 /\ worker'[w].up
      /\ acks'[w] = IF Work!Paused(w)' THEN 1 ELSE 0
      /\ \A v \in Work!Workers : /\ v # w => worker'[v] = worker[v] /\ acks'[v] = acks[v]
                                 /\ worker'[v].up = worker[v].up /\ worker'[v].fp = worker[v].fp
  <2>1. ~Work!Paused(w)
        BY <1>1 DEF Work!Paused
  <2> QED  BY <1>1, <2>1, JobMoves
<1>4. \/ job.state = "READY" /\ job.count = 0
      \/ job.state = "RETRY_WAIT" /\ pc = "r_failed" /\ job.count < 3 /\ job.mode = "retry" /\ job.count # 0
      \/ /\ job.state = "LEASED" /\ job.mode = "signal" /\ job.count # 0
         /\ \/ pc \in {"c_ack", "c_loser"} /\ w = Work!Other(seen.winner) /\ job.count = 1
            \/ pc = "c_final" /\ w = Work!Other(seen.winner) /\ job.count = 2
            \/ pc = "a_final" /\ w = "worker-b" /\ job.count = 1
  <2>1. \/ job.state = "READY"
        \/ job.state = "RETRY_WAIT" /\ pc = "r_failed"
        \/ /\ job.state = "LEASED"
           /\ \/ pc \in {"c_ack", "c_loser"} /\ w = Work!Other(seen.winner) /\ job.count = 1
              \/ pc = "c_final" /\ w = Work!Other(seen.winner) /\ job.count = 2
              \/ pc = "a_final" /\ w = "worker-b" /\ job.count = 1
        BY <1>1, JobClaimable
  <2>2. pc \in {"c_ack", "c_loser", "c_final", "a_final"} => job.mode = "signal"
        BY DEF WorkFair, FairRace, FairCrash
  <2> QED  BY <2>1, <2>2 DEF WorkFair, FairAttempts, FairOutcome
<1>5. FairAttempts'
  <2> DEFINE n == job.count
             a == [ver |-> n + 1, status |-> "RUNNING", id |-> 0, exec |-> 0]
             stale == job.state = "LEASED"
  <2>1. /\ Len(attempts) = n
        /\ \A i \in 1..n :
              /\ attempts[i].id = 0 /\ attempts[i].exec = 0 /\ attempts[i].ver = i
              /\ i # n => attempts[i].status = IF job.mode = "signal" THEN "STALE" ELSE "FAILED"
        /\ job.state = "RETRY_WAIT" => attempts[n].status = "FAILED"
        BY DEF WorkFair, FairAttempts
  <2>2. attempts' = Append(IF stale THEN [attempts EXCEPT ![Len(attempts)].status = "STALE"] ELSE attempts, a)
        BY <1>1 DEF Work!Settled, Work!Has
  <2>3. stale \in BOOLEAN /\ (stale => Len(attempts) # 0)
        BY <1>4, <2>1
  <2>4. /\ Len(attempts') = n + 1 /\ attempts'[n + 1] = a
        /\ \A i \in 1..n :
              /\ attempts'[i].id = attempts[i].id /\ attempts'[i].exec = attempts[i].exec
              /\ attempts'[i].ver = attempts[i].ver
              /\ attempts'[i].status = IF stale /\ i = n THEN "STALE" ELSE attempts[i].status
    <3> HIDE DEF stale, a
    <3> QED  BY <1>2, <2>1, <2>2, <2>3, JobAppends
  <2>5. ASSUME NEW i \in 1..(n + 1)
        PROVE  /\ attempts'[i].id = 0 /\ attempts'[i].exec = 0 /\ attempts'[i].ver = i
               /\ i # n + 1 => attempts'[i].status = IF job.mode = "signal" THEN "STALE" ELSE "FAILED"
    <3>1. CASE i = n + 1
          BY <2>4, <3>1
    <3>2. CASE i # n + 1
      <4>1. i \in 1..n
            BY <1>2, <3>2
      <4>2. attempts'[i].id = 0 /\ attempts'[i].exec = 0 /\ attempts'[i].ver = i
            BY <2>1, <2>4, <4>1
      <4>3. attempts'[i].status = IF job.mode = "signal" THEN "STALE" ELSE "FAILED"
        <5>1. CASE i # n
              BY <2>1, <2>4, <4>1, <5>1
        <5>2. CASE i = n
          <6>1. n # 0
                BY <4>1, <5>2, <1>2
          <6> QED  BY <1>4, <2>1, <2>4, <4>1, <5>2, <6>1
        <5> QED  BY <5>1, <5>2
      <4> QED  BY <4>2, <4>3
    <3> QED  BY <3>1, <3>2
  <2>6. attempts'[n + 1].status = "RUNNING" /\ n + 1 # 0
        BY <1>2, <2>4
  <2> QED  BY <1>1, <2>4, <2>5, <2>6 DEF FairAttempts
<1>6. FairOutcome'
      BY <1>1, <1>2, <1>4 DEF WorkFair, FairOutcome
<1>7. \A v \in Work!Workers : v # w => ~Work!Holds(v)'
      BY <1>1 DEF Work!Holds
<1>8. Work!Holds(w)'
      BY <1>1, <1>3 DEF Work!Holds
<1>14. /\ pc' = pc /\ seen' = seen /\ job'.state = "LEASED" /\ job'.owner = w /\ job'.mode = job.mode
       /\ job'.count = job.count + 1
       BY <1>1
<1>15. \A v \in Work!Workers : (worker'[v].up <=> worker[v].up) /\ worker'[v].fp = worker[v].fp
       BY <1>3
<1>9. FairLeases'
  <2>1. FairLease(w)'
        BY <1>1, <1>3, <1>8 DEF FairLease
  <2>2. ASSUME NEW v \in Work!Workers, v # w
        PROVE  FairLease(v)'
    <3>1. worker'[v] = worker[v] /\ acks'[v] = acks[v] /\ (Work!Paused(v)' <=> Work!Paused(v)) /\ FairLease(v)
          BY <1>3, <2>2 DEF Work!Paused, WorkFair, FairLeases
    <3>2. worker[v].at # "idle" => pc = "c_ack" /\ v = seen.winner
      <4> SUFFICES ASSUME worker[v].at # "idle", ~(pc = "c_ack" /\ v = seen.winner)
                   PROVE  FALSE
          OBVIOUS
      <4>1. Work!Holds(v)
            BY <3>1 DEF FairLease
      <4>2. job.state = "LEASED" /\ job.owner = v /\ worker[v].up
            BY <3>1, <4>1 DEF Work!Holds, FairLease
      <4>3. CASE pc \in {"c_ack", "c_loser"} /\ job.count = 1
            BY <4>2, <4>3 DEF WorkFair, FairRace
      <4>4. CASE pc = "c_final" /\ w = Work!Other(seen.winner)
        <5>1. seen.winner \in Work!Workers /\ ~worker[seen.winner].up
              BY <4>4 DEF WorkFair, FairRace
        <5> QED  BY <2>2, <4>2, <4>4, <5>1, WorkTwo
      <4>5. CASE pc = "a_final" /\ w = "worker-b"
            BY <2>2, <4>2, <4>5, WorkTwo DEF WorkFair, FairCrash
      <4> QED  BY <1>4, <4>2, <4>3, <4>4, <4>5
    <3> QED  BY <1>1, <1>7, <2>2, <3>1, <3>2 DEF FairLease
  <2> QED  BY <1>1, <1>8, <2>1, <2>2 DEF FairLeases
<1>10. FairPhases'
  <2>1. pc \notin AllDown \cup JobDone \cup {"c_start", "r_verdict", "done", "r_recreate"}
        BY <1>1, <1>4 DEF WorkFair, FairPhases, JobDone, AllDown
  <2>2. pc = "r_retrywait" => job.count = 0
        BY <1>4 DEF WorkFair, FairPhases
  <2>3. pc \notin {"r_verdict", "done", "r_recreate", "c_start"} \cup JobDone \cup AllDown
        BY <2>1
  <2>4. pc' \in AllUp => \A v \in Work!Workers : worker'[v].up /\ worker'[v].fp = ""
        BY <1>14, <1>15 DEF WorkFair, FairPhases
  <2>5. /\ pc \in {"r_wait", "r_ready", "r_resumed"} => job.mode = "signal"
        /\ pc \in {"r_retrywait", "r_recreate", "r_failed"} => job.mode = "retry"
        /\ pc = "t_error" => job.mode = "error"
        /\ pc = "t_invalid" => job.mode = "invalid"
        BY DEF WorkFair, FairPhases
  <2>6. pc' = "r_retrywait" => job'.count <= 1
        BY <1>14, <2>2
  <2>7. /\ pc' \notin {"r_verdict", "done", "r_recreate", "c_start"} \cup JobDone \cup AllDown
        /\ job'.state = "LEASED"
        /\ pc' \in {"r_wait", "r_ready", "r_resumed"} => job'.mode = "signal"
        /\ pc' \in {"r_retrywait", "r_recreate", "r_failed"} => job'.mode = "retry"
        /\ pc' = "t_error" => job'.mode = "error"
        /\ pc' = "t_invalid" => job'.mode = "invalid"
        BY <1>14, <2>3, <2>5
  <2> QED  BY <2>4, <2>6, <2>7 DEF FairPhases
<1>11. FairRace'
  <2>1. pc \notin Raced
    <3>1. pc \in Raced => job.state = "LEASED"
          BY DEF WorkFair, FairRace
    <3> QED  BY <1>4, <3>1 DEF Raced
  <2>2. pc = "c_claim" => job.count = 0
        BY <1>4 DEF WorkFair, FairRace
  <2>3. pc \in {"c_ack", "c_loser", "c_final"} =>
           /\ seen.winner \in Work!Workers /\ w = Work!Other(seen.winner) /\ w # seen.winner
           /\ worker'[seen.winner] = worker[seen.winner]
           /\ pc = "c_final" => job.count = 2
           /\ pc # "c_final" => job.count = 1
    <3>1. pc \in {"c_ack", "c_loser", "c_final"} => job.state = "LEASED" \/ job.state = "SUCCEEDED"
          BY DEF WorkFair, FairRace
    <3>2. pc \in {"c_ack", "c_loser", "c_final"} => seen.winner \in Work!Workers
          BY DEF WorkFair, FairRace
    <3> QED  BY <1>3, <1>4, <3>1, <3>2, WorkTwo
  <2>4. pc' \in {"c_claim", "c_ack", "c_loser"} \cup Raced =>
          \A v \in Work!Workers : worker'[v].up => worker'[v].fp = "after_job_claim"
        BY <1>14, <1>15 DEF WorkFair, FairRace
  <2>5. pc' = "c_claim" => /\ \A v \in Work!Workers : worker'[v].up
                           /\ job'.state \in {"READY", "LEASED"} /\ job'.count <= 1
        BY <1>1, <1>3, <2>2 DEF WorkFair, FairRace
  <2>6. pc' \in {"c_ack", "c_loser"} =>
          /\ worker'[Work!Other(seen.winner)].up /\ job'.count = 2 /\ job'.owner = Work!Other(seen.winner)
        BY <1>1, <1>3, <2>3
  <2>7. pc = "c_ack" => worker'[seen.winner].up /\ worker'[seen.winner].at = "claimed"
        BY <2>3 DEF WorkFair, FairRace
  <2>8. pc \in {"c_loser", "c_final"} => ~worker'[seen.winner].up
        BY <2>3 DEF WorkFair, FairRace
  <2>9. pc = "c_final" =>
          /\ worker'[Work!Other(seen.winner)].up /\ worker'[Work!Other(seen.winner)].fp = ""
          /\ job'.owner = Work!Other(seen.winner) /\ job'.count = 3
    <3>1. pc = "c_final" => worker[w].up /\ worker[w].fp = "" /\ job.count = 2 /\ w = Work!Other(seen.winner)
          BY <2>3 DEF WorkFair, FairRace
    <3>2. worker'[w].up /\ worker'[w].fp = worker[w].fp
          BY <1>1, <1>15
    <3>3. ASSUME pc = "c_final"
          PROVE  job'.count = 3 /\ job'.owner = w
      <4>1. job.count = 2
            BY <3>1, <3>3
      <4> QED  BY <1>14, <4>1
    <3> QED  BY <3>1, <3>2, <3>3
  <2>10. /\ pc \in {"c_stale", "c_restart", "c_final"} => seen.job.ver = 2
         /\ pc \in {"c_boot", "c_claim", "c_ack", "c_loser", "c_final"} \cup Raced => job.mode = "signal"
        BY DEF WorkFair, FairRace
  <2> QED  BY <1>1, <2>1, <2>3, <2>4, <2>5, <2>6, <2>7, <2>8, <2>9, <2>10 DEF FairRace
<1>12. FairCrash'
  <2>1. pc # "a_crash" /\ (pc = "a_ack" => w = "worker-a" /\ job.count = 0)
    <3>1. pc # "a_crash"
          BY <1>1 DEF WorkFair, FairPhases, AllDown
    <3>2. pc = "a_ack" => w = "worker-a" /\ job.count = 0
          BY <1>1, <1>4, WorkTwo DEF WorkFair, FairCrash
    <3> QED  BY <3>1, <3>2
  <2>2. pc = "a_final" => w = "worker-b" /\ job.count = 1
        BY <1>4 DEF WorkFair, FairCrash
  <2>3. /\ pc \in {"a_boot", "a_ack", "a_crash", "a_final"} => job.mode = "signal"
        /\ pc = "a_ack" => /\ worker["worker-a"].up /\ worker["worker-a"].fp = "after_action_before_finish"
                           /\ ~worker["worker-b"].up
        /\ pc = "a_final" => /\ ~worker["worker-a"].up
                             /\ worker["worker-b"].up /\ worker["worker-b"].fp = ""
        BY DEF WorkFair, FairCrash
  <2>4. /\ "worker-a" \in Work!Workers /\ "worker-b" \in Work!Workers
        BY WorkTwo
  <2>5. /\ pc = "a_ack" => /\ worker'["worker-a"].up /\ worker'["worker-a"].fp = "after_action_before_finish"
                           /\ ~worker'["worker-b"].up /\ job'.owner = "worker-a" /\ job'.count = 1
        /\ pc = "a_final" => /\ ~worker'["worker-a"].up /\ job'.owner = "worker-b" /\ job'.count = 2
                             /\ worker'["worker-b"].up /\ worker'["worker-b"].fp = ""
    <3>1. /\ pc = "a_ack" => job'.owner = "worker-a" /\ job'.count = 1
          /\ pc = "a_final" => job'.owner = "worker-b" /\ job'.count = 2
          BY <1>14, <2>1, <2>2
    <3>2. \A v \in {"worker-a", "worker-b"} : (worker'[v].up <=> worker[v].up) /\ worker'[v].fp = worker[v].fp
          BY <1>15, <2>4
    <3> QED  BY <2>3, <3>1, <3>2
  <2> QED  BY <1>14, <2>1, <2>3, <2>5 DEF FairCrash
<1>13. FairSeen' /\ \A c \in Work!Checks : result'[c] # "failed"
       BY <1>1 DEF WorkFair, FairSeen
<1> QED
    BY <1>5, <1>6, <1>9, <1>10, <1>11, <1>12, <1>13 DEF WorkFair

\* A worker that goes on is not one that the checker holds: it has the lease, and in time.
LEMMA JobFree ==
    ASSUME WInv, WShow, WorkFair, NEW w \in Work!Workers, worker[w].up, worker[w].at # "idle",
           ~Work!Paused(w)
    PROVE  /\ Work!Holds(w) /\ job.state = "LEASED" /\ job.owner = w /\ ~due
           /\ pc \in {"r_wait", "r_resumed", "r_retrywait", "r_failed", "t_error", "t_invalid", "a_ack",
                      "c_final", "a_final"}
           /\ pc = "a_ack" => worker[w].at = "claimed"
           /\ pc = "a_final" => w = "worker-b" /\ job.count = 2
           /\ pc = "c_final" => w = Work!Other(seen.winner) /\ job.count = 3
           /\ \A v \in Work!Workers : v # w => worker[v].at = "idle" /\ worker[v].ver = 0
<1>1. /\ pc \notin Held \cup {"c_boot", "a_boot", "a_crash"}
      /\ pc = "a_ack" => worker[w].at = "claimed"
      /\ pc = "a_final" => w = "worker-b"
      BY WorkFree
<1>2. pc # "c_ack" /\ pc # "c_claim" /\ pc # "c_loser" /\ pc \notin Raced
      BY <1>1 DEF Held, Claiming, Raced
<1>3. Work!Holds(w) /\ ~due
      BY <1>2 DEF WorkFair, FairLeases, FairLease
<1>4. job.state = "LEASED" /\ job.owner = w
      BY <1>3 DEF Work!Holds
<1>5. pc \notin JobDone \cup AllDown \cup {"c_start", "r_recreate", "r_verdict", "done"}
      BY <1>1, <1>4 DEF WorkFair, FairPhases, AllDown
<1>6. pc \in Concurrency \cup Recovery \cup Resilience \cup {"c_restore", "a_restore", "done"}
      BY JobTypes
<1>7. pc \in {"r_wait", "r_resumed", "r_retrywait", "r_failed", "t_error", "t_invalid", "a_ack",
              "c_final", "a_final"}
      BY <1>1, <1>2, <1>5, <1>6 DEF JobDone, AllDown, Concurrency, Recovery, Resilience, Raced
<1>8. pc = "a_final" => job.count = 2
      BY <1>1, <1>4 DEF WorkFair, FairCrash
<1>9. pc = "c_final" => w = Work!Other(seen.winner) /\ job.count = 3
      BY <1>4 DEF WorkFair, FairRace
<1>10. \A v \in Work!Workers : v # w => worker[v].at = "idle" /\ worker[v].ver = 0
       BY <1>2, <1>4 DEF WorkFair, FairLeases, FairLease, Work!Holds
<1> QED
    BY <1>1, <1>3, <1>4, <1>7, <1>8, <1>9, <1>10

LEMMA JobActs ==
    ASSUME WInv, WShow, WorkFair, faults = {}, NEW w \in Work!Workers, Work!Act(w)
    PROVE  WorkFair'
<1>1. /\ worker[w].up /\ worker[w].at = "claimed" /\ ~Work!Paused(w)
      /\ Work!At(w, "acted", worker[w].ver)
      /\ UNCHANGED <<job, due, attempts, waiting, faults, pc, seen, result>>
      /\ effects' = effects + 0 /\ dispatches' = dispatches + 0
      BY DEF Work!Act, Work!Unseen, Work!Has
<1>2. effects' = effects /\ dispatches' = dispatches
      BY <1>1 DEF WShow, WorkCounts
<1>3. /\ Work!Holds(w) /\ job.state = "LEASED" /\ job.owner = w /\ ~due
      /\ pc \in {"r_wait", "r_resumed", "r_retrywait", "r_failed", "t_error", "t_invalid", "a_ack",
                 "c_final", "a_final"}
      /\ pc = "c_final" => w = Work!Other(seen.winner) /\ job.count = 3
      BY <1>1, JobFree
<1>4. /\ worker'[w].at = "acted" /\ worker'[w].ver = worker[w].ver /\ worker'[w].up
      /\ acks'[w] = IF Work!Paused(w)' THEN 1 ELSE 0
      /\ \A v \in Work!Workers : /\ v # w => worker'[v] = worker[v] /\ acks'[v] = acks[v]
                                 /\ worker'[v].up = worker[v].up /\ worker'[v].fp = worker[v].fp
  <2> DEFINE ver == worker[w].ver
  <2>1. Work!At(w, "acted", ver)
        BY <1>1
  <2> HIDE DEF ver
  <2> QED  BY <1>1, <2>1, JobMoves DEF ver
<1>5. FairAttempts' /\ FairOutcome' /\ FairSeen' /\ \A c \in Work!Checks : result'[c] # "failed"
      BY <1>1, <1>2 DEF WorkFair, FairAttempts, FairOutcome, FairSeen
<1>6. \A v \in Work!Workers : Work!Holds(v)' <=> Work!Holds(v)
      BY <1>1, <1>4 DEF Work!Holds
<1>7. FairLeases'
  <2>1. FairLease(w)'
        BY <1>1, <1>3, <1>4, <1>6 DEF FairLease
  <2>2. ASSUME NEW v \in Work!Workers, v # w
        PROVE  FairLease(v)'
    <3>1. worker'[v] = worker[v] /\ acks'[v] = acks[v] /\ (Work!Paused(v)' <=> Work!Paused(v)) /\ FairLease(v)
          BY <1>4, <2>2 DEF Work!Paused, WorkFair, FairLeases
    <3> QED  BY <1>1, <1>6, <3>1 DEF FairLease
  <2>3. Work!Holds(job.owner)'
        BY <1>1, <1>3, <1>4 DEF Work!Holds
  <2>4. ~due'
        BY <1>1, <1>3
  <2> QED  BY <1>1, <2>1, <2>2, <2>3, <2>4 DEF FairLeases
<1>8. \A v \in Work!Workers : (worker'[v].up <=> worker[v].up) /\ worker'[v].fp = worker[v].fp
      BY <1>4
<1>9. pc' = pc /\ job' = job /\ seen' = seen
      BY <1>1
<1>10. FairPhases' /\ FairCrash'
       BY <1>8, <1>9, WorkTwo, ZenonT(40) DEF WorkFair, FairPhases, FairCrash
<1>11. FairRace'
  <2>1. pc \notin {"c_claim", "c_ack", "c_loser", "c_boot", "c_stale", "c_restart"} \cup Raced
        BY <1>3 DEF Raced
  <2>2. ASSUME pc = "c_final"
        PROVE  /\ seen.winner \in Work!Workers /\ ~worker'[seen.winner].up
               /\ worker'[Work!Other(seen.winner)].up /\ worker'[Work!Other(seen.winner)].fp = ""
    <3>1. /\ seen.winner \in Work!Workers /\ ~worker[seen.winner].up
          /\ worker[Work!Other(seen.winner)].up /\ worker[Work!Other(seen.winner)].fp = ""
          BY <2>2 DEF WorkFair, FairRace
    <3> QED  BY <1>8, <3>1, WorkTwo
  <2>3. pc = "c_final" => /\ job.owner = Work!Other(seen.winner) /\ seen.job.ver = 2 /\ job.mode = "signal"
                          /\ job.state = "LEASED" /\ job.count = 3
        BY <1>3 DEF WorkFair, FairRace
  <2> QED  BY <1>9, <2>1, <2>2, <2>3 DEF FairRace
<1> QED
    BY <1>5, <1>7, <1>10, <1>11 DEF WorkFair

\* The last attempt ends.
LEMMA JobEnds ==
    ASSUME WInv, WShow, WorkFair, NEW st \in {"FAILED", "SUCCEEDED"}, Work!End(st),
           job.state = "LEASED", job'.count = job.count, job'.ver = job.ver, job'.id = job.id,
           job'.exec = job.exec, job'.mode = job.mode,
           \/ st = "SUCCEEDED" /\ job'.state = "SUCCEEDED"
           \/ st = "FAILED" /\ job'.state \in {"RETRY_WAIT", "DEAD"}
    PROVE  FairAttempts'
<1> DEFINE n == job.count
<1>1. attempts \in Seq(AttemptSchema) /\ n \in Nat
      BY JobTypes
<1>2. /\ Len(attempts) = n /\ n # 0
      /\ \A i \in 1..n :
            /\ attempts[i].id = 0 /\ attempts[i].exec = 0 /\ attempts[i].ver = i
            /\ i # n => attempts[i].status = IF job.mode = "signal" THEN "STALE" ELSE "FAILED"
      BY DEF WorkFair, FairAttempts
<1>3. attempts' = [attempts EXCEPT ![n].status = st]
      BY <1>2 DEF Work!End
<1>4. \A i \in 1..n : attempts[i] \in AttemptSchema
      BY <1>1, <1>2
<1>5. \A i \in 1..n : attempts'[i] = IF i = n THEN [attempts[i] EXCEPT !.status = st] ELSE attempts[i]
      BY <1>1, <1>2, <1>3
<1>6. \A r \in AttemptSchema : LET x == [r EXCEPT !.status = st]
                              IN x.id = r.id /\ x.exec = r.exec /\ x.ver = r.ver /\ x.status = st
      BY DEF AttemptSchema
<1>7. ASSUME NEW i \in 1..n
      PROVE  /\ attempts'[i].id = 0 /\ attempts'[i].exec = 0 /\ attempts'[i].ver = i
             /\ attempts'[i].status = IF i = n THEN st ELSE attempts[i].status
  <2> DEFINE r == attempts[i]
  <2>1. r \in AttemptSchema /\ r.id = 0 /\ r.exec = 0 /\ r.ver = i
        BY <1>2, <1>4
  <2>2. attempts'[i] = IF i = n THEN [r EXCEPT !.status = st] ELSE r
        BY <1>5
  <2> HIDE DEF r
  <2>3. CASE i = n
        BY <1>6, <2>1, <2>2, <2>3
  <2>4. CASE i # n
        BY <2>1, <2>2, <2>4 DEF r
  <2> QED  BY <2>3, <2>4
<1>8. Len(attempts') = n
      BY <1>1, <1>2, WorkAttempts DEF Work!End
<1>9. n \in 1..n
      BY <1>1, <1>2
<1>10. attempts'[n].status = st
       BY <1>7, <1>9
<1>11. job.id = 0 /\ job.exec = 0 /\ job.ver = job.count
       BY DEF WorkFair, FairAttempts
<1>12. \A i \in 1..n : i # n => attempts'[i].status = IF job.mode = "signal" THEN "STALE" ELSE "FAILED"
       BY <1>2, <1>7
<1> HIDE DEF n
<1>13. job'.count = n
       BY DEF n
<1> QED
    BY <1>2, <1>7, <1>8, <1>10, <1>11, <1>12, <1>13 DEF FairAttempts

\* A worker that has ended the attempt is idle, and so is the other one.
LEMMA JobLets ==
    ASSUME WInv, WShow, WorkFair, NEW w \in Work!Workers, worker[w].up, worker[w].at # "idle",
           ~Work!Paused(w), Work!At(w, "idle", 0), job'.state # "LEASED", ~due'
    PROVE  /\ FairLeases'
           /\ \A v \in Work!Workers : (worker'[v].up <=> worker[v].up) /\ worker'[v].fp = worker[v].fp
<1>1. /\ worker'[w].at = "idle" /\ worker'[w].ver = 0 /\ worker'[w].up
      /\ acks'[w] = IF Work!Paused(w)' THEN 1 ELSE 0
      /\ \A v \in Work!Workers : /\ v # w => worker'[v] = worker[v] /\ acks'[v] = acks[v]
                                 /\ worker'[v].up = worker[v].up /\ worker'[v].fp = worker[v].fp
  <2> DEFINE zero == 0
  <2>1. Work!At(w, "idle", zero)
        OBVIOUS
  <2> HIDE DEF zero
  <2> QED  BY <2>1, JobMoves DEF zero
<1>2. \A v \in Work!Workers : v # w => worker[v].at = "idle" /\ worker[v].ver = 0
      BY JobFree
<1>3. \A v \in Work!Workers : ~Work!Holds(v)'
      BY DEF Work!Holds
<1>4. FairLease(w)'
      BY <1>1, <1>3 DEF FairLease
<1>5. ASSUME NEW v \in Work!Workers, v # w
      PROVE  FairLease(v)'
  <2>1. worker'[v] = worker[v] /\ acks'[v] = acks[v] /\ (Work!Paused(v)' <=> Work!Paused(v)) /\ FairLease(v)
        BY <1>1, <1>5 DEF Work!Paused, WorkFair, FairLeases
  <2> QED  BY <1>2, <1>3, <1>5, <2>1 DEF FairLease
<1>6. FairLeases'
      BY <1>4, <1>5 DEF FairLeases
<1> QED
    BY <1>1, <1>6

LEMMA JobFinishes ==
    ASSUME WInv, WShow, WorkFair, faults = {}, NEW w \in Work!Workers, Work!Finish(w)
    PROVE  WorkFair'
<1>1. /\ worker[w].up /\ worker[w].at = "acted" /\ ~Work!Paused(w)
      BY DEF Work!Finish
<1>2. /\ Work!Holds(w) /\ job.state = "LEASED" /\ job.owner = w /\ ~due
      /\ pc \in {"r_wait", "r_resumed", "r_retrywait", "r_failed", "t_error", "t_invalid", "c_final", "a_final"}
      /\ pc = "c_final" => w = Work!Other(seen.winner) /\ job.count = 3
      BY <1>1, JobFree
<1>3. /\ Work!Accepted /\ Work!At(w, "idle", 0) /\ job' = [job EXCEPT !.state = "SUCCEEDED"]
      /\ Work!End("SUCCEEDED") /\ effects' = effects + 1 /\ dispatches' = dispatches + 1
      /\ UNCHANGED <<due, waiting, faults, pc, seen, result>>
      BY <1>2 DEF Work!Finish, Work!Unseen, Work!Has
<1>4. job \in JobSchema
      BY JobTypes
<1>5. /\ job'.state = "SUCCEEDED" /\ job'.count = job.count /\ job'.ver = job.ver /\ job'.id = job.id
      /\ job'.exec = job.exec /\ job'.mode = job.mode /\ job'.owner = job.owner
      BY <1>3, <1>4 DEF JobSchema
<1>6. job.mode = "signal"
      BY <1>3 DEF Work!Accepted, Work!Has
<1>7. FairAttempts'
      BY <1>2, <1>3, <1>5, JobEnds
<1>8. FairOutcome'
  <2>1. effects' = 1 /\ dispatches' = 1
    <3>1. effects = 0 /\ dispatches = 0
          BY <1>2 DEF WorkFair, FairOutcome
    <3> QED  BY <1>3, <3>1
  <2> QED  BY <1>5, <1>6, <2>1 DEF FairOutcome
<1>9. /\ FairLeases'
      /\ \A v \in Work!Workers : (worker'[v].up <=> worker[v].up) /\ worker'[v].fp = worker[v].fp
      BY <1>1, <1>2, <1>3, <1>5, JobLets
<1>10. pc \in {"r_wait", "r_resumed", "c_final", "a_final"}
       BY <1>2, <1>6 DEF WorkFair, FairPhases
<1>11. FairSeen' /\ \A c \in Work!Checks : result'[c] # "failed"
       BY <1>3 DEF WorkFair, FairSeen
<1>12. pc' = pc /\ seen' = seen
       BY <1>3
<1>13. FairPhases'
  <2>1. pc \in AllUp => \A v \in Work!Workers : worker'[v].up /\ worker'[v].fp = ""
        BY <1>9 DEF WorkFair, FairPhases
  <2> QED  BY <1>5, <1>6, <1>10, <1>12, <2>1 DEF FairPhases, AllDown, JobDone
<1>14. FairRace'
  <2>1. ASSUME pc = "c_final"
        PROVE  /\ seen.winner \in Work!Workers /\ ~worker'[seen.winner].up
               /\ worker'[Work!Other(seen.winner)].up /\ worker'[Work!Other(seen.winner)].fp = ""
    <3>1. /\ seen.winner \in Work!Workers /\ ~worker[seen.winner].up
          /\ worker[Work!Other(seen.winner)].up /\ worker[Work!Other(seen.winner)].fp = ""
          BY <2>1 DEF WorkFair, FairRace
    <3> QED  BY <1>9, <3>1, WorkTwo
  <2>2. pc = "c_final" => /\ job.owner = Work!Other(seen.winner) /\ seen.job.ver = 2 /\ job.count = 3
        BY <1>2 DEF WorkFair, FairRace
  <2> QED  BY <1>5, <1>6, <1>10, <1>12, <2>1, <2>2 DEF FairRace, Raced
<1>15. FairCrash'
  <2>1. ASSUME pc = "a_final"
        PROVE  ~worker'["worker-a"].up /\ worker'["worker-b"].up /\ worker'["worker-b"].fp = ""
    <3>1. ~worker["worker-a"].up /\ worker["worker-b"].up /\ worker["worker-b"].fp = ""
          BY <2>1 DEF WorkFair, FairCrash
    <3> QED  BY <1>9, <3>1, WorkTwo
  <2> QED  BY <1>5, <1>6, <1>10, <1>12, <2>1 DEF FairCrash
<1> QED
    BY <1>7, <1>8, <1>9, <1>11, <1>13, <1>14, <1>15 DEF WorkFair

LEMMA JobFails ==
    ASSUME WInv, WShow, WorkFair, faults = {}, NEW w \in Work!Workers, Work!Fail(w)
    PROVE  WorkFair'
<1>1. /\ worker[w].up /\ worker[w].at = "acted" /\ ~Work!Paused(w)
      BY DEF Work!Fail
<1>2. /\ Work!Holds(w) /\ job.state = "LEASED" /\ job.owner = w /\ ~due
      /\ pc \in {"r_wait", "r_resumed", "r_retrywait", "r_failed", "t_error", "t_invalid", "c_final", "a_final"}
      BY <1>1, JobFree
<1> DEFINE next == IF job.mode = "retry" /\ job.count < 3 THEN "RETRY_WAIT" ELSE "DEAD"
<1>3. /\ ~Work!Accepted /\ Work!At(w, "idle", 0) /\ job' = [job EXCEPT !.state = next]
      /\ Work!End("FAILED") /\ effects' = effects + 0 /\ due' = FALSE
      /\ UNCHANGED <<dispatches, waiting, faults, pc, seen, result>>
      BY <1>2 DEF Work!Fail, Work!Unseen, Work!Has, Work!Retryable, Work!MaxAttempts
<1>4. job \in JobSchema /\ job.count \in Nat
      BY JobTypes
<1>5. /\ job'.state = next /\ job'.count = job.count /\ job'.ver = job.ver /\ job'.id = job.id
      /\ job'.exec = job.exec /\ job'.mode = job.mode /\ job'.owner = job.owner
  <2> HIDE DEF next
  <2> QED  BY <1>3, <1>4 DEF JobSchema
<1>6. job.mode # "signal"
      BY <1>3 DEF Work!Accepted, Work!Has
<1>7. FairAttempts'
      BY <1>2, <1>3, <1>5, JobEnds
<1>8. job.count # 0 /\ job.count <= 3 /\ (job.mode \in {"error", "invalid"} => job.count <= 1)
      /\ job.mode \in {"retry", "error", "invalid"}
  <2>1. job.mode \in {"signal", "retry", "error", "invalid"}
        BY <1>4 DEF JobSchema
  <2> QED  BY <1>2, <1>4, <1>6, <2>1 DEF WorkFair, FairAttempts, FairOutcome
<1>9. FairOutcome'
  <2>1. effects' = 0 /\ dispatches' = 0
    <3>1. effects = 0 /\ dispatches = 0
          BY <1>2 DEF WorkFair, FairOutcome
    <3> QED  BY <1>3, <3>1
  <2>2. job'.state = "DEAD" => job.count = (IF job.mode = "retry" THEN 3 ELSE 1)
        BY <1>4, <1>5, <1>8
  <2>3. job'.state \in {"RETRY_WAIT", "DEAD"} /\ (job'.state = "RETRY_WAIT" => job.mode = "retry" /\ job.count < 3)
        BY <1>5
  <2> HIDE DEF next
  <2> QED  BY <1>5, <1>6, <1>8, <2>1, <2>2, <2>3 DEF FairOutcome
<1>10. /\ FairLeases'
       /\ \A v \in Work!Workers : (worker'[v].up <=> worker[v].up) /\ worker'[v].fp = worker[v].fp
       BY <1>1, <1>3, <1>5, JobLets
<1>11. pc \in {"r_retrywait", "r_failed", "t_error", "t_invalid"}
       BY <1>2, <1>6 DEF WorkFair, FairPhases, FairRace, FairCrash
<1>12. FairSeen' /\ \A c \in Work!Checks : result'[c] # "failed"
       BY <1>3 DEF WorkFair, FairSeen
<1>13. pc' = pc /\ seen' = seen
       BY <1>3
<1>14. FairPhases'
  <2>1. \A v \in Work!Workers : worker'[v].up /\ worker'[v].fp = ""
        BY <1>10, <1>11 DEF WorkFair, FairPhases, AllUp
  <2>2. /\ pc \in {"r_retrywait", "r_failed"} => job.mode = "retry"
        /\ pc = "t_error" => job.mode = "error"
        /\ pc = "t_invalid" => job.mode = "invalid"
        /\ pc = "r_retrywait" => job.count <= 1
        BY DEF WorkFair, FairPhases
  <2>3. /\ pc = "r_retrywait" => job'.state = "RETRY_WAIT"
        /\ pc \in {"t_error", "t_invalid"} => job'.state = "DEAD"
        /\ job'.state \in {"RETRY_WAIT", "DEAD"}
        BY <1>4, <1>5, <2>2
  <2> HIDE DEF next
  <2> QED  BY <1>5, <1>11, <1>13, <2>1, <2>2, <2>3 DEF FairPhases, AllDown, JobDone
<1>15. FairRace' /\ FairCrash'
       BY <1>11, <1>13 DEF FairRace, FairCrash, Raced
<1> QED
    BY <1>7, <1>9, <1>10, <1>12, <1>14, <1>15 DEF WorkFair

LEMMA JobWaits ==
    ASSUME WInv, WShow, WorkFair, Work!TimePasses, ~late'
    PROVE  WorkFair'
<1>1. /\ ~Work!Hurried /\ ~Work!Alive /\ due' = TRUE /\ job.state # "READY"
      /\ UNCHANGED <<job, attempts, effects, dispatches, waiting, worker, acks, pc, seen, result>>
      BY DEF Work!TimePasses, Work!Unseen
<1>2. FairAttempts' /\ FairOutcome' /\ FairSeen' /\ \A c \in Work!Checks : result'[c] # "failed"
      BY <1>1 DEF WorkFair, FairAttempts, FairOutcome, FairSeen
<1>3. \A w \in Work!Workers : Work!Holds(w) => Work!Paused(w)
      BY <1>1, JobHolder DEF Work!Alive
<1>4. FairLeases'
  <2>1. ASSUME NEW w \in Work!Workers
        PROVE  FairLease(w)'
    <3>1. (Work!Holds(w)' <=> Work!Holds(w)) /\ (Work!Paused(w)' <=> Work!Paused(w)) /\ FairLease(w)
          BY <1>1 DEF Work!Holds, Work!Paused, WorkFair, FairLeases
    <3> QED  BY <1>1, <1>3, <3>1 DEF FairLease
  <2>2. (job'.state = "LEASED" => Orphaned' \/ Work!Holds(job.owner)') /\ ~Work!Hurried'
        BY <1>1 DEF WorkFair, FairLeases, Orphaned, Work!Holds, Work!Hurried
  <2> QED  BY <1>1, <2>1, <2>2 DEF FairLeases
<1>5. FairPhases' /\ FairCrash'
      BY <1>1 DEF WorkFair, FairPhases, FairCrash
<1>6. FairRace'
      BY <1>1 DEF WorkFair, FairRace
<1> QED
    BY <1>2, <1>4, <1>5, <1>6 DEF WorkFair

\* A worker that is idle finds a job that is not over, or its lease or delay still runs; one that is
\* not held goes on.
LEMMA JobBusy ==
    ASSUME faults = {}, NEW w \in Work!Workers, worker[w].up, due \in BOOLEAN,
           \/ /\ worker[w].at = "idle" /\ job.state \in {"READY", "LEASED", "RETRY_WAIT"}
              /\ job.count < WorkerClaims
           \/ worker[w].at # "idle" /\ ~Work!Paused(w)
    PROVE  Work!Busy
<1>1. CASE worker[w].at # "idle" /\ ~Work!Paused(w)
      BY <1>1 DEF Work!Busy
<1>2. CASE worker[w].at = "idle" /\ job.state \in {"READY", "LEASED", "RETRY_WAIT"} /\ job.count < WorkerClaims
  <2>1. CASE job.state = "READY" \/ due
    <3>1. Work!Claimable
          BY <1>2, <2>1 DEF Work!Claimable, Work!Reclaim, Work!Has
    <3> QED  BY <1>2, <3>1 DEF Work!Busy
  <2>2. CASE job.state \in {"LEASED", "RETRY_WAIT"} /\ ~due
        BY <2>2 DEF Work!Busy
  <2> QED  BY <1>2, <2>1, <2>2
<1> QED
    BY <1>1, <1>2

\* What the checker waits for is there, or a worker is on its way to it.
LEMMA JobPolls ==
    ASSUME WInv, WShow, WorkFair, faults = {}, WorkerClaims >= 3
    PROVE  /\ pc = "c_claim" => Work!FirstClaim \/ Work!Busy
           /\ pc = "c_ack" => acks[seen.winner] = 1
           /\ pc = "c_loser" => LET n == acks[Work!Other(seen.winner)]
                                IN (n = 1 /\ job.count = 2) \/ (n = 0 /\ Work!Busy)
           /\ pc = "c_reclaim" => Work!SecondClaim
           /\ pc = "a_ack" => (acks["worker-a"] = 1 /\ job.state = "LEASED") \/ (acks["worker-a"] = 0 /\ Work!Busy)
           /\ pc \in {"c_final", "a_final", "r_wait", "r_resumed"} => job.state = "SUCCEEDED" \/ Work!Busy
           /\ pc = "r_retrywait" => job.state = "RETRY_WAIT" \/ Work!Busy
           /\ pc \in {"r_failed", "t_error", "t_invalid"} => job.state = "DEAD" \/ Work!Busy
<1>1. /\ job.count \in Nat /\ due \in BOOLEAN /\ WorkerClaims \in Nat
      /\ \A w \in Work!Workers : worker[w].at \in {"idle", "claimed", "acted"}
      BY JobTypes, ClaimBounds
<1>2. "worker-a" \in Work!Workers /\ "worker-b" \in Work!Workers
      BY WorkTwo
<1>3. ASSUME pc \in AllUp, job.state \in {"READY", "LEASED", "RETRY_WAIT"}
      PROVE  Work!Busy
  <2>1. \A w \in Work!Workers : worker[w].up /\ ~Work!Paused(w)
        BY <1>3 DEF WorkFair, FairPhases, Work!Paused
  <2>2. CASE job.state = "READY"
    <3>1. worker["worker-a"].at = "idle" /\ job.count = 0
      <4>1. pc # "c_ack"
            BY <1>3 DEF AllUp
      <4> QED  BY <1>2, <2>2, <4>1, JobHolder DEF WorkFair, FairAttempts
    <3> QED  BY <1>1, <1>2, <2>1, <2>2, <3>1, JobBusy
  <2>3. CASE job.state = "LEASED"
    <3>1. job.owner \in Work!Workers /\ Work!Holds(job.owner)
          BY <1>3, <2>3 DEF WShow, WorkFresh, WorkFair, FairLeases, Orphaned, AllUp
    <3>2. PICK w \in Work!Workers : w = job.owner
          BY <3>1
    <3>3. worker[w].at # "idle"
          BY <3>1, <3>2, JobHolder
    <3> QED  BY <1>1, <2>1, <3>3, JobBusy
  <2>4. CASE job.state = "RETRY_WAIT"
    <3>1. worker["worker-a"].at = "idle" /\ job.count < WorkerClaims
      <4>1. pc # "c_ack" /\ job.count < 3
            BY <1>3, <2>4 DEF AllUp, WorkFair, FairOutcome
      <4> QED  BY <1>1, <1>2, <2>4, <4>1, JobHolder
    <3> QED  BY <1>1, <1>2, <2>1, <2>4, <3>1, JobBusy
  <2> QED  BY <1>3, <2>2, <2>3, <2>4
<1>4. ASSUME pc = "c_claim"
      PROVE  Work!FirstClaim \/ Work!Busy
  <2>1. worker["worker-a"].up /\ job.state \in {"READY", "LEASED"} /\ job.count <= 1
        BY <1>2, <1>4 DEF WorkFair, FairRace
  <2>2. CASE job.state = "LEASED"
    <3>1. job.count = 1
          BY <1>1, <2>1, <2>2 DEF WorkFair, FairAttempts
    <3> QED  BY <2>2, <3>1 DEF WShow, WorkFresh, Work!FirstClaim
  <2>3. CASE job.state = "READY"
    <3>1. worker["worker-a"].at = "idle" /\ job.count = 0
          BY <1>2, <1>4, <2>3, JobHolder DEF WorkFair, FairAttempts
    <3> QED  BY <1>1, <1>2, <2>1, <2>3, <3>1, JobBusy
  <2> QED  BY <2>1, <2>2, <2>3
<1>5. ASSUME pc = "c_ack"
      PROVE  acks[seen.winner] = 1
  <2>1. PICK w \in Work!Workers : w = seen.winner
        BY <1>5 DEF WorkFair, FairRace
  <2>2. worker[w].up /\ worker[w].at = "claimed" /\ worker[w].fp = "after_job_claim"
        BY <1>5, <2>1 DEF WorkFair, FairRace
  <2> QED  BY <2>1, <2>2 DEF Work!Paused, WorkFair, FairLeases, FairLease
<1>6. ASSUME pc \in {"c_loser"} \cup Raced
      PROVE  LET n == acks[Work!Other(seen.winner)]
             IN (n = 1 /\ job.count = 2) \/ (pc = "c_loser" /\ n = 0 /\ Work!Busy)
  <2>1. PICK w \in Work!Workers : w = Work!Other(seen.winner)
        BY <1>6, WorkTwo DEF WorkFair, FairRace
  <2>2. /\ worker[w].up /\ worker[w].fp = "after_job_claim" /\ job.state = "LEASED"
        /\ seen.winner \in Work!Workers /\ w # seen.winner
        /\ (job.count = 1 /\ job.owner = seen.winner /\ pc \notin Raced) \/ (job.count = 2 /\ job.owner = w)
    <3>1. seen.winner \in Work!Workers
          BY <1>6 DEF WorkFair, FairRace
    <3> QED  BY <1>6, <2>1, <3>1, WorkTwo DEF WorkFair, FairRace
  <2>3. FairLease(w)
        BY DEF WorkFair, FairLeases
  <2>4. CASE job.count = 1 /\ job.owner = seen.winner /\ pc \notin Raced
    <3>1. worker[w].at = "idle"
          BY <1>6, <2>2, <2>3, <2>4 DEF FairLease, Work!Holds, Raced
    <3>2. acks[w] = 0
          BY <2>2, <2>3, <3>1 DEF FairLease, Work!Paused
    <3>3. Work!Busy
      <4>1. job.count < WorkerClaims
            BY <1>1, <2>4
      <4> QED  BY <1>1, <2>2, <3>1, <4>1, JobBusy
    <3> QED  BY <1>6, <2>1, <2>4, <3>2, <3>3
  <2>5. CASE job.count = 2 /\ job.owner = w
    <3>1. Work!Holds(w)
          BY <1>6, <2>2, <2>5 DEF WorkFair, FairLeases, Orphaned, Raced
    <3>2. worker[w].at = "claimed"
          BY <1>1, <1>6, <3>1, JobHolder DEF WShow, WorkHeld, Held, Claiming, Raced
    <3>3. Work!Paused(w)
          BY <2>2, <3>2 DEF Work!Paused
    <3>4. acks[w] = 1
          BY <2>2, <2>3, <3>3 DEF FairLease
    <3> QED  BY <2>1, <2>5, <3>4
  <2> QED  BY <2>2, <2>4, <2>5
<1>7. ASSUME pc = "c_reclaim"
      PROVE  Work!SecondClaim
      BY <1>7 DEF WorkFair, FairRace, Raced, Work!SecondClaim
<1>8. ASSUME pc = "a_ack"
      PROVE  (acks["worker-a"] = 1 /\ job.state = "LEASED") \/ (acks["worker-a"] = 0 /\ Work!Busy)
  <2> DEFINE w == "worker-a"
  <2>1. /\ worker[w].up /\ worker[w].fp = "after_action_before_finish" /\ FairLease(w)
        /\ job.state = "READY" \/ (job.state = "LEASED" /\ job.owner = w /\ job.count = 1)
        BY <1>2, <1>8 DEF WorkFair, FairCrash, FairLeases
  <2>2. CASE job.state = "READY"
    <3>1. worker[w].at = "idle" /\ job.count = 0
          BY <1>2, <1>8, <2>2, JobHolder DEF WorkFair, FairAttempts
    <3>2. Work!Busy
          BY <1>1, <1>2, <2>1, <2>2, <3>1, JobBusy
    <3> QED  BY <2>1, <3>1, <3>2 DEF FairLease, Work!Paused
  <2>3. CASE job.state = "LEASED" /\ job.owner = w /\ job.count = 1
    <3>1. Work!Holds(w) /\ worker[w].at # "idle"
          BY <1>2, <1>8, <2>3, JobHolder DEF WorkFair, FairLeases, Orphaned
    <3>2. CASE worker[w].at = "acted"
      <4>1. Work!Paused(w)
            BY <2>1, <3>2 DEF Work!Paused
      <4>2. acks[w] = 1
            BY <2>1, <4>1 DEF FairLease
      <4> QED  BY <2>3, <4>2
    <3>3. CASE worker[w].at = "claimed"
      <4>1. ~Work!Paused(w) /\ acks[w] = 0
            BY <2>1, <3>3 DEF FairLease, Work!Paused
      <4> QED  BY <1>1, <1>2, <2>1, <3>1, <4>1, JobBusy
    <3> QED  BY <1>1, <1>2, <3>1, <3>2, <3>3
  <2> QED  BY <2>1, <2>2, <2>3
<1>9. ASSUME pc \in {"c_final", "a_final"}
      PROVE  job.state = "SUCCEEDED" \/ Work!Busy
  <2>1. PICK w \in Work!Workers :
           /\ worker[w].up /\ worker[w].fp = ""
           /\ worker[w].at = "idle" /\ job.state = "LEASED" => job.count < 3
    <3>1. CASE pc = "c_final"
      <4>1. PICK w \in Work!Workers : w = Work!Other(seen.winner)
            BY <3>1, WorkTwo DEF WorkFair, FairRace
      <4>2. worker[w].up /\ worker[w].fp = "" /\ job.owner = w
            /\ job.count \in {2, 3}
            BY <3>1, <4>1 DEF WorkFair, FairRace
      <4>3. ASSUME job.state = "LEASED", worker[w].at = "idle"
            PROVE  job.count < 3
        <5>1. ~Work!Holds(job.owner)
              BY <4>2, <4>3, JobHolder
        <5>2. Orphaned
              BY <4>3, <5>1 DEF WorkFair, FairLeases
        <5>3. job.count = 2
              BY <3>1, <5>2 DEF Orphaned
        <5> QED  BY <5>3
      <4> QED  BY <4>2, <4>3
    <3>2. CASE pc = "a_final"
      <4>1. /\ worker["worker-b"].up /\ worker["worker-b"].fp = ""
            /\ job.state = "LEASED" => job.count \in {1, 2}
            BY <3>2 DEF WorkFair, FairCrash
      <4>2. ASSUME job.state = "LEASED"
            PROVE  job.count < 3
        <5>1. job.count = 1 \/ job.count = 2
              BY <4>1, <4>2
        <5> QED  BY <5>1
      <4> QED  BY <1>2, <4>1, <4>2
    <3> QED  BY <1>9, <3>1, <3>2
  <2>2. ~Work!Paused(w)
        BY <2>1 DEF Work!Paused
  <2>3. job.state \in {"LEASED", "SUCCEEDED"}
        BY <1>9 DEF WorkFair, FairRace, FairCrash
  <2>4. ASSUME worker[w].at = "idle", job.state = "LEASED"
        PROVE  job.count < WorkerClaims
    <3>1. job.count < 3
          BY <2>1, <2>4
    <3> QED  BY <1>1, <3>1
  <2> QED  BY <1>1, <2>1, <2>2, <2>3, <2>4, JobBusy
<1>10. pc \in {"r_wait", "r_resumed", "r_retrywait", "r_failed", "t_error", "t_invalid"} => pc \in AllUp
       BY DEF AllUp
<1>11. /\ pc \in {"r_wait", "r_resumed"} => job.state = "SUCCEEDED" \/ Work!Busy
       /\ pc = "r_retrywait" => job.state = "RETRY_WAIT" \/ Work!Busy
       /\ pc \in {"r_failed", "t_error", "t_invalid"} => job.state = "DEAD" \/ Work!Busy
       BY <1>3, <1>10 DEF WorkFair, FairPhases
<1> QED
    BY <1>4, <1>5, <1>6, <1>7, <1>8, <1>9, <1>11

LEMMA JobTimeout ==
    \A p : Work!PollTimeout(p) => ~p /\ (Work!Busy => late')
BY DEF Work!PollTimeout, Work!Contract

\* The containers that are replaced are idle, and their logs are empty.
LEMMA JobBoxes ==
    ASSUME NEW S, NEW box, Work!Containers(S, box)
    PROVE  \A w \in Work!Workers : /\ worker'[w] = IF w \in S THEN box ELSE worker[w]
                                   /\ acks'[w] = IF w \in S /\ box.up THEN 0 ELSE acks[w]
BY DEF Work!Containers

LEMMA JobBox ==
    /\ ~Work!Stopped.up /\ Work!Stopped.at = "idle" /\ Work!Stopped.ver = 0
    /\ \A fp : LET box == Work!Started(fp)
               IN box.up /\ box.fp = fp /\ box.at = "idle" /\ box.ver = 0
BY DEF Work!Stopped, Work!Started

\* A step of the checker leaves a worker idle, or busy with the lease that it holds.
LEMMA JobLeases ==
    ASSUME \A w \in Work!Workers :
              \/ worker'[w].at = "idle" /\ worker'[w].ver = 0 /\ (worker'[w].up => acks'[w] = 0)
              \/ /\ worker'[w] = worker[w] /\ acks'[w] = acks[w] /\ FairLease(w) /\ Work!Holds(w)
                 /\ job' = job /\ due' = due,
           FairAttempts', job'.state = "LEASED" => Orphaned' \/ Work!Holds(job.owner)',
           Work!Hurried' \/ job'.state = "READY" => ~due'
    PROVE  FairLeases'
<1>1. job'.state = "LEASED" => job'.ver # 0
      BY DEF FairAttempts
<1>2. ASSUME NEW w \in Work!Workers
      PROVE  FairLease(w)'
  <2>1. CASE worker'[w].at = "idle" /\ worker'[w].ver = 0 /\ (worker'[w].up => acks'[w] = 0)
    <3>1. ~Work!Holds(w)' /\ ~Work!Paused(w)'
          BY <1>1, <2>1 DEF Work!Holds, Work!Paused
    <3> QED  BY <2>1, <3>1 DEF FairLease
  <2>2. CASE /\ worker'[w] = worker[w] /\ acks'[w] = acks[w] /\ FairLease(w) /\ Work!Holds(w)
             /\ job' = job /\ due' = due
    <3>1. Work!Holds(w)' /\ (Work!Paused(w)' <=> Work!Paused(w))
          BY <2>2 DEF Work!Holds, Work!Paused
    <3> QED  BY <2>2, <3>1 DEF FairLease
  <2> QED  BY <1>2, <2>1, <2>2
<1> QED
    BY <1>2 DEF FairLeases

\* The workers before a step of the checker: idle, or busy with the lease that they hold.
LEMMA JobWorkers ==
    ASSUME WInv, WShow, WorkFair
    PROVE  \A w \in Work!Workers :
              /\ FairLease(w)
              /\ \/ worker[w].at = "idle" /\ worker[w].ver = 0 /\ (worker[w].up => acks[w] = 0)
                 \/ Work!Holds(w) /\ worker[w].up
                 \/ pc = "c_ack" /\ w = seen.winner
<1> SUFFICES ASSUME NEW w \in Work!Workers
             PROVE  /\ FairLease(w)
                    /\ \/ worker[w].at = "idle" /\ worker[w].ver = 0 /\ (worker[w].up => acks[w] = 0)
                       \/ Work!Holds(w) /\ worker[w].up
                       \/ pc = "c_ack" /\ w = seen.winner
    OBVIOUS
<1>1. FairLease(w)
      BY DEF WorkFair, FairLeases
<1>2. worker[w].at = "idle" => ~Work!Paused(w)
      BY DEF Work!Paused
<1> QED
    BY <1>1, <1>2 DEF FairLease

LEMMA JobBegins ==
    ASSUME faults = {}, NEW mode \in {"signal", "retry", "error", "invalid"}, Work!Start(mode)
    PROVE  /\ FairAttempts' /\ FairOutcome' /\ ~due' /\ waiting' = waiting
           /\ job'.state = "READY" /\ job'.mode = mode /\ job'.count = 0 /\ job'.id = 0 /\ job'.exec = 0
<1>1. /\ job' = [Work!NoJob EXCEPT !.state = "READY", !.mode = mode]
      /\ due' = FALSE /\ attempts' = <<>> /\ effects' = 0 /\ dispatches' = 0 /\ waiting' = waiting
      BY DEF Work!Start, Work!Has
<1>2. /\ job'.state = "READY" /\ job'.mode = mode /\ job'.count = 0 /\ job'.id = 0 /\ job'.exec = 0
      /\ job'.ver = 0
      BY <1>1 DEF Work!NoJob
<1>3. FairAttempts'
  <2>1. Len(attempts') = 0
        BY <1>1
  <2>2. 1..0 = {}
        OBVIOUS
  <2> QED  BY <1>2, <2>1, <2>2 DEF FairAttempts
<1>4. FairOutcome'
      BY <1>1, <1>2 DEF FairOutcome
<1> QED
    BY <1>1, <1>2, <1>3, <1>4

\* What a step that changes neither the tables nor the verdicts keeps.
LEMMA JobRests ==
    ASSUME WorkFair, UNCHANGED <<job, attempts, effects, dispatches>>
    PROVE  FairAttempts' /\ FairOutcome'
BY DEF WorkFair, FairAttempts, FairOutcome

\* The checker's steps of the phase concurrency.
LEMMA JobConcurrency ==
    ASSUME WInv, WShow, WorkFair, faults = {}, WorkerClaims >= 3, ~late',
           \/ Work!ConcurrencyStart \/ Work!ConcurrencyBoot \/ Work!ConcurrencyClaim
           \/ Work!ConcurrencyKill \/ Work!ConcurrencyLoser \/ Work!ConcurrencyReclaim
    PROVE  WorkFair'
<1>1. seen \in WorkSeen /\ job \in JobSchema
      BY JobTypes
<1>2. /\ waiting = "kept" /\ seen.ok /\ seen.preserved /\ seen.job.id = 0 /\ seen.job.exec = 0
      /\ \A c \in Work!Checks : result[c] # "failed"
      BY DEF WorkFair, FairSeen
<1>3. ASSUME Work!ConcurrencyStart
      PROVE  WorkFair'
  <2>1. /\ pc = "c_start" /\ pc' = "c_boot" /\ Work!Containers(Work!Workers, Work!Stopped)
        /\ seen' = Work!Nothing /\ Work!Start("signal") /\ result' = result
        BY <1>3 DEF Work!ConcurrencyStart, Work!Go, Work!Keep
  <2>2. /\ FairAttempts' /\ FairOutcome' /\ ~due' /\ waiting' = waiting
        /\ job'.state = "READY" /\ job'.mode = "signal"
        BY <2>1, JobBegins
  <2>3. \A w \in Work!Workers : ~worker'[w].up /\ worker'[w].at = "idle" /\ worker'[w].ver = 0
        BY <2>1, JobBoxes, JobBox
  <2>4. FairLeases'
        BY <2>2, <2>3, JobLeases
  <2>5. FairSeen'
        BY <1>2, <2>1, <2>2 DEF FairSeen, Work!Nothing, Work!NoJob
  <2>6. FairPhases' /\ FairRace' /\ FairCrash'
        BY <2>1, <2>2, <2>3 DEF FairPhases, FairRace, FairCrash, AllUp, AllDown, JobDone, Raced
  <2> QED  BY <1>2, <2>1, <2>2, <2>4, <2>5, <2>6 DEF WorkFair
<1>4. ASSUME Work!ConcurrencyBoot
      PROVE  WorkFair'
  <2>1. pc = "c_boot" /\ job.state = "READY" /\ job.mode = "signal"
        BY <1>4 DEF Work!ConcurrencyBoot, WorkFair, FairPhases, FairRace, AllDown
  <2>2. /\ pc' = "c_claim" /\ Work!Containers(Work!Workers, Work!Started("after_job_claim"))
        /\ seen' = [seen EXCEPT !.job = job]
        /\ UNCHANGED <<job, due, attempts, effects, dispatches, waiting, result>>
        BY <1>4, <2>1 DEF Work!ConcurrencyBoot, Work!Go, Work!Keep, Work!engine
  <2>3. \A w \in Work!Workers : /\ worker'[w].up /\ worker'[w].fp = "after_job_claim"
                                /\ worker'[w].at = "idle" /\ worker'[w].ver = 0 /\ acks'[w] = 0
        BY <2>2, JobBoxes, JobBox
  <2>4. job.count = 0 /\ job.id = 0 /\ job.exec = 0 /\ ~due
        BY <2>1 DEF WorkFair, FairAttempts, FairLeases
  <2>5. FairAttempts' /\ FairOutcome'
        BY <2>2, JobRests
  <2>6. FairLeases'
        BY <2>1, <2>2, <2>3, <2>4, <2>5, JobLeases
  <2>7. FairSeen'
        BY <1>1, <1>2, <2>2, <2>4 DEF FairSeen, WorkSeen
  <2>8. FairPhases' /\ FairRace' /\ FairCrash'
    <3>1. job'.state = "READY" /\ job'.mode = "signal" /\ job'.count = 0
          BY <2>1, <2>2, <2>4
    <3> QED  BY <2>2, <2>3, <3>1 DEF FairPhases, FairRace, FairCrash, AllUp, AllDown, JobDone, Raced
  <2> QED  BY <1>2, <2>2, <2>5, <2>6, <2>7, <2>8 DEF WorkFair
<1>5. ASSUME Work!ConcurrencyClaim
      PROVE  WorkFair'
  <2>1. pc = "c_claim" /\ (Work!FirstClaim \/ Work!Busy)
        BY <1>5, JobPolls DEF Work!ConcurrencyClaim
  <2>2. ~Work!PollTimeout(Work!FirstClaim)
        BY <2>1, JobTimeout
  <2>3. /\ Work!FirstClaim /\ seen' = [seen EXCEPT !.winner = job.owner] /\ pc' = "c_ack"
        /\ UNCHANGED <<job, due, attempts, effects, dispatches, waiting, worker, acks, result>>
        BY <1>5, <2>2 DEF Work!ConcurrencyClaim, Work!Go, Work!Keep, Work!engine
  <2>4. PICK o \in Work!Workers : o = job.owner
        BY <2>3 DEF Work!FirstClaim
  <2>5. job.state = "LEASED" /\ job.count = 1 /\ job.mode = "signal"
        BY <2>1, <2>3 DEF Work!FirstClaim, WorkFair, FairRace
  <2>6. /\ seen'.winner = o /\ seen'.job = seen.job /\ seen'.ok = seen.ok /\ seen'.preserved = seen.preserved
        BY <1>1, <2>3, <2>4 DEF WorkSeen
  <2>7. /\ Work!Holds(o) /\ worker[o].up /\ worker[o].at = "claimed"
    <3>1. Work!Holds(o)
          BY <2>1, <2>4, <2>5 DEF WorkFair, FairLeases, Orphaned
    <3>2. worker[o].at # "acted" /\ worker[o].at \in {"idle", "claimed", "acted"}
          BY <2>1, JobTypes DEF WShow, WorkHeld, Held, Claiming
    <3> QED  BY <3>1, <3>2, JobHolder
  <2>8. FairAttempts' /\ FairOutcome'
        BY <2>3, JobRests
  <2>9. FairLeases'
    <3>1. \A w \in Work!Workers :
             /\ FairLease(w)
             /\ \/ worker[w].at = "idle" /\ worker[w].ver = 0 /\ (worker[w].up => acks[w] = 0)
                \/ Work!Holds(w)
          BY <2>1, JobWorkers
    <3>2. Work!Holds(job.owner)'
          BY <2>3, <2>4, <2>7 DEF Work!Holds
    <3>3. ~Work!Hurried' /\ job'.state # "READY"
          BY <2>3, <2>5 DEF Work!Hurried
    <3> QED  BY <2>3, <2>8, <3>1, <3>2, <3>3, JobLeases
  <2>10. FairSeen'
        BY <1>2, <2>3, <2>6 DEF FairSeen
  <2>11. FairPhases' /\ FairCrash'
        BY <2>3 DEF FairPhases, FairCrash, AllUp, AllDown, JobDone
  <2>12. FairRace'
    <3>1. \A w \in Work!Workers : worker[w].up /\ worker[w].fp = "after_job_claim"
          BY <2>1 DEF WorkFair, FairRace
    <3>2. Work!Other(o) \in Work!Workers
          BY WorkTwo
    <3>3. /\ pc' = "c_ack" /\ seen'.winner = o /\ job'.state = "LEASED" /\ job'.count = 1 /\ job'.owner = o
          /\ job'.mode = "signal" /\ worker' = worker /\ worker[Work!Other(o)].up
          BY <2>3, <2>4, <2>5, <2>6, <3>1, <3>2
    <3> QED  BY <2>7, <3>1, <3>3 DEF FairRace, Raced
  <2> QED  BY <1>2, <2>3, <2>8, <2>9, <2>10, <2>11, <2>12 DEF WorkFair
<1>6. ASSUME Work!ConcurrencyKill
      PROVE  WorkFair'
  <2>1. pc = "c_ack" /\ acks[seen.winner] = 1
        BY <1>6, JobPolls DEF Work!ConcurrencyKill
  <2>2. ~Work!PollTimeout(acks[seen.winner] > 0)
    <3> DEFINE p == acks[seen.winner] > 0
    <3>1. p
          BY <2>1
    <3> HIDE DEF p
    <3> QED  BY <3>1, JobTimeout DEF p
  <2>3. /\ Work!Containers({seen.winner}, Work!Stopped) /\ pc' = "c_loser" /\ seen' = seen
        /\ UNCHANGED <<job, due, attempts, effects, dispatches, waiting, result>>
        BY <1>6, <2>1, <2>2 DEF Work!ConcurrencyKill, Work!wait_failpoint, Work!Go, Work!Keep, Work!engine
  <2>4. PICK o \in Work!Workers : o = seen.winner
        BY <2>1 DEF WorkFair, FairRace
  <2>5. /\ job.state = "LEASED" /\ job.mode = "signal" /\ worker[Work!Other(o)].up
        /\ (job.count = 1 /\ job.owner = o) \/ (job.count = 2 /\ job.owner = Work!Other(o))
        /\ \A w \in Work!Workers : worker[w].up => worker[w].fp = "after_job_claim"
        BY <2>1, <2>4 DEF WorkFair, FairRace
  <2>6. /\ ~worker'[o].up /\ worker'[o].at = "idle" /\ worker'[o].ver = 0
        /\ \A w \in Work!Workers : w # o => worker'[w] = worker[w] /\ acks'[w] = acks[w]
    <3>1. \A w \in Work!Workers : /\ worker'[w] = IF w \in {seen.winner} THEN Work!Stopped ELSE worker[w]
                                  /\ w \notin {seen.winner} => acks'[w] = acks[w]
          BY <2>3, JobBoxes
    <3> QED  BY <2>4, <3>1, JobBox
  <2>7. FairAttempts' /\ FairOutcome'
        BY <2>3, JobRests
  <2>8. FairLeases'
    <3>1. ASSUME NEW w \in Work!Workers, w # o
          PROVE  /\ FairLease(w)
                 /\ \/ worker[w].at = "idle" /\ worker[w].ver = 0 /\ (worker[w].up => acks[w] = 0)
                    \/ Work!Holds(w)
          BY <2>4, <3>1, JobWorkers
    <3>2. \A w \in Work!Workers :
              \/ worker'[w].at = "idle" /\ worker'[w].ver = 0 /\ (worker'[w].up => acks'[w] = 0)
              \/ /\ worker'[w] = worker[w] /\ acks'[w] = acks[w] /\ FairLease(w) /\ Work!Holds(w)
                 /\ job' = job /\ due' = due
      <4> SUFFICES ASSUME NEW w \in Work!Workers
                   PROVE  \/ worker'[w].at = "idle" /\ worker'[w].ver = 0 /\ (worker'[w].up => acks'[w] = 0)
                          \/ /\ worker'[w] = worker[w] /\ acks'[w] = acks[w] /\ FairLease(w) /\ Work!Holds(w)
                             /\ job' = job /\ due' = due
          OBVIOUS
      <4>1. CASE w = o
            BY <2>6, <4>1
      <4>2. CASE w # o
            BY <2>3, <2>6, <3>1, <4>2
      <4> QED  BY <4>1, <4>2
    <3>3. Orphaned' \/ Work!Holds(job.owner)'
      <4>1. CASE job.count = 1
            BY <2>3, <4>1 DEF Orphaned
      <4>2. CASE job.count = 2 /\ job.owner = Work!Other(o)
        <5>1. Work!Holds(job.owner)
              BY <2>1, <2>5, <4>2 DEF WorkFair, FairLeases, Orphaned
        <5>2. job.owner \in Work!Workers /\ job.owner # o
              BY <4>2, WorkTwo
        <5> QED  BY <2>3, <2>6, <5>1, <5>2 DEF Work!Holds
      <4> QED  BY <2>5, <4>1, <4>2
    <3>4. ~Work!Hurried' /\ job'.state # "READY"
          BY <2>3, <2>5 DEF Work!Hurried
    <3> QED  BY <2>7, <3>2, <3>3, <3>4, JobLeases
  <2>9. FairSeen'
        BY <1>2, <2>3 DEF FairSeen
  <2>10. FairPhases' /\ FairCrash'
        BY <2>3 DEF FairPhases, FairCrash, AllUp, AllDown, JobDone
  <2>11. FairRace'
    <3>1. Work!Other(o) \in Work!Workers /\ Work!Other(o) # o
          BY WorkTwo
    <3>2. worker'[Work!Other(o)].up
          BY <2>5, <2>6, <3>1
    <3>3. \A w \in Work!Workers : worker'[w].up => worker'[w].fp = "after_job_claim"
          BY <2>5, <2>6
    <3>4. /\ pc' = "c_loser" /\ seen'.winner = o /\ job' = job
          BY <2>3, <2>4
    <3> QED  BY <2>5, <2>6, <3>2, <3>3, <3>4 DEF FairRace, Raced
  <2> QED  BY <1>2, <2>3, <2>7, <2>8, <2>9, <2>10, <2>11 DEF WorkFair
<1>7. ASSUME UNCHANGED <<job, due, attempts, effects, dispatches, waiting, worker, acks, seen, result>>,
             \/ pc = "c_loser" /\ job.count = 2 /\ pc' = "c_reclaim"
             \/ pc = "c_reclaim" /\ pc' = "c_attempts"
      PROVE  WorkFair'
  <2>1. FairAttempts' /\ FairOutcome'
        BY <1>7, JobRests
  <2>2. job.state = "LEASED" /\ job.count = 2
        BY <1>7 DEF WorkFair, FairRace, Raced
  <2>3. FairLeases'
    <3>1. \A w \in Work!Workers :
             /\ FairLease(w)
             /\ \/ worker[w].at = "idle" /\ worker[w].ver = 0 /\ (worker[w].up => acks[w] = 0)
                \/ Work!Holds(w)
          BY <1>7, JobWorkers
    <3>2. Work!Holds(job.owner)
          BY <1>7, <2>2 DEF WorkFair, FairLeases, Orphaned
    <3>3. Work!Holds(job.owner)'
          BY <1>7, <3>2 DEF Work!Holds
    <3>4. ~Work!Hurried' /\ job'.state # "READY"
          BY <1>7, <2>2 DEF Work!Hurried
    <3> QED  BY <1>7, <2>1, <3>1, <3>3, <3>4, JobLeases
  <2>4. FairSeen' /\ \A c \in Work!Checks : result'[c] # "failed"
        BY <1>2, <1>7 DEF FairSeen
  <2>5. FairPhases' /\ FairCrash'
        BY <1>7 DEF FairPhases, FairCrash, AllUp, AllDown, JobDone
  <2>6. FairRace'
    <3>1. /\ \A w \in Work!Workers : worker[w].up => worker[w].fp = "after_job_claim"
          /\ worker[Work!Other(seen.winner)].up /\ job.owner = Work!Other(seen.winner)
          /\ seen.winner \in Work!Workers /\ ~worker[seen.winner].up /\ job.mode = "signal"
      <4>1. pc \in {"c_loser", "c_reclaim"}
            BY <1>7
      <4>2. pc \in {"c_ack", "c_loser"} \cup Raced /\ pc \in {"c_loser", "c_final"} \cup Raced /\ job.count # 1
            BY <2>2, <4>1 DEF Raced
      <4> QED  BY <4>2 DEF WorkFair, FairRace
    <3>2. pc' \in {"c_reclaim", "c_attempts"} /\ job' = job /\ worker' = worker /\ seen' = seen
          BY <1>7
    <3> QED  BY <2>2, <3>1, <3>2 DEF FairRace, Raced
  <2> QED  BY <2>1, <2>3, <2>4, <2>5, <2>6 DEF WorkFair
<1>8. ASSUME Work!ConcurrencyLoser
      PROVE  WorkFair'
  <2> DEFINE n == acks[Work!Other(seen.winner)]
  <2>1. pc = "c_loser" /\ ((n = 1 /\ job.count = 2) \/ (n = 0 /\ Work!Busy))
        BY <1>8, JobPolls DEF Work!ConcurrencyLoser
  <2>2. n = 1 \/ ~Work!PollTimeout(n > 0)
        BY <2>1, JobTimeout
  <2>3. n = 1 => ~Work!PollTimeout(n > 0)
    <3> DEFINE p == n > 0
    <3>1. n = 1 => p
          OBVIOUS
    <3> HIDE DEF p
    <3> QED  BY <3>1, JobTimeout DEF p
  <2>4. /\ n = 1 /\ pc' = "c_reclaim"
        /\ UNCHANGED <<job, due, attempts, effects, dispatches, waiting, worker, acks, seen, result>>
    <3> DEFINE timeout == Work!PollTimeout(n > 0)
               twice == Work!Contract(FALSE)
               once == pc' = "c_reclaim" /\ UNCHANGED <<Work!engine, worker, acks, seen, Work!Keep>>
    <3>1. (n = 1 /\ once) \/ (n > 1 /\ twice) \/ timeout
          BY <1>8 DEF Work!ConcurrencyLoser, Work!wait_failpoint, Work!Go
    <3>2. ~timeout
          BY <2>2, <2>3
    <3> HIDE DEF timeout, twice, once
    <3>3. n = 1 /\ once
          BY <2>1, <3>1, <3>2
    <3> QED  BY <3>3 DEF once, Work!Keep, Work!engine
  <2> QED  BY <1>7, <2>1, <2>4
<1>9. ASSUME Work!ConcurrencyReclaim
      PROVE  WorkFair'
  <2>1. pc = "c_reclaim" /\ Work!SecondClaim
        BY <1>9, JobPolls DEF Work!ConcurrencyReclaim
  <2>2. ~Work!PollTimeout(Work!SecondClaim)
        BY <2>1, JobTimeout
  <2>3. /\ pc' = "c_attempts"
        /\ UNCHANGED <<job, due, attempts, effects, dispatches, waiting, worker, acks, seen, result>>
        BY <1>9, <2>2 DEF Work!ConcurrencyReclaim, Work!Go, Work!Keep, Work!engine
  <2> QED  BY <1>7, <2>1, <2>3
<1> QED
    BY <1>3, <1>4, <1>5, <1>6, <1>8, <1>9

\* The rows of the second claim, and those of the third, which succeeds.
LEMMA JobRows ==
    ASSUME WInv, WShow, WorkFair, job.mode = "signal"
    PROVE  /\ job.state = "LEASED" /\ job.count = 2 => Work!ClaimRows
           /\ job.state = "SUCCEEDED" /\ job.count = 3 /\ seen.job.ver = 2 => Work!ConcurrencyValid
<1>1. /\ job.id = 0 /\ job.exec = 0 /\ job.ver = job.count /\ Len(attempts) = job.count
      /\ \A i \in 1..job.count :
            /\ attempts[i].id = 0 /\ attempts[i].exec = 0 /\ attempts[i].ver = i
            /\ i # job.count => attempts[i].status = "STALE"
      /\ seen.job.id = 0 /\ seen.job.exec = 0 /\ seen.ok
      BY DEF WorkFair, FairAttempts, FairSeen
<1>2. attempts \in Seq(AttemptSchema)
      BY JobTypes
<1>3. ASSUME job.state = "LEASED", job.count = 2
      PROVE  Work!ClaimRows
  <2>1. 1 \in 1..2 /\ 2 \in 1..2
        OBVIOUS
  <2>2. attempts[1].status = "STALE" /\ attempts[1].ver = 1 /\ attempts[2].ver = 2
        BY <1>1, <1>3, <2>1
  <2>3. attempts[2].status = "RUNNING"
        BY <1>3 DEF WorkFair, FairAttempts
  <2> QED  BY <1>1, <1>3, <2>2, <2>3 DEF Work!ClaimRows
<1>4. ASSUME job.state = "SUCCEEDED", job.count = 3, seen.job.ver = 2
      PROVE  Work!ConcurrencyValid
  <2>1. DOMAIN attempts = 1..3
        BY <1>1, <1>2, <1>4
  <2>2. attempts[3].status = "SUCCEEDED"
        BY <1>4 DEF WorkFair, FairAttempts
  <2>3. {i \in DOMAIN attempts : attempts[i].status = "SUCCEEDED"} = {3}
    <3>1. \A i \in 1..3 : i # 3 => attempts[i].status = "STALE"
          BY <1>1, <1>4
    <3>2. 3 \in 1..3
          OBVIOUS
    <3> QED  BY <2>1, <2>2, <3>1, <3>2
  <2>4. Work!Succeeded = 1
    <3>1. Cardinality({3}) = 1
          BY FS_Singleton
    <3> QED  BY <2>3, <3>1 DEF Work!Succeeded, Work!Cardinality, Cardinality
  <2>5. effects = 1 /\ dispatches = 1
        BY <1>4 DEF WorkFair, FairOutcome
  <2>6. \A i \in DOMAIN attempts : attempts[i].id = 0 /\ attempts[i].exec = 0
        BY <1>1, <1>4, <2>1
  <2>7. job.ver > seen.job.ver /\ Len(attempts) >= 3
        BY <1>1, <1>4
  <2> QED  BY <1>1, <1>4, <2>4, <2>5, <2>6, <2>7 DEF Work!ConcurrencyValid
<1> QED
    BY <1>3, <1>4

\* The end of the phase concurrency.
LEMMA JobTakenOver ==
    ASSUME WInv, WShow, WorkFair, faults = {}, WorkerClaims >= 3, ~late',
           \/ Work!ConcurrencyAttempts \/ Work!StaleFinish \/ Work!ConcurrencyRestart
           \/ Work!ConcurrencyVerdict
    PROVE  WorkFair'
<1>1. seen \in WorkSeen /\ job \in JobSchema /\ seen.job \in JobSchema
      BY JobTypes DEF WorkSeen
<1>2. /\ waiting = "kept" /\ seen.ok /\ seen.preserved /\ seen.job.id = 0 /\ seen.job.exec = 0
      /\ \A c \in Work!Checks : result[c] # "failed"
      BY DEF WorkFair, FairSeen
<1>3. ASSUME pc \in Raced
      PROVE  /\ \A w \in Work!Workers : worker[w].up => worker[w].fp = "after_job_claim"
             /\ worker[Work!Other(seen.winner)].up /\ job.owner = Work!Other(seen.winner)
             /\ seen.winner \in Work!Workers /\ ~worker[seen.winner].up /\ job.mode = "signal"
             /\ job.state = "LEASED" /\ job.count = 2 /\ Work!Holds(job.owner)
  <2>1. /\ \A w \in Work!Workers : worker[w].up => worker[w].fp = "after_job_claim"
        /\ worker[Work!Other(seen.winner)].up /\ job.owner = Work!Other(seen.winner)
        /\ seen.winner \in Work!Workers /\ ~worker[seen.winner].up /\ job.mode = "signal"
        /\ job.state = "LEASED" /\ job.count = 2
        BY <1>3 DEF WorkFair, FairRace
  <2>2. ~Orphaned
        BY <1>3 DEF Orphaned, Raced
  <2> QED  BY <2>1, <2>2 DEF WorkFair, FairLeases
<1>4. ASSUME UNCHANGED <<job, due, attempts, effects, dispatches, waiting, worker, acks, result>>,
             (pc = "c_attempts" /\ pc' = "c_stale") \/ (pc = "c_stale" /\ pc' = "c_restart"),
             seen'.winner = seen.winner, seen'.job.ver = 2, FairSeen'
      PROVE  WorkFair'
  <2>1. FairAttempts' /\ FairOutcome'
        BY <1>4, JobRests
  <2>2. pc \in Raced /\ pc # "c_ack" /\ pc' \in {"c_stale", "c_restart"}
        BY <1>4 DEF Raced
  <2>3. FairLeases'
    <3>1. \A w \in Work!Workers :
             /\ FairLease(w)
             /\ \/ worker[w].at = "idle" /\ worker[w].ver = 0 /\ (worker[w].up => acks[w] = 0)
                \/ Work!Holds(w)
          BY <2>2, JobWorkers
    <3>2. Work!Holds(job.owner)'
          BY <1>3, <1>4, <2>2 DEF Work!Holds
    <3>3. ~Work!Hurried' /\ job'.state # "READY"
          BY <1>3, <1>4, <2>2 DEF Work!Hurried
    <3> QED  BY <1>4, <2>1, <3>1, <3>2, <3>3, JobLeases
  <2>4. FairPhases' /\ FairCrash'
        BY <2>2 DEF FairPhases, FairCrash, AllUp, AllDown, JobDone
  <2>5. FairRace'
    <3>1. job' = job /\ worker' = worker /\ seen'.winner = seen.winner /\ seen'.job.ver = 2
          BY <1>4
    <3> QED  BY <1>3, <2>2, <3>1 DEF FairRace, Raced
  <2> QED  BY <1>2, <1>4, <2>1, <2>3, <2>4, <2>5 DEF WorkFair
<1>5. ASSUME Work!ConcurrencyAttempts
      PROVE  WorkFair'
  <2> DEFINE lease == IF attempts = <<>> THEN 0 ELSE attempts[1].ver
             ok == Work!ClaimRows
  <2>1. /\ pc = "c_attempts" /\ pc' = "c_stale" /\ seen' = [seen EXCEPT !.ok = ok, !.job = job, !.lease = lease]
        /\ UNCHANGED <<job, due, attempts, effects, dispatches, waiting, worker, acks, result>>
        BY <1>5 DEF Work!ConcurrencyAttempts, Work!Go, Work!Keep, Work!engine
  <2>2. pc \in Raced
        BY <2>1 DEF Raced
  <2>3. ok
        BY <1>3, <2>2, JobRows
  <2> HIDE DEF lease, ok
  <2>4. seen'.winner = seen.winner /\ seen'.job = job /\ seen'.ok = ok /\ seen'.preserved = seen.preserved
        BY <1>1, <2>1 DEF WorkSeen
  <2>5. job.ver = 2 /\ job.id = 0 /\ job.exec = 0
        BY <1>3, <2>2 DEF WorkFair, FairAttempts
  <2>6. FairSeen'
        BY <1>2, <2>1, <2>3, <2>4, <2>5 DEF FairSeen
  <2> QED  BY <1>4, <2>1, <2>4, <2>5, <2>6
<1>6. ASSUME Work!StaleFinish
      PROVE  WorkFair'
  <2>1. pc = "c_stale" /\ pc' = "c_restart" /\ pc \in Raced
        BY <1>6 DEF Work!StaleFinish, Work!Go, Raced
  <2>2. job.owner # seen.winner
        BY <1>3, <2>1, WorkTwo
  <2> DEFINE ok == seen.ok /\ TRUE /\ events' = events
  <2>3. /\ events' = events + 0 /\ seen' = [seen EXCEPT !.ok = ok]
        /\ UNCHANGED <<job, due, attempts, effects, dispatches, waiting, worker, acks, result>>
        BY <1>6, <2>2 DEF Work!StaleFinish, Work!Has, Work!Keep
  <2>4. ok
        BY <1>2, <2>3 DEF WShow, WorkCounts
  <2> HIDE DEF ok
  <2>5. seen'.winner = seen.winner /\ seen'.job = seen.job /\ seen'.ok = ok /\ seen'.preserved = seen.preserved
        BY <1>1, <2>3 DEF WorkSeen
  <2>6. seen.job.ver = 2
        BY <2>1 DEF WorkFair, FairRace
  <2>7. FairSeen'
        BY <1>2, <2>3, <2>4, <2>5 DEF FairSeen
  <2> QED  BY <1>4, <2>1, <2>3, <2>5, <2>6, <2>7
<1>7. ASSUME Work!ConcurrencyRestart
      PROVE  WorkFair'
  <2>1. /\ pc = "c_restart" /\ pc' = "c_final" /\ Work!Containers({Work!Other(seen.winner)}, Work!Started(""))
        /\ UNCHANGED <<job, due, attempts, effects, dispatches, waiting, seen, result>>
        BY <1>7 DEF Work!ConcurrencyRestart, Work!Go, Work!Keep, Work!engine
  <2>2. pc \in Raced
        BY <2>1 DEF Raced
  <2>3. PICK o \in Work!Workers : o = Work!Other(seen.winner)
        BY <1>3, <2>2, WorkTwo
  <2>4. seen.winner \in Work!Workers /\ seen.winner # o /\ \A w \in Work!Workers : w # o => w = seen.winner
        BY <1>3, <2>2, <2>3, WorkTwo
  <2>5. /\ worker'[o].up /\ worker'[o].fp = "" /\ worker'[o].at = "idle" /\ worker'[o].ver = 0 /\ acks'[o] = 0
        /\ worker'[seen.winner] = worker[seen.winner]
    <3>1. \A w \in Work!Workers : /\ worker'[w] = IF w \in {o} THEN Work!Started("") ELSE worker[w]
                                  /\ w \in {o} => acks'[w] = 0
          BY <2>1, <2>3, JobBoxes, JobBox
    <3> DEFINE box == Work!Started("")
    <3>2. box.up /\ box.fp = "" /\ box.at = "idle" /\ box.ver = 0
          BY JobBox
    <3>3. worker'[o] = box /\ acks'[o] = 0 /\ worker'[seen.winner] = worker[seen.winner]
          BY <2>4, <3>1
    <3> HIDE DEF box
    <3> QED  BY <3>2, <3>3
  <2>6. worker[seen.winner].at = "idle" /\ worker[seen.winner].ver = 0 /\ ~worker[seen.winner].up
        BY <1>3, <2>2, <2>4 DEF WorkFair, FairLeases, FairLease
  <2>7. FairAttempts' /\ FairOutcome'
        BY <2>1, JobRests
  <2>8. job'.state = "LEASED" /\ job'.count = 2 /\ job'.owner = o /\ job'.mode = "signal"
        BY <1>3, <2>1, <2>2, <2>3
  <2>9. FairLeases'
    <3>1. Orphaned' /\ ~Work!Hurried'
          BY <2>1, <2>8 DEF Orphaned, Work!Hurried
    <3>2. \A w \in Work!Workers : worker'[w].at = "idle" /\ worker'[w].ver = 0 /\ (worker'[w].up => acks'[w] = 0)
          BY <2>4, <2>5, <2>6
    <3> QED  BY <2>7, <2>8, <3>1, <3>2, JobLeases
  <2>10. FairSeen' /\ \A c \in Work!Checks : result'[c] # "failed"
         BY <1>2, <2>1 DEF FairSeen
  <2>11. FairPhases' /\ FairCrash'
         BY <2>1 DEF FairPhases, FairCrash, AllUp, AllDown, JobDone
  <2>12. FairRace'
    <3>1. seen' = seen /\ seen.job.ver = 2 /\ pc' = "c_final"
          BY <2>1 DEF WorkFair, FairRace
    <3> QED  BY <2>3, <2>4, <2>5, <2>6, <2>8, <3>1 DEF FairRace, Raced
  <2> QED  BY <2>7, <2>9, <2>10, <2>11, <2>12 DEF WorkFair
<1>8. ASSUME Work!ConcurrencyVerdict
      PROVE  WorkFair'
  <2> DEFINE p == job.state = "SUCCEEDED"
  <2>1. pc = "c_final" /\ (p \/ Work!Busy)
        BY <1>8, JobPolls DEF Work!ConcurrencyVerdict
  <2>2. ~Work!PollTimeout(p)
        BY <2>1, JobTimeout
  <2>3. /\ p /\ pc' = "c_restore" /\ Work!Record(Reclaimed, Work!ConcurrencyValid)
        /\ UNCHANGED <<job, due, attempts, effects, dispatches, waiting, worker, acks, seen>>
        BY <1>8, <2>2 DEF Work!ConcurrencyVerdict, Work!Go, Work!engine, Reclaimed
  <2>4. job.count = 3 /\ seen.job.ver = 2 /\ job.mode = "signal"
        BY <2>1, <2>3 DEF WorkFair, FairRace
  <2>5. Work!ConcurrencyValid
        BY <2>3, <2>4, JobRows
  <2>6. \A c \in Work!Checks : result'[c] # "failed"
    <3>1. result' = [result EXCEPT ![Reclaimed] = "passed"]
          BY <2>3, <2>5 DEF Work!Record
    <3> QED  BY <1>2, <3>1 DEF WInv, WorkChecker
  <2>7. FairAttempts' /\ FairOutcome' /\ FairSeen'
        BY <1>2, <2>3, JobRests DEF FairSeen
  <2>8. FairLeases'
    <3>1. \A w \in Work!Workers : worker[w].at = "idle" /\ worker[w].ver = 0 /\ (worker[w].up => acks[w] = 0)
          BY <2>1, <2>3, JobWorkers DEF Work!Holds
    <3>2. ~Work!Hurried'
          BY <2>3 DEF Work!Hurried
    <3> QED  BY <2>3, <2>7, <3>1, <3>2, JobLeases
  <2>9. FairPhases' /\ FairCrash' /\ FairRace'
        BY <2>3 DEF FairPhases, FairCrash, FairRace, AllUp, AllDown, JobDone, Raced
  <2> QED  BY <2>6, <2>7, <2>8, <2>9 DEF WorkFair
<1> QED
    BY <1>5, <1>6, <1>7, <1>8

\* The workers come back between the phases.
LEMMA JobRestores ==
    ASSUME WInv, WShow, WorkFair, NEW step \in {"c_restore", "a_restore"}, Work!Restore(step)
    PROVE  WorkFair'
<1>1. /\ pc = step /\ pc' = Work!Then[Work!PhaseOf(step)] /\ Work!Containers(Work!Workers, Work!Started(""))
      /\ UNCHANGED <<job, due, attempts, effects, dispatches, waiting, seen, result>>
      BY DEF Work!Restore, Work!Go, Work!Keep, Work!engine
<1>2. pc' \in {"a_start", "r_start"}
  <2>1. Work!Then["concurrency"] = "a_start" /\ Work!Then["recovery"] = "r_start"
        BY DEF Work!Then
  <2> QED  BY <1>1, <2>1, WorkPhaseOf
<1>3. job.state = "SUCCEEDED"
      BY <1>1 DEF WorkFair, FairPhases, JobDone
<1>4. \A w \in Work!Workers : /\ worker'[w].up /\ worker'[w].fp = "" /\ worker'[w].at = "idle"
                              /\ worker'[w].ver = 0 /\ acks'[w] = 0
  <2> DEFINE box == Work!Started("")
  <2>1. box.up /\ box.fp = "" /\ box.at = "idle" /\ box.ver = 0
        BY JobBox
  <2>2. Work!Containers(Work!Workers, box)
        BY <1>1
  <2> HIDE DEF box
  <2>3. \A w \in Work!Workers : worker'[w] = box /\ acks'[w] = 0
        BY <2>1, <2>2, JobBoxes
  <2> QED  BY <2>1, <2>3
<1>5. FairAttempts' /\ FairOutcome'
      BY <1>1, JobRests
<1>6. FairLeases'
  <2>1. ~Work!Hurried'
        BY <1>2 DEF Work!Hurried
  <2> QED  BY <1>1, <1>3, <1>4, <1>5, <2>1, JobLeases
<1>7. FairSeen' /\ \A c \in Work!Checks : result'[c] # "failed"
      BY <1>1 DEF WorkFair, FairSeen
<1>8. FairPhases' /\ FairRace' /\ FairCrash'
  <2>1. job'.state = "SUCCEEDED"
        BY <1>1, <1>3
  <2> QED  BY <1>2, <1>4, <2>1 DEF FairPhases, FairRace, FairCrash, AllDown, Raced
<1> QED
    BY <1>5, <1>6, <1>7, <1>8 DEF WorkFair

\* The checker's steps of the phase recovery.
LEMMA JobRecovery ==
    ASSUME WInv, WShow, WorkFair, faults = {}, WorkerClaims >= 3, ~late',
           \/ Work!RecoveryStart \/ Work!RecoveryBoot \/ Work!RecoveryKill \/ Work!RecoveryCrash
           \/ Work!RecoveryVerdict
    PROVE  WorkFair'
<1>1. seen \in WorkSeen /\ job \in JobSchema
      BY JobTypes
<1>2. /\ waiting = "kept" /\ seen.ok /\ seen.preserved /\ seen.job.id = 0 /\ seen.job.exec = 0
      /\ \A c \in Work!Checks : result[c] # "failed"
      BY DEF WorkFair, FairSeen
<1>3. "worker-a" \in Work!Workers /\ "worker-b" \in Work!Workers /\ Work!Workers = {"worker-a", "worker-b"}
      BY WorkTwo
<1>4. ASSUME Work!RecoveryStart
      PROVE  WorkFair'
  <2>1. /\ pc = "a_start" /\ pc' = "a_boot" /\ Work!Containers(Work!Workers, Work!Stopped)
        /\ seen' = Work!Nothing /\ Work!Start("signal") /\ result' = result
        BY <1>4 DEF Work!RecoveryStart, Work!Go, Work!Keep
  <2>2. /\ FairAttempts' /\ FairOutcome' /\ ~due' /\ waiting' = waiting
        /\ job'.state = "READY" /\ job'.mode = "signal"
        BY <2>1, JobBegins
  <2>3. \A w \in Work!Workers : ~worker'[w].up /\ worker'[w].at = "idle" /\ worker'[w].ver = 0
        BY <2>1, JobBoxes, JobBox
  <2>4. FairLeases'
        BY <2>2, <2>3, JobLeases
  <2>5. FairSeen'
        BY <1>2, <2>1, <2>2 DEF FairSeen, Work!Nothing, Work!NoJob
  <2>6. FairPhases' /\ FairRace' /\ FairCrash'
        BY <2>1, <2>2, <2>3 DEF FairPhases, FairRace, FairCrash, AllUp, AllDown, JobDone, Raced
  <2> QED  BY <1>2, <2>1, <2>2, <2>4, <2>5, <2>6 DEF WorkFair
<1>5. ASSUME Work!RecoveryBoot
      PROVE  WorkFair'
  <2> DEFINE box == Work!Started("after_action_before_finish")
  <2>1. /\ pc = "a_boot" /\ pc' = "a_ack" /\ Work!Containers({"worker-a"}, box)
        /\ UNCHANGED <<job, due, attempts, effects, dispatches, waiting, seen, result>>
        BY <1>5 DEF Work!RecoveryBoot, Work!Go, Work!Keep, Work!engine
  <2>2. job.state = "READY" /\ job.mode = "signal" /\ (\A w \in Work!Workers : ~worker[w].up) /\ ~due
        BY <2>1 DEF WorkFair, FairPhases, FairCrash, FairLeases, AllDown
  <2>3. /\ box.up /\ box.fp = "after_action_before_finish" /\ box.at = "idle" /\ box.ver = 0
        BY JobBox
  <2> HIDE DEF box
  <2>4. /\ worker'["worker-a"] = box /\ acks'["worker-a"] = 0
        /\ worker'["worker-b"] = worker["worker-b"] /\ acks'["worker-b"] = acks["worker-b"]
        BY <1>3, <2>1, <2>3, JobBoxes
  <2>5. worker["worker-b"].at = "idle" /\ worker["worker-b"].ver = 0 /\ ~worker["worker-b"].up
        BY <1>3, <2>2 DEF WorkFair, FairLeases, FairLease
  <2>6. FairAttempts' /\ FairOutcome'
        BY <2>1, JobRests
  <2>7. FairLeases'
    <3>1. \A w \in Work!Workers : worker'[w].at = "idle" /\ worker'[w].ver = 0 /\ (worker'[w].up => acks'[w] = 0)
          BY <1>3, <2>3, <2>4, <2>5
    <3> QED  BY <2>1, <2>2, <2>6, <3>1, JobLeases
  <2>8. FairSeen'
        BY <1>2, <2>1 DEF FairSeen
  <2>9. FairPhases' /\ FairRace' /\ FairCrash'
    <3>1. job'.state = "READY" /\ job'.mode = "signal"
          BY <2>1, <2>2
    <3> QED  BY <2>1, <2>3, <2>4, <2>5, <3>1 DEF FairPhases, FairRace, FairCrash, AllUp, AllDown, JobDone, Raced
  <2> QED  BY <1>2, <2>1, <2>6, <2>7, <2>8, <2>9 DEF WorkFair
<1>6. ASSUME Work!RecoveryKill
      PROVE  WorkFair'
  <2> DEFINE n == acks["worker-a"]
             timeout == Work!PollTimeout(n > 0)
             twice == Work!Contract(FALSE)
             once == /\ Work!Containers({"worker-a"}, Work!Stopped)
                     /\ seen' = [seen EXCEPT !.job = job] /\ pc' = "a_crash"
                     /\ UNCHANGED <<Work!engine, Work!Keep>>
  <2>1. pc = "a_ack" /\ ((n = 1 /\ job.state = "LEASED") \/ (n = 0 /\ Work!Busy))
        BY <1>6, JobPolls DEF Work!RecoveryKill
  <2>2. (n = 1 /\ once) \/ (n > 1 /\ twice) \/ timeout
        BY <1>6 DEF Work!RecoveryKill, Work!wait_failpoint, Work!Go
  <2>3. ~timeout
    <3> DEFINE p == n > 0
    <3>1. p \/ Work!Busy
          BY <2>1
    <3> HIDE DEF p
    <3>2. ~Work!PollTimeout(p)
          BY <3>1, JobTimeout
    <3> QED  BY <3>2 DEF p
  <2> HIDE DEF timeout, twice, once
  <2>4. once /\ job.state = "LEASED"
        BY <2>1, <2>2, <2>3
  <2>5. /\ Work!Containers({"worker-a"}, Work!Stopped) /\ pc' = "a_crash" /\ seen' = [seen EXCEPT !.job = job]
        /\ UNCHANGED <<job, due, attempts, effects, dispatches, waiting, result>>
        BY <2>4 DEF once, Work!engine, Work!Keep
  <2>6. /\ job.owner = "worker-a" /\ job.count = 1 /\ job.mode = "signal" /\ ~worker["worker-b"].up
        BY <2>1, <2>4 DEF WorkFair, FairCrash
  <2>7. \A w \in Work!Workers : ~worker'[w].up /\ worker'[w].at = "idle" /\ worker'[w].ver = 0
    <3>1. worker["worker-b"].at = "idle" /\ worker["worker-b"].ver = 0
          BY <1>3, <2>6 DEF WorkFair, FairLeases, FairLease
    <3>2. worker'["worker-a"] = Work!Stopped /\ worker'["worker-b"] = worker["worker-b"]
          BY <1>3, <2>5, JobBoxes
    <3> QED  BY <1>3, <2>6, <3>1, <3>2, JobBox
  <2>8. FairAttempts' /\ FairOutcome'
        BY <2>5, JobRests
  <2>9. FairLeases'
    <3>1. Orphaned' /\ ~Work!Hurried' /\ job'.state # "READY"
          BY <2>4, <2>5, <2>6 DEF Orphaned, Work!Hurried
    <3> QED  BY <2>7, <2>8, <3>1, JobLeases
  <2>10. FairSeen'
    <3>1. seen'.job = job /\ seen'.ok = seen.ok /\ seen'.preserved = seen.preserved
          BY <1>1, <2>5 DEF WorkSeen
    <3>2. job.id = 0 /\ job.exec = 0
          BY DEF WorkFair, FairAttempts
    <3> QED  BY <1>2, <2>5, <3>1, <3>2 DEF FairSeen
  <2>11. FairPhases' /\ FairRace' /\ FairCrash'
    <3>1. job'.state = "LEASED" /\ job'.mode = "signal" /\ job'.owner = "worker-a" /\ job'.count = 1
          BY <2>4, <2>5, <2>6
    <3> QED  BY <1>3, <2>5, <2>7, <3>1 DEF FairPhases, FairRace, FairCrash, AllUp, AllDown, JobDone, Raced
  <2> QED  BY <1>2, <2>5, <2>8, <2>9, <2>10, <2>11 DEF WorkFair
<1>7. ASSUME Work!RecoveryCrash
      PROVE  WorkFair'
  <2> DEFINE ok == effects = 0 /\ dispatches = 0
             box == Work!Started("")
  <2>1. /\ pc = "a_crash" /\ pc' = "a_final" /\ Work!Containers({"worker-b"}, box)
        /\ seen' = [seen EXCEPT !.ok = ok]
        /\ UNCHANGED <<job, due, attempts, effects, dispatches, waiting, result>>
        BY <1>7 DEF Work!RecoveryCrash, Work!Go, Work!Keep, Work!engine
  <2>2. /\ job.state = "LEASED" /\ job.owner = "worker-a" /\ job.count = 1 /\ job.mode = "signal"
        /\ \A w \in Work!Workers : ~worker[w].up
        BY <2>1 DEF WorkFair, FairPhases, FairCrash, AllDown
  <2>3. ok
        BY <2>2 DEF WorkFair, FairOutcome
  <2>4. /\ box.up /\ box.fp = "" /\ box.at = "idle" /\ box.ver = 0
        BY JobBox
  <2> HIDE DEF ok, box
  <2>5. /\ worker'["worker-b"] = box /\ acks'["worker-b"] = 0 /\ worker'["worker-a"] = worker["worker-a"]
        BY <1>3, <2>1, <2>4, JobBoxes
  <2>6. worker["worker-a"].at = "idle" /\ worker["worker-a"].ver = 0 /\ ~worker["worker-a"].up
        BY <1>3, <2>2 DEF WorkFair, FairLeases, FairLease
  <2>7. FairAttempts' /\ FairOutcome'
        BY <2>1, JobRests
  <2>8. FairLeases'
    <3>1. \A w \in Work!Workers : worker'[w].at = "idle" /\ worker'[w].ver = 0 /\ (worker'[w].up => acks'[w] = 0)
          BY <1>3, <2>4, <2>5, <2>6
    <3>2. Orphaned' /\ ~Work!Hurried' /\ job'.state # "READY"
          BY <2>1, <2>2 DEF Orphaned, Work!Hurried
    <3> QED  BY <2>7, <3>1, <3>2, JobLeases
  <2>9. FairSeen'
    <3>1. seen'.job = seen.job /\ seen'.ok = ok /\ seen'.preserved = seen.preserved
          BY <1>1, <2>1 DEF WorkSeen
    <3> QED  BY <1>2, <2>1, <2>3, <3>1 DEF FairSeen
  <2>10. FairPhases' /\ FairRace' /\ FairCrash'
    <3>1. job'.state = "LEASED" /\ job'.mode = "signal" /\ job'.owner = "worker-a" /\ job'.count = 1
          BY <2>1, <2>2
    <3> QED  BY <2>1, <2>4, <2>5, <2>6, <3>1 DEF FairPhases, FairRace, FairCrash, AllUp, AllDown, JobDone, Raced
  <2> QED  BY <1>2, <2>1, <2>7, <2>8, <2>9, <2>10 DEF WorkFair
<1>8. ASSUME Work!RecoveryVerdict
      PROVE  WorkFair'
  <2> DEFINE p == job.state = "SUCCEEDED"
  <2>1. pc = "a_final" /\ (p \/ Work!Busy)
        BY <1>8, JobPolls DEF Work!RecoveryVerdict
  <2>2. ~Work!PollTimeout(p)
        BY <2>1, JobTimeout
  <2>3. /\ p /\ pc' = "a_restore" /\ Work!Record(RolledBack, Work!RecoveryValid)
        /\ UNCHANGED <<job, due, attempts, effects, dispatches, waiting, worker, acks, seen>>
        BY <1>8, <2>2 DEF Work!RecoveryVerdict, Work!Go, Work!engine, RolledBack
  <2>4. Work!RecoveryValid
        BY <1>2, <2>3 DEF Work!RecoveryValid, WorkFair, FairOutcome, FairAttempts
  <2>5. \A c \in Work!Checks : result'[c] # "failed"
    <3>1. result' = [result EXCEPT ![RolledBack] = "passed"]
          BY <2>3, <2>4 DEF Work!Record
    <3> QED  BY <1>2, <3>1 DEF WInv, WorkChecker
  <2>6. FairAttempts' /\ FairOutcome' /\ FairSeen'
        BY <1>2, <2>3, JobRests DEF FairSeen
  <2>7. FairLeases'
    <3>1. \A w \in Work!Workers : worker[w].at = "idle" /\ worker[w].ver = 0 /\ (worker[w].up => acks[w] = 0)
          BY <2>1, <2>3, JobWorkers DEF Work!Holds
    <3>2. ~Work!Hurried'
          BY <2>3 DEF Work!Hurried
    <3> QED  BY <2>3, <2>6, <3>1, <3>2, JobLeases
  <2>8. FairPhases' /\ FairCrash' /\ FairRace'
        BY <2>3 DEF FairPhases, FairCrash, FairRace, AllUp, AllDown, JobDone, Raced
  <2> QED  BY <2>5, <2>6, <2>7, <2>8 DEF WorkFair
<1> QED
    BY <1>4, <1>5, <1>6, <1>7, <1>8

\* Between two processes no worker is busy.
LEMMA JobCalm ==
    ASSUME WInv, WShow, WorkFair, pc # "c_ack", job.state # "LEASED"
    PROVE  \A w \in Work!Workers : worker[w].at = "idle" /\ worker[w].ver = 0 /\ (worker[w].up => acks[w] = 0)
BY JobWorkers DEF Work!Holds

\* The checker starts the next process while the workers run.
LEMMA JobStarts ==
    ASSUME WInv, WShow, WorkFair, faults = {}, pc \in AllUp, pc' \in AllUp, job.state # "LEASED",
           NEW mode \in {"signal", "retry", "error", "invalid"}, Work!Start(mode), UNCHANGED <<worker, acks>>
    PROVE  /\ FairAttempts' /\ FairOutcome' /\ FairLeases' /\ FairRace' /\ FairCrash' /\ waiting' = waiting
           /\ job'.state = "READY" /\ job'.mode = mode /\ job'.count = 0
           /\ \A w \in Work!Workers : worker'[w].up /\ worker'[w].fp = ""
<1>1. /\ FairAttempts' /\ FairOutcome' /\ ~due' /\ waiting' = waiting
      /\ job'.state = "READY" /\ job'.mode = mode /\ job'.count = 0
      BY JobBegins
<1>2. \A w \in Work!Workers : worker'[w].at = "idle" /\ worker'[w].ver = 0 /\ (worker'[w].up => acks'[w] = 0)
  <2>1. pc # "c_ack"
        BY DEF AllUp
  <2> QED  BY <2>1, JobCalm
<1>3. FairLeases'
      BY <1>1, <1>2, JobLeases
<1>4. FairRace' /\ FairCrash'
      BY DEF FairRace, FairCrash, AllUp, Raced
<1>5. \A w \in Work!Workers : worker'[w].up /\ worker'[w].fp = ""
      BY DEF WorkFair, FairPhases
<1> QED
    BY <1>1, <1>3, <1>4, <1>5

\* The checker only reads.
LEMMA JobReads ==
    ASSUME WInv, WShow, WorkFair, pc \in AllUp, pc' \in AllUp, job.state # "LEASED",
           Work!Hurried' \/ job.state = "READY" => ~due,
           UNCHANGED <<job, due, attempts, effects, dispatches, worker, acks>>
    PROVE  /\ FairAttempts' /\ FairOutcome' /\ FairLeases' /\ FairRace' /\ FairCrash'
           /\ \A w \in Work!Workers : worker'[w].up /\ worker'[w].fp = ""
<1>1. FairAttempts' /\ FairOutcome'
      BY JobRests
<1>2. \A w \in Work!Workers : worker'[w].at = "idle" /\ worker'[w].ver = 0 /\ (worker'[w].up => acks'[w] = 0)
  <2>1. pc # "c_ack"
        BY DEF AllUp
  <2> QED  BY <2>1, JobCalm
<1>3. FairLeases'
  <2>1. job'.state # "LEASED" /\ (Work!Hurried' \/ job'.state = "READY" => ~due')
        OBVIOUS
  <2> QED  BY <1>1, <1>2, <2>1, JobLeases
<1>4. FairRace' /\ FairCrash'
      BY DEF FairRace, FairCrash, AllUp, Raced
<1>5. \A w \in Work!Workers : worker'[w].up /\ worker'[w].fp = ""
      BY DEF WorkFair, FairPhases
<1> QED
    BY <1>1, <1>3, <1>4, <1>5

\* The checker recreates the workers, and what waits is still there.
LEMMA JobRecreates ==
    ASSUME WInv, WShow, WorkFair, faults = {}, Work!Recreate, job.state # "LEASED",
           pc' \in {"r_resumed", "r_failed"}, job.state = "READY" => ~due
    PROVE  /\ FairAttempts' /\ FairOutcome' /\ FairLeases' /\ FairRace' /\ FairCrash'
           /\ waiting' = waiting /\ job' = job
           /\ \A w \in Work!Workers : worker'[w].up /\ worker'[w].fp = ""
<1> DEFINE box == Work!Started("")
<1>1. /\ Work!Containers(Work!Workers, box) /\ waiting' = waiting
      /\ UNCHANGED <<job, due, attempts, effects, dispatches>>
      BY DEF Work!Recreate, Work!Has
<1>2. box.up /\ box.fp = "" /\ box.at = "idle" /\ box.ver = 0
      BY JobBox
<1> HIDE DEF box
<1>3. \A w \in Work!Workers : worker'[w] = box /\ acks'[w] = 0
      BY <1>1, <1>2, JobBoxes
<1>4. FairAttempts' /\ FairOutcome'
      BY <1>1, JobRests
<1>5. FairLeases'
  <2>1. job'.state # "LEASED" /\ (Work!Hurried' \/ job'.state = "READY" => ~due')
        BY <1>1 DEF Work!Hurried
  <2>2. \A w \in Work!Workers : worker'[w].at = "idle" /\ worker'[w].ver = 0 /\ (worker'[w].up => acks'[w] = 0)
        BY <1>2, <1>3
  <2> QED  BY <1>4, <2>1, <2>2, JobLeases
<1>6. FairRace' /\ FairCrash'
      BY DEF FairRace, FairCrash, Raced
<1> QED
    BY <1>1, <1>2, <1>3, <1>4, <1>5, <1>6

\* A job that failed for good has the rows that terminal_failure_consistent asks for.
LEMMA JobDead ==
    ASSUME WInv, WShow, WorkFair, job.state = "DEAD"
    PROVE  /\ Work!terminal_failure_consistent(job.count)
           /\ job.count = (IF job.mode = "retry" THEN 3 ELSE 1)
<1>1. job.count \in Nat /\ job.mode # "signal" /\ effects = 0 /\ job.count = (IF job.mode = "retry" THEN 3 ELSE 1)
      BY JobTypes DEF WorkFair, FairOutcome
<1>2. /\ job.id = 0 /\ job.exec = 0 /\ job.ver = job.count /\ Len(attempts) = job.count
      /\ \A i \in 1..job.count :
            /\ attempts[i].id = 0 /\ attempts[i].exec = 0 /\ attempts[i].ver = i
            /\ attempts[i].status = "FAILED"
      BY <1>1 DEF WorkFair, FairAttempts
<1>3. job.count \in 1..job.count
      BY <1>1
<1>4. \A i, j \in 1..job.count : i < j => attempts[i].ver < attempts[j].ver
      BY <1>2
<1> QED
    BY <1>1, <1>2, <1>3, <1>4 DEF Work!terminal_failure_consistent

\* The checker's steps of the phase resilience, up to the retry.
LEMMA JobPersistence ==
    ASSUME WInv, WShow, WorkFair, faults = {}, WorkerClaims >= 3, ~late',
           \/ Work!ResilienceStart \/ Work!ResilienceReady \/ Work!ResilienceRecreate \/ Work!ResilienceResumed
           \/ Work!ResilienceRetry \/ Work!ResilienceRetryWait \/ Work!ResilienceRetryRecreate
    PROVE  WorkFair'
<1>1. seen \in WorkSeen /\ job \in JobSchema
      BY JobTypes
<1>2. /\ waiting = "kept" /\ seen.ok /\ seen.preserved /\ seen.job.id = 0 /\ seen.job.exec = 0
      /\ job.id = 0 /\ job.exec = 0 /\ \A c \in Work!Checks : result[c] # "failed"
      BY DEF WorkFair, FairSeen, FairAttempts
<1>3. ASSUME Work!ResilienceStart
      PROVE  WorkFair'
  <2>1. /\ pc = "r_start" /\ pc' = "r_wait" /\ Work!Start("signal") /\ seen' = Work!Nothing
        /\ UNCHANGED <<worker, acks, result>>
        BY <1>3 DEF Work!ResilienceStart, Work!Go, Work!Keep
  <2>2. job.state # "LEASED" /\ pc \in AllUp /\ pc' \in AllUp
        BY <2>1 DEF WorkFair, FairPhases, JobDone, AllUp
  <2>3. /\ FairAttempts' /\ FairOutcome' /\ FairLeases' /\ FairRace' /\ FairCrash' /\ waiting' = waiting
        /\ job'.state = "READY" /\ job'.mode = "signal"
        /\ \A w \in Work!Workers : worker'[w].up /\ worker'[w].fp = ""
        BY <2>1, <2>2, JobStarts
  <2>4. FairSeen'
        BY <1>2, <2>1, <2>3 DEF FairSeen, Work!Nothing, Work!NoJob
  <2>5. FairPhases'
        BY <2>1, <2>3 DEF FairPhases, AllDown, JobDone
  <2> QED  BY <1>2, <2>1, <2>3, <2>4, <2>5 DEF WorkFair
<1>4. ASSUME Work!ResilienceReady
      PROVE  WorkFair'
  <2> DEFINE p == job.state = "SUCCEEDED"
  <2>1. pc = "r_wait" /\ (p \/ Work!Busy)
        BY <1>4, JobPolls DEF Work!ResilienceReady
  <2>2. ~Work!PollTimeout(p)
        BY <2>1, JobTimeout
  <2>3. /\ pc' = "r_ready" /\ Work!Containers(Work!Workers, Work!Stopped) /\ Work!Start("signal")
        /\ UNCHANGED <<seen, result>>
        BY <1>4, <2>2 DEF Work!ResilienceReady, Work!Go, Work!Keep
  <2>4. /\ FairAttempts' /\ FairOutcome' /\ ~due' /\ waiting' = waiting
        /\ job'.state = "READY" /\ job'.mode = "signal"
        BY <2>3, JobBegins
  <2>5. \A w \in Work!Workers : ~worker'[w].up /\ worker'[w].at = "idle" /\ worker'[w].ver = 0
        BY <2>3, JobBoxes, JobBox
  <2>6. FairLeases'
        BY <2>4, <2>5, JobLeases
  <2>7. FairSeen'
        BY <1>2, <2>3, <2>4 DEF FairSeen
  <2>8. FairPhases' /\ FairRace' /\ FairCrash'
        BY <2>3, <2>4, <2>5 DEF FairPhases, FairRace, FairCrash, AllUp, AllDown, JobDone, Raced
  <2> QED  BY <1>2, <2>3, <2>4, <2>6, <2>7, <2>8 DEF WorkFair
<1>5. ASSUME Work!ResilienceRecreate
      PROVE  WorkFair'
  <2>1. pc = "r_ready" /\ job.state = "READY" /\ job.mode = "signal" /\ ~due
        BY <1>5 DEF Work!ResilienceRecreate, WorkFair, FairPhases, AllDown, FairLeases
  <2>2. Work!Recreate /\ pc' = "r_resumed" /\ seen' = [seen EXCEPT !.job = job] /\ result' = result
        BY <1>5, <2>1 DEF Work!ResilienceRecreate, Work!Go, Work!Keep
  <2>3. /\ FairAttempts' /\ FairOutcome' /\ FairLeases' /\ FairRace' /\ FairCrash'
        /\ waiting' = waiting /\ job' = job
        /\ \A w \in Work!Workers : worker'[w].up /\ worker'[w].fp = ""
        BY <2>1, <2>2, JobRecreates
  <2>4. seen'.job = job /\ seen'.ok = seen.ok /\ seen'.preserved = seen.preserved
        BY <1>1, <2>2 DEF WorkSeen
  <2>5. FairSeen'
        BY <1>2, <2>3, <2>4 DEF FairSeen
  <2>6. FairPhases'
        BY <2>1, <2>2, <2>3 DEF FairPhases, AllDown, JobDone
  <2> QED  BY <1>2, <2>2, <2>3, <2>5, <2>6 DEF WorkFair
<1>6. ASSUME Work!ResilienceResumed
      PROVE  WorkFair'
  <2> DEFINE p == job.state = "SUCCEEDED"
             same == Work!SameJob
  <2>1. pc = "r_resumed" /\ (p \/ Work!Busy)
        BY <1>6, JobPolls DEF Work!ResilienceResumed
  <2>2. ~Work!PollTimeout(p)
        BY <2>1, JobTimeout
  <2>3. /\ p /\ pc' = "r_retry" /\ seen' = [seen EXCEPT !.preserved = same]
        /\ UNCHANGED <<job, due, attempts, effects, dispatches, waiting, worker, acks, result>>
        BY <1>6, <2>2 DEF Work!ResilienceResumed, Work!Go, Work!Keep, Work!engine
  <2>4. same
        BY <1>2 DEF Work!SameJob
  <2> HIDE DEF same
  <2>5. seen'.job = seen.job /\ seen'.ok = seen.ok /\ seen'.preserved
        BY <1>1, <2>3, <2>4 DEF WorkSeen
  <2>6. FairSeen'
        BY <1>2, <2>3, <2>5 DEF FairSeen
  <2>7. pc \in AllUp /\ pc' \in AllUp /\ ~Work!Hurried'
        BY <2>1, <2>3 DEF AllUp, Work!Hurried
  <2>8. /\ FairAttempts' /\ FairOutcome' /\ FairLeases' /\ FairRace' /\ FairCrash'
        /\ \A w \in Work!Workers : worker'[w].up /\ worker'[w].fp = ""
        BY <2>3, <2>7, JobReads
  <2>9. FairPhases'
        BY <2>3, <2>8 DEF FairPhases, AllDown, JobDone
  <2> QED  BY <1>2, <2>3, <2>6, <2>8, <2>9 DEF WorkFair
<1>7. ASSUME Work!ResilienceRetry
      PROVE  WorkFair'
  <2>1. /\ pc = "r_retry" /\ pc' = "r_retrywait" /\ Work!Start("retry")
        /\ UNCHANGED <<worker, acks, seen, result>>
        BY <1>7 DEF Work!ResilienceRetry, Work!Go, Work!Keep
  <2>2. job.state # "LEASED" /\ pc \in AllUp /\ pc' \in AllUp
        BY <2>1 DEF WorkFair, FairPhases, JobDone, AllUp
  <2>3. /\ FairAttempts' /\ FairOutcome' /\ FairLeases' /\ FairRace' /\ FairCrash' /\ waiting' = waiting
        /\ job'.state = "READY" /\ job'.mode = "retry" /\ job'.count = 0
        /\ \A w \in Work!Workers : worker'[w].up /\ worker'[w].fp = ""
        BY <2>1, <2>2, JobStarts
  <2>4. FairSeen'
        BY <1>2, <2>1, <2>3 DEF FairSeen
  <2>5. FairPhases'
    <3>1. job'.count = 0
          BY <2>3
    <3>2. job'.count <= 1
          BY <3>1
    <3> QED  BY <2>1, <2>3, <3>2 DEF FairPhases, AllDown, JobDone
  <2> QED  BY <1>2, <2>1, <2>3, <2>4, <2>5 DEF WorkFair
<1>8. ASSUME Work!ResilienceRetryWait
      PROVE  WorkFair'
  <2> DEFINE p == job.state = "RETRY_WAIT"
  <2>1. pc = "r_retrywait" /\ (p \/ Work!Busy)
        BY <1>8, JobPolls DEF Work!ResilienceRetryWait
  <2>2. ~Work!PollTimeout(p)
        BY <2>1, JobTimeout
  <2>3. /\ p /\ pc' = "r_recreate" /\ seen' = [seen EXCEPT !.job = job]
        /\ UNCHANGED <<job, due, attempts, effects, dispatches, waiting, worker, acks, result>>
        BY <1>8, <2>2 DEF Work!ResilienceRetryWait, Work!Go, Work!Keep, Work!engine
  <2>4. seen'.job = job /\ seen'.ok = seen.ok /\ seen'.preserved = seen.preserved
        BY <1>1, <2>3 DEF WorkSeen
  <2>5. FairSeen'
        BY <1>2, <2>3, <2>4 DEF FairSeen
  <2>6. pc \in AllUp /\ pc' \in AllUp /\ ~due
        BY <2>1, <2>3 DEF AllUp, WorkFair, FairLeases, Work!Hurried
  <2>7. /\ FairAttempts' /\ FairOutcome' /\ FairLeases' /\ FairRace' /\ FairCrash'
        /\ \A w \in Work!Workers : worker'[w].up /\ worker'[w].fp = ""
        BY <2>3, <2>6, JobReads
  <2>8. FairPhases'
    <3>1. job'.state = "RETRY_WAIT" /\ job'.mode = "retry"
          BY <2>1, <2>3 DEF WorkFair, FairPhases
    <3> QED  BY <2>3, <2>7, <3>1 DEF FairPhases, AllDown, JobDone
  <2> QED  BY <1>2, <2>3, <2>5, <2>7, <2>8 DEF WorkFair
<1>9. ASSUME Work!ResilienceRetryRecreate
      PROVE  WorkFair'
  <2>1. pc = "r_recreate" /\ pc' = "r_failed" /\ Work!Recreate /\ UNCHANGED <<seen, result>>
        BY <1>9 DEF Work!ResilienceRetryRecreate, Work!Go, Work!Keep
  <2>2. job.state = "RETRY_WAIT" /\ job.mode = "retry"
        BY <2>1 DEF WorkFair, FairPhases
  <2>3. /\ FairAttempts' /\ FairOutcome' /\ FairLeases' /\ FairRace' /\ FairCrash'
        /\ waiting' = waiting /\ job' = job
        /\ \A w \in Work!Workers : worker'[w].up /\ worker'[w].fp = ""
        BY <2>1, <2>2, JobRecreates
  <2>4. FairSeen'
        BY <1>2, <2>1, <2>3 DEF FairSeen
  <2>5. FairPhases'
        BY <2>1, <2>2, <2>3 DEF FairPhases, AllDown, JobDone
  <2> QED  BY <1>2, <2>1, <2>3, <2>4, <2>5 DEF WorkFair
<1> QED
    BY <1>3, <1>4, <1>5, <1>6, <1>7, <1>8, <1>9

\* The checker's steps of the phase resilience, from the first terminal failure.
LEMMA JobTerminal ==
    ASSUME WInv, WShow, WorkFair, faults = {}, WorkerClaims >= 3, ~late',
           NEW step \in {"r_failed", "t_error", "t_invalid"}, NEW mode \in {"error", "invalid", ""},
           NEW next \in {"t_error", "t_invalid", "r_verdict"}, NEW n \in {1, 3}, Work!Terminal(step, n, mode, next),
           step = "r_failed" <=> n = 3, next = "t_error" <=> mode = "error", next = "t_invalid" <=> mode = "invalid"
    PROVE  WorkFair'
<1>1. seen \in WorkSeen /\ job \in JobSchema
      BY JobTypes
<1>2. /\ waiting = "kept" /\ seen.ok /\ seen.preserved /\ seen.job.id = 0 /\ seen.job.exec = 0
      /\ job.id = 0 /\ job.exec = 0 /\ \A c \in Work!Checks : result[c] # "failed"
      BY DEF WorkFair, FairSeen, FairAttempts
<1> DEFINE p == job.state = "DEAD"
           ok == seen.ok /\ Work!terminal_failure_consistent(n)
           kept == seen.preserved /\ (step = "r_failed" => Work!SameJob)
<1>3. pc = step /\ (p \/ Work!Busy)
      BY JobPolls DEF Work!Terminal
<1>4. ~Work!PollTimeout(p)
      BY <1>3, JobTimeout
<1>5. /\ p /\ pc' = next /\ seen' = [seen EXCEPT !.ok = ok, !.preserved = kept]
      /\ IF mode = "" THEN UNCHANGED Work!engine ELSE Work!Start(mode)
      /\ UNCHANGED <<worker, acks, result>>
      BY <1>4 DEF Work!Terminal, Work!Go, Work!Keep
<1>6. ok /\ kept
  <2>1. job.mode = "retry" <=> step = "r_failed"
        BY <1>3 DEF WorkFair, FairPhases
  <2>2. job.count = n
        BY <1>5, <2>1, JobDead
  <2> QED  BY <1>2, <1>5, <2>2, JobDead DEF Work!SameJob
<1> HIDE DEF ok, kept
<1>7. seen'.job = seen.job /\ seen'.ok /\ seen'.preserved
      BY <1>1, <1>5, <1>6 DEF WorkSeen
<1>8. pc \in AllUp /\ pc' \in AllUp /\ ~Work!Hurried'
      BY <1>3, <1>5 DEF AllUp, Work!Hurried
<1>9. CASE mode # ""
  <2>1. mode \in {"error", "invalid"} /\ Work!Start(mode)
        BY <1>5, <1>9
  <2>2. /\ FairAttempts' /\ FairOutcome' /\ FairLeases' /\ FairRace' /\ FairCrash' /\ waiting' = waiting
        /\ job'.state = "READY" /\ job'.mode = mode
        /\ \A w \in Work!Workers : worker'[w].up /\ worker'[w].fp = ""
        BY <1>5, <1>8, <2>1, JobStarts
  <2>3. FairSeen'
        BY <1>2, <1>7, <2>2 DEF FairSeen
  <2>4. FairPhases'
        BY <1>5, <2>1, <2>2 DEF FairPhases, AllDown, JobDone
  <2> QED  BY <1>2, <1>5, <2>2, <2>3, <2>4 DEF WorkFair
<1>10. CASE mode = ""
  <2>1. UNCHANGED <<job, due, attempts, effects, dispatches, waiting>> /\ pc' = "r_verdict"
        BY <1>5, <1>10 DEF Work!engine
  <2>2. /\ FairAttempts' /\ FairOutcome' /\ FairLeases' /\ FairRace' /\ FairCrash'
        /\ \A w \in Work!Workers : worker'[w].up /\ worker'[w].fp = ""
        BY <1>5, <1>8, <2>1, JobReads
  <2>3. FairSeen'
        BY <1>2, <1>7, <2>1 DEF FairSeen
  <2>4. FairPhases'
    <3>1. job'.state = "DEAD"
          BY <1>5, <2>1
    <3> QED  BY <2>1, <2>2, <3>1 DEF FairPhases, AllDown, JobDone
  <2> QED  BY <1>2, <1>5, <2>2, <2>3, <2>4 DEF WorkFair
<1> QED
    BY <1>9, <1>10

LEMMA JobVerdicts ==
    ASSUME WInv, WShow, WorkFair, Work!ResilienceVerdict
    PROVE  WorkFair'
<1> DEFINE b == "bounded-retry-and-terminal-failures"
           q == "worker-recreate-persistence"
<1>1. /\ pc = "r_verdict" /\ pc' = "done"
      /\ result' = [result EXCEPT ![b] = IF seen.ok THEN "passed" ELSE "failed",
                                  ![q] = IF Work!Persistence THEN "passed" ELSE "failed"]
      /\ UNCHANGED <<job, due, attempts, effects, dispatches, waiting, worker, acks, seen>>
      BY DEF Work!ResilienceVerdict, Work!Go, Work!engine
<1>2. /\ waiting = "kept" /\ seen.ok /\ seen.preserved /\ seen.job.id = 0 /\ seen.job.exec = 0
      /\ \A c \in Work!Checks : result[c] # "failed"
      BY DEF WorkFair, FairSeen
<1>3. \A c \in Work!Checks : result'[c] # "failed"
  <2>1. result' = [result EXCEPT ![b] = "passed", ![q] = "passed"]
        BY <1>1, <1>2 DEF Work!Persistence
  <2>2. result \in [Work!Checks -> {"absent", "passed", "failed"}]
        BY DEF WInv, WorkChecker
  <2> HIDE DEF b, q
  <2> QED  BY <1>2, <2>1, <2>2
<1>4. job.state = "DEAD" /\ pc \in AllUp /\ pc' \in AllUp /\ ~Work!Hurried'
      BY <1>1 DEF WorkFair, FairPhases, AllUp, Work!Hurried
<1>5. /\ FairAttempts' /\ FairOutcome' /\ FairLeases' /\ FairRace' /\ FairCrash'
      /\ \A w \in Work!Workers : worker'[w].up /\ worker'[w].fp = ""
      BY <1>1, <1>4, JobReads
<1>6. FairSeen'
      BY <1>1, <1>2 DEF FairSeen
<1>7. FairPhases'
  <2>1. job'.state = "DEAD"
        BY <1>1, <1>4
  <2> QED  BY <1>1, <1>5, <2>1 DEF FairPhases, AllDown, JobDone
<1> QED
    BY <1>3, <1>5, <1>6, <1>7 DEF WorkFair

\* Time that was lost stays lost.
LEMMA WorkLateStays ==
    ASSUME Work!Next, late
    PROVE  late'
<1> USE DEF Work!Keep, Work!Unseen
<1>1. ASSUME NEW p, Work!PollTimeout(p)
      PROVE  late'
      BY <1>1 DEF Work!PollTimeout, Work!Contract
<1>2. CASE Work!Engine
      BY <1>2 DEF Work!Engine, Work!Claim, Work!DoubleClaim, Work!Act, Work!Finish, Work!Fail, Work!TimePasses
<1>3. CASE \/ Work!ConcurrencyStart \/ Work!ConcurrencyBoot \/ Work!ConcurrencyAttempts \/ Work!StaleFinish
           \/ Work!ConcurrencyRestart \/ Work!Restore("c_restore") \/ Work!RecoveryStart \/ Work!RecoveryBoot
           \/ Work!RecoveryCrash \/ Work!Restore("a_restore") \/ Work!ResilienceStart
           \/ Work!ResilienceRecreate \/ Work!ResilienceRetry \/ Work!ResilienceRetryRecreate
           \/ Work!ResilienceVerdict
      BY <1>3 DEF Work!ConcurrencyStart, Work!ConcurrencyBoot, Work!ConcurrencyAttempts, Work!StaleFinish,
         Work!ConcurrencyRestart, Work!Restore, Work!RecoveryStart, Work!RecoveryBoot, Work!RecoveryCrash,
         Work!ResilienceStart, Work!ResilienceRecreate, Work!ResilienceRetry,
         Work!ResilienceRetryRecreate, Work!ResilienceVerdict, Work!Contract
<1>4. CASE Work!ConcurrencyKill \/ Work!ConcurrencyLoser \/ Work!RecoveryKill
      BY <1>1, <1>4 DEF Work!ConcurrencyKill, Work!ConcurrencyLoser, Work!RecoveryKill, Work!wait_failpoint,
         Work!Contract
<1>5. CASE Work!ConcurrencyClaim \/ Work!ConcurrencyReclaim \/ Work!ConcurrencyVerdict \/ Work!RecoveryVerdict
      BY <1>1, <1>5 DEF Work!ConcurrencyClaim, Work!ConcurrencyReclaim, Work!ConcurrencyVerdict,
         Work!RecoveryVerdict
<1>6. CASE Work!ResilienceReady \/ Work!ResilienceResumed \/ Work!ResilienceRetryWait
      BY <1>1, <1>6 DEF Work!ResilienceReady, Work!ResilienceResumed, Work!ResilienceRetryWait
<1>7. CASE Work!ResilienceRetried \/ Work!ResilienceError \/ Work!ResilienceInvalid
      BY <1>1, <1>7 DEF Work!ResilienceRetried, Work!ResilienceError, Work!ResilienceInvalid, Work!Terminal
<1> QED
    BY <1>2, <1>3, <1>4, <1>5, <1>6, <1>7 DEF Work!Next, Work!Checker

\* An engine without faults goes through the three phases as they expect, unless time was lost.
WFair == faults = {} /\ ~late => WorkFair

LEMMA WorkFairs ==
    ASSUME WorkerClaims >= 3
    PROVE  /\ Work!Init => WFair
           /\ WInv /\ WShow /\ WFair /\ Work!Next => WFair'
<1>1. Work!Init => WFair
  <2> SUFFICES ASSUME Work!Init
               PROVE  WorkFair
      BY DEF WFair
  <2>1. /\ pc = "c_start" /\ job = Work!NoJob /\ due = FALSE /\ attempts = <<>> /\ effects = 0 /\ dispatches = 0
        /\ waiting = "kept" /\ seen = Work!Nothing /\ worker = [w \in Work!Workers |-> Work!Started("")]
        /\ acks = [w \in Work!Workers |-> 0] /\ result = [c \in Work!Checks |-> "absent"]
        BY DEF Work!Init
  <2>2. job.state = "none" /\ job.mode = "signal" /\ job.count = 0 /\ job.ver = 0 /\ job.id = 0 /\ job.exec = 0
        BY <2>1 DEF Work!NoJob
  <2>3. FairSeen /\ \A c \in Work!Checks : result[c] # "failed"
        BY <2>1 DEF FairSeen, Work!Nothing, Work!NoJob
  <2>4. FairAttempts
    <3>1. Len(attempts) = 0
          BY <2>1
    <3>2. 1..0 = {}
          OBVIOUS
    <3> QED  BY <2>2, <3>1, <3>2 DEF FairAttempts
  <2>5. FairOutcome
        BY <2>1, <2>2 DEF FairOutcome
  <2>6. \A w \in Work!Workers : /\ worker[w].up /\ worker[w].fp = "" /\ worker[w].at = "idle"
                                /\ worker[w].ver = 0 /\ acks[w] = 0
        BY <2>1 DEF Work!Started
  <2>7. FairLeases
        BY <2>1, <2>2, <2>6 DEF FairLeases, FairLease, Work!Holds, Work!Paused
  <2>8. FairPhases /\ FairRace /\ FairCrash
        BY <2>1, <2>2, <2>6 DEF FairPhases, FairRace, FairCrash, AllUp, AllDown, JobDone, Raced
  <2> QED  BY <2>3, <2>4, <2>5, <2>7, <2>8 DEF WorkFair
<1>2. ASSUME WInv, WShow, WFair, Work!Next
      PROVE  WFair'
  <2>1. faults' = faults /\ (late => late') /\ late \in BOOLEAN
        BY <1>2, WorkFaultsFixed, WorkLateStays DEF WInv, WorkChecker
  <2> SUFFICES ASSUME faults = {}, WorkFair, ~late'
               PROVE  WorkFair'
      BY <1>2, <2>1 DEF WFair
  <2>2. CASE Work!Engine
    <3>1. \A w \in Work!Workers : ~Work!DoubleClaim(w)
          BY DEF Work!DoubleClaim, Work!Has
    <3> QED  BY <1>2, <2>2, <3>1, JobClaims, JobActs, JobFinishes, JobFails, JobWaits DEF Work!Engine
  <2>3. CASE \/ Work!ConcurrencyStart \/ Work!ConcurrencyBoot \/ Work!ConcurrencyClaim \/ Work!ConcurrencyKill
             \/ Work!ConcurrencyLoser \/ Work!ConcurrencyReclaim
        BY <1>2, <2>3, JobConcurrency
  <2>4. CASE Work!ConcurrencyAttempts \/ Work!StaleFinish \/ Work!ConcurrencyRestart \/ Work!ConcurrencyVerdict
        BY <1>2, <2>4, JobTakenOver
  <2>5. CASE \/ Work!RecoveryStart \/ Work!RecoveryBoot \/ Work!RecoveryKill \/ Work!RecoveryCrash
             \/ Work!RecoveryVerdict
        BY <1>2, <2>5, JobRecovery
  <2>6. CASE Work!Restore("c_restore") \/ Work!Restore("a_restore")
        BY <1>2, <2>6, JobRestores
  <2>7. CASE \/ Work!ResilienceStart \/ Work!ResilienceReady \/ Work!ResilienceRecreate \/ Work!ResilienceResumed
             \/ Work!ResilienceRetry \/ Work!ResilienceRetryWait \/ Work!ResilienceRetryRecreate
        BY <1>2, <2>7, JobPersistence
  <2>8. CASE Work!ResilienceRetried
        BY <1>2, <2>8, JobTerminal DEF Work!ResilienceRetried, Work!MaxAttempts
  <2>9. CASE Work!ResilienceError
        BY <1>2, <2>9, JobTerminal DEF Work!ResilienceError
  <2>10. CASE Work!ResilienceInvalid
    <3>1. Work!Terminal("t_invalid", 1, "", "r_verdict")
          BY <2>10 DEF Work!ResilienceInvalid
    <3>2. /\ "t_invalid" \in {"r_failed", "t_error", "t_invalid"} /\ "" \in {"error", "invalid", ""}
          /\ "r_verdict" \in {"t_error", "t_invalid", "r_verdict"}
          OBVIOUS
    <3>3. 1 \in {1, 3} /\ 1 # 3
          OBVIOUS
    <3>4. "t_invalid" # "r_failed" /\ "r_verdict" # "t_error" /\ "r_verdict" # "t_invalid"
          OBVIOUS
    <3>5. "" # "error" /\ "" # "invalid"
          OBVIOUS
    <3> QED  BY <1>2, <3>1, <3>2, <3>3, <3>4, <3>5, JobTerminal, Zenon
  <2>11. CASE Work!ResilienceVerdict
        BY <1>2, <2>11, JobVerdicts
  <2> QED  BY <1>2, <2>2, <2>3, <2>4, <2>5, <2>6, <2>7, <2>8, <2>9, <2>10, <2>11
           DEF Work!Next, Work!Checker
<1> QED
    BY <1>1, <1>2

-----------------------------------------------------------------------------
(* All scenarios *)

FairInv ==
    /\ program = "worker" => WFair
    /\ program = "signal" => GFair
    /\ program = "outage" => OFair
    /\ program = "receipt" => RFair

LEMMA FairRests ==
    ASSUME FairInv, UNCHANGED vars
    PROVE  FairInv'
<1>1. /\ UNCHANGED <<program, pc, extra, faults, due, seen, late, verdict, result, events>>
      /\ UNCHANGED <<job, attempts, effects, dispatches, waiting, worker, acks>>
      /\ UNCHANGED <<active, proc, signals, up>>
      /\ UNCHANGED <<row, disp, provider, payments, operation, pending, docker>>
      /\ UNCHANGED <<op, outbox, paid, inbox, decided, hand, dispatching, reconciling, before>>
      BY DEF vars, phase, candidate, workerOnly, signalOnly, outageOnly, receiptOnly
<1>2. WFair => WFair'
  <2>1. FairAttempts' <=> FairAttempts
        BY <1>1 DEF FairAttempts
  <2>2. FairOutcome' <=> FairOutcome
        BY <1>1 DEF FairOutcome
  <2>3. FairLeases' <=> FairLeases
    <3>1. \A w : FairLease(w)' <=> FairLease(w)
          BY <1>1 DEF FairLease, Work!Holds, Work!Paused
    <3>2. Orphaned' <=> Orphaned
          BY <1>1 DEF Orphaned
    <3>3. (Work!Holds(job.owner))' <=> Work!Holds(job.owner)
          BY <1>1 DEF Work!Holds
    <3>4. Work!Hurried' <=> Work!Hurried
          BY <1>1 DEF Work!Hurried
    <3> QED  BY <1>1, <3>1, <3>2, <3>3, <3>4 DEF FairLeases
  <2>4. FairPhases' <=> FairPhases
        BY <1>1 DEF FairPhases
  <2>5. FairRace' <=> FairRace
        BY <1>1 DEF FairRace
  <2>6. FairCrash' <=> FairCrash
        BY <1>1 DEF FairCrash
  <2>7. FairSeen' <=> FairSeen
        BY <1>1 DEF FairSeen
  <2> QED  BY <1>1, <2>1, <2>2, <2>3, <2>4, <2>5, <2>6, <2>7 DEF WFair, WorkFair
<1>3. GFair => GFair'
  <2>1. FairSignal' <=> FairSignal
        BY <1>1 DEF FairSignal, Began, Arrived, Sign!ActionRows
  <2>2. FairEarly' <=> FairEarly
        BY <1>1 DEF FairEarly, Began
  <2>3. FairVersions' <=> FairVersions
        BY <1>1 DEF FairVersions, Began, Arrived, Sign!ActionRows
  <2> QED  BY <1>1, <2>1, <2>2, <2>3 DEF GFair, SignFair
<1>4. OFair => OFair'
  <2>1. FairDelivery' <=> FairDelivery
        BY <1>1 DEF FairDelivery
  <2>2. FairSteps' <=> FairSteps
        BY <1>1 DEF FairSteps
  <2>3. FairOpen' <=> FairOpen
        BY <1>1 DEF FairOpen, Open
  <2> QED  BY <1>1, <2>1, <2>2, <2>3 DEF OFair, OutaFair
<1>5. RFair => RFair'
  <2>1. \A o : FairPayment(o)' <=> FairPayment(o)
        BY <1>1 DEF FairPayment, NoRows, OneRow
  <2>2. FairProgress' <=> FairProgress
        BY <1>1 DEF FairProgress
  <2>3. FairHands' <=> FairHands
        BY <1>1 DEF FairHands
  <2>4. FairReview' <=> FairReview
        BY <1>1 DEF FairReview
  <2>5. FairProbe' <=> FairProbe
        BY <1>1 DEF FairProbe, Rece!Snapshot
  <2>6. FairTables' <=> FairTables
        BY <2>1, <2>2, <2>3, <2>4, <2>5 DEF FairTables
  <2> QED  BY <1>1, <2>6 DEF RFair, ReceFair
<1> QED
    BY <1>1, <1>2, <1>3, <1>4, <1>5 DEF FairInv

LEMMA FairInvHolds ==
    ASSUME WorkerClaims >= 3, OutageClaims >= OutageAttempts
    PROVE  Spec => []FairInv
<1>1. Init => FairInv
  <2>1. /\ Init /\ program = "worker" => Work!Init
        /\ Init /\ program = "signal" => Sign!Init
        /\ Init /\ program = "outage" => Outa!Init
        /\ Init /\ program = "receipt" => Rece!Init
        BY DEF Init
  <2> QED  BY <2>1, WorkFairs, SignFairs, OutaFairs, ReceFairs DEF FairInv
<1>2. ProbesInv /\ FairInv /\ [Next]_vars => FairInv'
  <2> SUFFICES ASSUME ProbesInv, FairInv, [Next]_vars
               PROVE  FairInv'
      OBVIOUS
  <2>1. CASE WorkStep
    <3>1. program = "worker" /\ program' = "worker" /\ Work!Next
          BY <2>1 DEF WorkStep
    <3>2. WFair'
          BY <3>1, WorkFairs DEF FairInv, ProbesInv
    <3> QED  BY <3>1, <3>2 DEF FairInv
  <2>2. CASE SignStep
    <3>1. program = "signal" /\ program' = "signal" /\ Sign!Next
          BY <2>2 DEF SignStep
    <3>2. GFair'
          BY <3>1, SignFairs DEF FairInv, ProbesInv
    <3> QED  BY <3>1, <3>2 DEF FairInv
  <2>3. CASE OutaStep
    <3>1. program = "outage" /\ program' = "outage" /\ Outa!Next
          BY <2>3 DEF OutaStep
    <3>2. OFair'
          BY <3>1, OutaFairs DEF FairInv, ProbesInv
    <3> QED  BY <3>1, <3>2 DEF FairInv
  <2>4. CASE ReceStep
    <3>1. program = "receipt" /\ program' = "receipt" /\ Rece!Next
          BY <2>4 DEF ReceStep
    <3>2. RFair'
          BY <3>1, ReceFairs DEF FairInv, ProbesInv
    <3> QED  BY <3>1, <3>2 DEF FairInv
  <2>5. CASE RunStep \/ StagStep
        BY <2>5 DEF RunStep, StagStep, FairInv
  <2>6. CASE UNCHANGED vars
        BY <2>6, FairRests
  <2> QED  BY <2>1, <2>2, <2>3, <2>4, <2>5, <2>6 DEF Next
<1> QED
    BY <1>1, <1>2, ProbesInvHolds, PTL DEF Spec

\* No check of week 2 and no scenario of week 4 fails a candidate without faults, however its
\* workers, dispatchers, leases and delays interleave with the checker, unless a deadline, a
\* lease or a delay passed while something still had to be done, or Docker failed.  The bounds
\* of the model leave a job the three claims, and a delivery the attempts, of the contract.
THEOREM FailuresAreEarned ==
    WorkerClaims >= 3 /\ OutageClaims >= OutageAttempts => (Spec => []NoFalseFail)
<1> SUFFICES ASSUME WorkerClaims >= 3, OutageClaims >= OutageAttempts
             PROVE  Spec => []NoFalseFail
    OBVIOUS
<1>1. FairInv => NoFalseFail
  <2> SUFFICES ASSUME FairInv
               PROVE  NoFalseFail
      OBVIOUS
  <2>1. program = "worker" => Work!NoFalseFail
        BY DEF FairInv, WFair, WorkFair, Work!NoFalseFail
  <2>2. program = "signal" => Sign!NoFalseFail
        BY DEF FairInv, GFair, SignFair, Sign!NoFalseFail
  <2>3. program = "outage" => Outa!NoFalseFail
        BY DEF FairInv, OFair, OutaFair, Outa!NoFalseFail
  <2>4. program = "receipt" => Rece!NoFalseFail
        BY DEF FairInv, RFair, ReceFair, Rece!NoFalseFail
  <2> QED  BY <2>1, <2>2, <2>3, <2>4 DEF NoFalseFail
<1> QED
    BY <1>1, FairInvHolds, PTL

==============================================================================
