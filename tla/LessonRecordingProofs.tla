----------------------- MODULE LessonRecordingProofs ------------------------
(***************************************************************************)
(* The recording of a lesson keeps its promises, and implements            *)
(* LessonLifecycle, for any number of Egresses and sessions, any sizes and *)
(* any number of reschedules and failed sweeps.                            *)
(***************************************************************************)
EXTENDS LessonRecordingProperties, FiniteSetTheorems, WellFoundedInduction, TLAPS

\* What an open start relies on: the lesson has not left the room, nobody else
\* records the session, and the Egress it started is of that session.
StarterSound ==
    starter.open =>
        /\ lesson.status \in {"scheduled", "live"}
        /\ ~RecordedIn(starter.session)
        /\ starter.egress # None =>
               egress[starter.egress] # "unused" /\ session[starter.egress] = starter.session

\* Only a lesson that left the room has a recording, and what follows the
\* recording needs it.
RecordingSound ==
    /\ lesson.recording # None => lesson.status \in {"processing", "done"}
    /\ ready \/ lesson.transcript => lesson.recording # None

\* A segment failed because its Egress did, or was given up as lost: only the
\* second can turn out complete.
FailedIsKnown ==
    \A e \in Egresses : seg[e] = "failed" => e \in excused \/ egress[e] = "failed"

Inv ==
    /\ TypeOK /\ StarterSound /\ RecordingSound /\ FailedIsKnown
    /\ OneActivePerSession /\ ClosedIsQuiet /\ BiggestWins

-----------------------------------------------------------------------------
\* The biggest segment and what closing does

\* Among finitely many segments one is the biggest: the one with the least set
\* of bigger ones.
LEMMA BiggestIsBiggest ==
    ASSUME NEW es \in SUBSET Egresses, es # {}
    PROVE  Biggest(es) \in es /\ \A d \in es : SizeOf[d] <= SizeOf[Biggest(es)]
<1> DEFINE Above(e) == {d \in es : SizeOf[e] < SizeOf[d]}
           Aboves == {Above(e) : e \in es}
<1>1. IsFiniteSet(es) /\ \A e \in es : SizeOf[e] \in Nat
  BY FS_Subset, LessonRecordingAssumption
<1>2. Aboves \subseteq FiniteSubsetsOf(es)
  <2>1. \A e \in es : Above(e) \in SUBSET es
    OBVIOUS
  <2>2. \A e \in es : IsFiniteSet(Above(e))
    BY <1>1, <2>1, FS_Subset
  <2> QED BY <2>1, <2>2 DEF FiniteSubsetsOf
<1>3. Aboves # {}
  OBVIOUS
<1>4. PICK least \in Aboves : \A other \in Aboves : ~(<<other, least>> \in StrictSubsetOrdering(es))
  BY <1>2, <1>3, WFMin, FS_StrictSubsetOrderingWellFounded
<1>5. PICK e \in es : least = Above(e)
  OBVIOUS
<1>6. \A d \in es : SizeOf[d] <= SizeOf[e]
  <2>1. SUFFICES ASSUME NEW d \in es, SizeOf[e] < SizeOf[d]
                 PROVE  FALSE
    BY <1>1
  <2>2. d \in Above(e) /\ d \notin Above(d) /\ Above(d) \subseteq Above(e)
    BY <1>1, <2>1
  <2>3. <<Above(d), Above(e)>> \in StrictSubsetOrdering(es)
    BY <2>2 DEF StrictSubsetOrdering
  <2> QED BY <1>4, <1>5, <2>3
<1> QED BY <1>6 DEF Biggest

\* What closing may do to the lesson: nothing; end it unrecorded; or give it
\* the biggest complete segment as its recording.
Unrecorded(segs) ==
    /\ lesson.status \in {"scheduled", "live"} /\ WithStatus(segs, "active") = {}
    /\ lesson' = [lesson EXCEPT !.status = "done"] /\ ready' = ready

Recorded(segs, r) ==
    /\ lesson.status \in {"scheduled", "live", "done"} /\ WithStatus(segs, "active") = {}
    /\ lesson.recording = None /\ ~lesson.transcript
    /\ segs[r] = "complete" /\ \A e \in WithStatus(segs, "complete") : SizeOf[e] <= SizeOf[r]
    /\ lesson' = [lesson EXCEPT !.status = "processing", !.recording = r] /\ ready' = TRUE

LEMMA ClosingStep ==
    ASSUME TypeOK, RecordingSound, NEW segs, CloseIfOver(segs)
    PROVE  \/ lesson' = lesson /\ ready' = ready
           \/ Unrecorded(segs)
           \/ \E r \in Egresses : Recorded(segs, r)
<1> DEFINE whole == WithStatus(segs, "complete")
<1>1. CASE ~Closes(segs)
  BY <1>1 DEF CloseIfOver
<1>2. CASE Closes(segs) /\ whole = {}
  <2>1. lesson.status \in {"scheduled", "live"}
    BY <1>2 DEF Closes, LessonToClose
  <2> QED BY <1>2, <2>1 DEF CloseIfOver, Closes, Unrecorded
<1>3. CASE Closes(segs) /\ whole # {}
  <2>1. whole \in SUBSET Egresses /\ \A e \in whole : segs[e] = "complete"
    BY DEF WithStatus
  <2>2. Biggest(whole) \in whole /\ \A e \in whole : SizeOf[e] <= SizeOf[Biggest(whole)]
    BY <1>3, <2>1, BiggestIsBiggest
  <2>3. /\ lesson.status \in {"scheduled", "live", "done"}
        /\ lesson.recording = None /\ ~lesson.transcript
    BY <1>3 DEF Closes, LessonToClose, TypeOK, RecordingSound
  <2>4. Recorded(segs, Biggest(whole))
    BY <1>3, <2>1, <2>2, <2>3 DEF CloseIfOver, Closes, Recorded
  <2> QED BY <2>1, <2>2, <2>4
<1> QED BY <1>1, <1>2, <1>3

-----------------------------------------------------------------------------
\* Every action keeps the invariant

LEMMA InitKeepsInv == Init => Inv
<1> SUFFICES ASSUME Init PROVE Inv
  OBVIOUS
<1>1. TypeOK
  <2>1. starter \in [open : BOOLEAN, session : Sessions \cup {None}, egress : Egresses \cup {None}]
    BY DEF Init, NoStart
  <2>2. /\ sweep \in [stage : {"idle", "stopping", "closing"}, overdue : SUBSET Egresses]
        /\ spent \in [move : 0..MoveLimit, crash : 0..CrashLimit]
    BY LessonRecordingAssumption DEF Init, NoSweep
  <2>3. /\ lesson \in [status : Statuses, recording : Egresses \cup {None}, transcript : BOOLEAN]
        /\ seg \in [Egresses -> SegStatuses] /\ \A e \in Egresses : seg[e] = "absent"
    BY DEF Init, Statuses, SegStatuses
  <2> QED BY <2>1, <2>2, <2>3 DEF Init, TypeOK
<1>2. StarterSound /\ RecordingSound /\ FailedIsKnown
  BY DEF Init, StarterSound, RecordingSound, FailedIsKnown, NoStart
<1>3. OneActivePerSession /\ ClosedIsQuiet /\ BiggestWins
  BY DEF Init, OneActivePerSession, ClosedIsQuiet, BiggestWins, WithStatus
<1> QED BY <1>1, <1>2, <1>3 DEF Inv

\* Steps that change neither the lesson nor its segments nor the start: the
\* clock, a reschedule, an Egress that ends and most of the sweep.
EgressesGoOn ==
    /\ egress' \in [Egresses -> {"unused", "recording", "complete", "failed"}]
    /\ \A e \in Egresses :
           \/ egress'[e] = egress[e]
           \/ egress[e] = "recording" /\ egress'[e] # "unused"

LEMMA QuietStep ==
    ASSUME Inv, UNCHANGED <<lesson, seg, session, starter, ready, dead, excused>>,
           phase' \in Phases, EgressesGoOn,
           sweep' \in [stage : {"idle", "stopping", "closing"}, overdue : SUBSET Egresses],
           spent' \in [move : 0..MoveLimit, crash : 0..CrashLimit]
    PROVE  Inv'
<1> USE DEF Inv
<1>1. TypeOK'
  BY DEF TypeOK, EgressesGoOn
<1>2. StarterSound'
  <2>1. RecordedIn(starter.session)' <=> RecordedIn(starter.session)
    BY DEF RecordedIn
  <2> QED BY <2>1 DEF StarterSound, TypeOK, EgressesGoOn
<1>3. RecordingSound'
  BY DEF RecordingSound
<1>4. FailedIsKnown'
  BY DEF FailedIsKnown, EgressesGoOn
<1>5. OneActivePerSession' /\ ClosedIsQuiet' /\ BiggestWins'
  BY DEF OneActivePerSession, ClosedIsQuiet, BiggestWins, WithStatus
<1> QED BY <1>1, <1>2, <1>3, <1>4, <1>5

\* An Egress that is left alone, or ends.
LEMMA EgressKept ==
    ASSUME TypeOK, UNCHANGED egress
    PROVE  EgressesGoOn
BY DEF TypeOK, EgressesGoOn

LEMMA EgressStopped ==
    ASSUME TypeOK, NEW e \in Egresses, egress[e] = "recording",
           NEW end \in {"recording", "complete", "failed"}, egress' = [egress EXCEPT ![e] = end]
    PROVE  EgressesGoOn
BY DEF TypeOK, EgressesGoOn

LEMMA TimeSteps ==
    ASSUME Inv, Tick \/ RescheduleLesson \/ \E e \in Egresses : EgressEnds(e)
    PROVE  Inv'
<1>1. TypeOK
  BY DEF Inv
<1>2. CASE Tick
  <2>1. phase' \in Phases
    BY <1>1, <1>2 DEF Tick, TypeOK, Phases
  <2>2. EgressesGoOn
    BY <1>1, <1>2, EgressKept DEF Tick
  <2>3. UNCHANGED <<lesson, seg, session, starter, ready, dead, excused, sweep, spent>>
    BY <1>2 DEF Tick
  <2> QED BY <1>1, <2>1, <2>2, <2>3, QuietStep DEF TypeOK
<1>3. CASE RescheduleLesson
  <2>1. spent' \in [move : 0..MoveLimit, crash : 0..CrashLimit]
    BY <1>1, <1>3, LessonRecordingAssumption DEF RescheduleLesson, TypeOK
  <2>2. EgressesGoOn
    BY <1>1, <1>3, EgressKept DEF RescheduleLesson
  <2>3. phase' \in Phases /\ UNCHANGED <<lesson, seg, session, starter, ready, dead, excused, sweep>>
    BY <1>3 DEF RescheduleLesson
  <2> QED BY <1>1, <2>1, <2>2, <2>3, QuietStep DEF TypeOK
<1>4. CASE \E e \in Egresses : EgressEnds(e)
  <2>1. PICK e \in Egresses : EgressEnds(e)
    BY <1>4
  <2>2. EgressesGoOn
    BY <1>1, <2>1, EgressStopped DEF EgressEnds
  <2>3. UNCHANGED <<phase, lesson, seg, session, starter, ready, dead, excused, sweep, spent>>
    BY <2>1 DEF EgressEnds
  <2> QED BY <1>1, <2>2, <2>3, QuietStep DEF TypeOK
<1> QED BY <1>2, <1>3, <1>4

LEMMA SweepSteps ==
    ASSUME Inv, SweepBegin \/ SweepFails \/ \E e \in Egresses : SweepStop(e)
    PROVE  Inv'
<1> DEFINE SweepType == [stage : {"idle", "stopping", "closing"}, overdue : SUBSET Egresses]
<1>1. TypeOK
  BY DEF Inv
<1>2. CASE SweepBegin
  <2>1. sweep' \in SweepType
    BY <1>2 DEF SweepBegin, WithStatus
  <2>2. EgressesGoOn
    BY <1>1, <1>2, EgressKept DEF SweepBegin
  <2>3. UNCHANGED <<phase, lesson, seg, session, starter, ready, dead, excused, spent>>
    BY <1>2 DEF SweepBegin
  <2> QED BY <1>1, <2>1, <2>2, <2>3, QuietStep DEF TypeOK
<1>3. CASE SweepFails
  <2>1. spent' \in [move : 0..MoveLimit, crash : 0..CrashLimit]
    BY <1>1, <1>3, LessonRecordingAssumption DEF SweepFails, TypeOK
  <2>2. sweep' \in SweepType
    BY <1>3 DEF SweepFails, NoSweep
  <2>3. EgressesGoOn
    BY <1>1, <1>3, EgressKept DEF SweepFails
  <2>4. UNCHANGED <<phase, lesson, seg, session, starter, ready, dead, excused>>
    BY <1>3 DEF SweepFails
  <2> QED BY <1>1, <2>1, <2>2, <2>3, <2>4, QuietStep DEF TypeOK
<1>4. CASE \E e \in Egresses : SweepStop(e)
  <2>1. PICK e \in Egresses : SweepStop(e)
    BY <1>4
  <2>2. sweep' \in SweepType
    BY <1>1, <2>1 DEF SweepStop, TypeOK
  <2>3. EgressesGoOn
    BY <1>1, <2>1, EgressKept, EgressStopped DEF SweepStop
  <2>4. UNCHANGED <<phase, lesson, seg, session, starter, ready, dead, excused, spent>>
    BY <2>1 DEF SweepStop
  <2> QED BY <1>1, <2>2, <2>3, <2>4, QuietStep DEF TypeOK
<1> QED BY <1>2, <1>3, <1>4
\* The teacher cancels: the row goes with its segments.
LEMMA CancelStep ==
    ASSUME Inv, CancelLesson
    PROVE  Inv'
<1> USE DEF Inv, CancelLesson, Editable
<1>1. /\ lesson' \in [status : Statuses, recording : Egresses \cup {None}, transcript : BOOLEAN]
      /\ lesson'.status = "cancelled" /\ lesson'.recording = lesson.recording
      /\ lesson'.transcript = lesson.transcript /\ lesson.status = "scheduled"
  BY DEF TypeOK, Statuses
<1>2. seg' \in [Egresses -> SegStatuses] /\ \A e \in Egresses : seg'[e] = "absent"
  BY DEF SegStatuses
<1>3. TypeOK'
  BY <1>1, <1>2 DEF TypeOK
<1>4. StarterSound' /\ FailedIsKnown'
  BY <1>2 DEF StarterSound, FailedIsKnown
<1>5. RecordingSound' /\ BiggestWins' /\ ClosedIsQuiet'
  BY <1>1 DEF RecordingSound, BiggestWins, ClosedIsQuiet
<1>6. OneActivePerSession'
  BY <1>2 DEF OneActivePerSession, WithStatus
<1> QED BY <1>3, <1>4, <1>5, <1>6

\* A start takes the row, calls LiveKit, and gives up.
LEMMA StartBeginStep ==
    ASSUME Inv, NEW s \in Sessions, StartBegin(s)
    PROVE  Inv'
<1> USE DEF Inv, StartBegin
<1>1. TypeOK'
  BY DEF TypeOK
<1>2. StarterSound'
  <2>1. ~RecordedIn(s)'
    BY DEF RecordedIn
  <2> QED BY <2>1 DEF StarterSound
<1>3. RecordingSound' /\ FailedIsKnown'
  BY DEF RecordingSound, FailedIsKnown
<1>4. OneActivePerSession' /\ ClosedIsQuiet' /\ BiggestWins'
  BY DEF OneActivePerSession, ClosedIsQuiet, BiggestWins, WithStatus
<1> QED BY <1>1, <1>2, <1>3, <1>4

LEMMA StartCallStep ==
    ASSUME Inv, NEW e \in Egresses, StartCall(e)
    PROVE  Inv'
<1> USE DEF Inv, StartCall
<1>1. /\ starter' = [starter EXCEPT !.egress = e] /\ starter' \in [open : BOOLEAN,
            session : Sessions \cup {None}, egress : Egresses \cup {None}]
      /\ starter'.open /\ starter'.session = starter.session /\ starter'.egress = e
  BY DEF TypeOK
<1>2. /\ egress' \in [Egresses -> {"unused", "recording", "complete", "failed"}]
      /\ \A d \in Egresses \ {e} : egress'[d] = egress[d] /\ session'[d] = session[d]
      /\ egress'[e] = "recording" /\ session'[e] = starter.session
      /\ session' \in [Egresses -> Sessions \cup {None}]
      /\ seg[e] = "absent" /\ seg' = seg
  BY <1>1 DEF TypeOK
<1>3. TypeOK'
  BY <1>1, <1>2 DEF TypeOK
<1>4. StarterSound'
  <2>1. ~RecordedIn(starter.session)
    BY DEF StarterSound
  <2>2. ~(\E d \in Egresses : seg'[d] = "active" /\ SameSession(session'[d], starter.session))
    BY <1>2, <2>1 DEF RecordedIn
  <2>3. ~RecordedIn(starter.session)'
    BY <1>1, <2>2 DEF RecordedIn, SameSession
  <2> QED BY <1>1, <1>2, <2>3 DEF StarterSound
<1>5. RecordingSound' /\ FailedIsKnown'
  BY <1>2 DEF RecordingSound, FailedIsKnown
<1>6. OneActivePerSession'
  BY <1>2 DEF OneActivePerSession, WithStatus, SameSession
<1>7. ClosedIsQuiet' /\ BiggestWins'
  BY <1>1 DEF ClosedIsQuiet, BiggestWins, WithStatus
<1> QED BY <1>3, <1>4, <1>5, <1>6, <1>7

LEMMA StartAbortStep ==
    ASSUME Inv, StartAbort
    PROVE  Inv'
<1> USE DEF Inv, StartAbort, NoStart
<1>1. TypeOK'
  BY DEF TypeOK
<1>2. StarterSound' /\ RecordingSound' /\ FailedIsKnown'
  BY DEF StarterSound, RecordingSound, FailedIsKnown
<1>3. OneActivePerSession' /\ ClosedIsQuiet' /\ BiggestWins'
  BY DEF OneActivePerSession, ClosedIsQuiet, BiggestWins, WithStatus
<1> QED BY <1>1, <1>2, <1>3

\* The start commits: its session had no other segment.
LEMMA StartCommitStep ==
    ASSUME Inv, StartCommit
    PROVE  Inv'
<1> USE DEF Inv, StartCommit
<1> DEFINE e == starter.egress
<1>1. /\ e \in Egresses /\ egress[e] # "unused" /\ session[e] = starter.session
      /\ lesson.status \in {"scheduled", "live"} /\ ~RecordedIn(starter.session)
      /\ starter'.open = FALSE
  BY DEF TypeOK, StarterSound, NoStart
<1>2. /\ lesson' \in [status : Statuses, recording : Egresses \cup {None}, transcript : BOOLEAN]
      /\ lesson'.status = "live" /\ lesson'.recording = lesson.recording
      /\ lesson'.transcript = lesson.transcript
  BY DEF TypeOK, Statuses
<1>3. /\ seg' \in [Egresses -> SegStatuses] /\ \A d \in Egresses \ {e} : seg'[d] = seg[d]
      /\ seg'[e] \in {"active", seg[e]}
  BY <1>1 DEF TypeOK, SegStatuses, InsertedSegment
<1>4. TypeOK'
  BY <1>1, <1>2, <1>3 DEF TypeOK, NoStart
<1>5. StarterSound'
  BY <1>1 DEF StarterSound
<1>6. RecordingSound' /\ BiggestWins' /\ ClosedIsQuiet'
  BY <1>1, <1>2 DEF RecordingSound, BiggestWins, ClosedIsQuiet
<1>7. FailedIsKnown'
  BY <1>3 DEF FailedIsKnown
<1>8. OneActivePerSession'
  <2>1. SUFFICES ASSUME NEW c \in Egresses, NEW d \in Egresses, seg'[c] = "active", seg'[d] = "active",
                        SameSession(session[c], session[d]), c # d
                 PROVE  FALSE
    BY DEF OneActivePerSession, WithStatus, SameSession
  <2>2. CASE c # e /\ d # e
    BY <1>3, <2>1, <2>2 DEF OneActivePerSession, WithStatus
  <2>3. CASE c = e
    BY <1>1, <1>3, <2>1, <2>3 DEF RecordedIn, SameSession
  <2>4. CASE d = e
    BY <1>1, <1>3, <2>1, <2>4 DEF RecordedIn, SameSession
  <2> QED BY <2>2, <2>3, <2>4
<1> QED BY <1>4, <1>5, <1>6, <1>7, <1>8
\* Segments that end: as their Egress did, or given up as lost.
SegmentEnds(e) ==
    \/ seg'[e] = seg[e]
    \/ /\ seg[e] # "complete" /\ seg'[e] = egress[e] /\ egress[e] \in {"complete", "failed"}
       /\ seg[e] = "absent" => e \in excused' /\ lesson.status # "cancelled"
    \/ seg[e] = "active" /\ seg'[e] = "failed" /\ e \in excused'

SegmentsEnd ==
    /\ seg' \in [Egresses -> SegStatuses] /\ \A e \in Egresses : SegmentEnds(e)
    /\ excused \subseteq excused' /\ excused' \subseteq Egresses
    /\ UNCHANGED <<phase, egress, session, starter, dead, spent>>
    /\ sweep' \in [stage : {"idle", "stopping", "closing"}, overdue : SUBSET Egresses]

\* egress_ended and both statements of the sweep end segments, and may close
\* the lesson unless its row is taken.
LEMMA EndingStep ==
    ASSUME Inv, SegmentsEnd,
           (lesson' = lesson /\ ready' = ready) \/ (~starter.open /\ CloseIfOver(seg'))
    PROVE  Inv'
<1> USE DEF Inv
<1>1. /\ seg' \in [Egresses -> SegStatuses] /\ \A e \in Egresses : SegmentEnds(e)
      /\ starter' = starter /\ session' = session /\ egress' = egress
  BY DEF SegmentsEnd
<1>2. \A e \in Egresses : /\ seg'[e] = "active" => seg[e] = "active"
                          /\ seg[e] = "complete" => seg'[e] = "complete"
  BY <1>1 DEF SegmentEnds
<1>3. /\ lesson' \in [status : Statuses, recording : Egresses \cup {None}, transcript : BOOLEAN]
      /\ lesson'.status = "cancelled" <=> lesson.status = "cancelled"
      /\ ready' \in BOOLEAN
      /\ \/ lesson' = lesson /\ ready' = ready
         \/ /\ ~starter.open /\ lesson'.status = "done" /\ Unrecorded(seg')
            /\ lesson'.recording = None /\ lesson'.transcript = FALSE /\ ~ready'
         \/ /\ ~starter.open /\ lesson'.status = "processing" /\ ready'
            /\ lesson'.recording \in Egresses /\ Recorded(seg', lesson'.recording)
  <2>1. CASE lesson' = lesson /\ ready' = ready
    BY <2>1 DEF TypeOK
  <2>2. CASE ~starter.open /\ Unrecorded(seg')
    BY <2>2 DEF Unrecorded, TypeOK, RecordingSound, Statuses
  <2>3. ASSUME ~starter.open, NEW r \in Egresses, Recorded(seg', r)
        PROVE  <1>3
    <3>1. /\ lesson' \in [status : Statuses, recording : Egresses \cup {None}, transcript : BOOLEAN]
          /\ lesson'.status = "processing" /\ lesson'.recording = r
          /\ lesson.status # "cancelled" /\ ready' = TRUE
      BY <2>3 DEF Recorded, TypeOK, Statuses
    <3> QED BY <2>3, <3>1
  <2> QED BY <2>1, <2>2, <2>3, ClosingStep
<1>4. TypeOK'
  <2>1. \A e \in Egresses : seg'[e] # "absent" => egress'[e] # "unused" /\ lesson'.status # "cancelled"
    BY <1>1, <1>3 DEF SegmentEnds, TypeOK
  <2> QED BY <1>1, <1>3, <2>1 DEF TypeOK, SegmentsEnd
<1>5. StarterSound'
  <2>1. RecordedIn(starter.session)' => RecordedIn(starter.session)
    BY <1>1, <1>2 DEF RecordedIn, SameSession
  <2> QED BY <1>1, <1>3, <2>1 DEF StarterSound
<1>6. RecordingSound'
  BY <1>3, LessonRecordingAssumption DEF RecordingSound
<1>7. FailedIsKnown'
  BY <1>1 DEF FailedIsKnown, SegmentEnds, SegmentsEnd
<1>8. OneActivePerSession'
  BY <1>1, <1>2 DEF OneActivePerSession, WithStatus, SameSession
<1>9. ClosedIsQuiet'
  BY <1>1, <1>2, <1>3 DEF ClosedIsQuiet, WithStatus, Unrecorded, Recorded
<1>10. BiggestWins'
  <2>1. CASE lesson' = lesson /\ lesson.recording # None
    <3>1. lesson.recording \in Egresses /\ lesson.status \in {"processing", "done"}
      BY <2>1 DEF TypeOK, RecordingSound
    <3>2. \A e \in Egresses : seg'[e] = "complete" /\ e \notin excused' => seg[e] = "complete"
      <4>1. SUFFICES ASSUME NEW e \in Egresses, seg'[e] = "complete", e \notin excused', seg[e] # "complete"
                     PROVE  FALSE
        OBVIOUS
      <4>2. seg[e] # "absent" /\ egress[e] = "complete"
        BY <1>1, <4>1 DEF SegmentEnds
      <4>3. seg[e] # "active"
        BY <3>1 DEF ClosedIsQuiet, WithStatus
      <4>4. seg[e] # "failed"
        BY <4>1, <4>2 DEF FailedIsKnown, SegmentsEnd
      <4> QED BY <4>1, <4>2, <4>3, <4>4 DEF TypeOK, SegStatuses
    <3>3. seg'[lesson.recording] = "complete"
      BY <1>2, <2>1, <3>1 DEF BiggestWins
    <3>4. \A e \in Egresses : seg'[e] = "complete" /\ e \notin excused' =>
              SizeOf[e] <= SizeOf[lesson.recording]
      BY <2>1, <3>2 DEF BiggestWins, WithStatus, SegmentsEnd
    <3> QED BY <2>1, <3>3, <3>4 DEF BiggestWins, WithStatus
  <2>2. CASE lesson'.recording \in Egresses /\ Recorded(seg', lesson'.recording)
    BY <2>2 DEF BiggestWins, Recorded, WithStatus
  <2> QED BY <1>3, <2>1, <2>2 DEF BiggestWins
<1> QED BY <1>4, <1>5, <1>6, <1>7, <1>8, <1>9, <1>10

LEMMA EgressEndedStep ==
    ASSUME Inv, NEW e \in Egresses, NEW skip \in BOOLEAN, EgressEnded(e, skip)
    PROVE  Inv'
<1> USE DEF Inv, EgressEnded
<1>1. seg' = [seg EXCEPT ![e] = EndedSegment(e)] /\ EndedSegment(e) = egress[e]
  BY DEF EndedSegment
<1>2. seg' \in [Egresses -> SegStatuses] /\ \A d \in Egresses : SegmentEnds(d)
  BY <1>1 DEF TypeOK, SegStatuses, SegmentEnds, LessonExists
<1>3. SegmentsEnd
  BY <1>2 DEF TypeOK, SegmentsEnd
<1> QED BY <1>1, <1>3, EndingStep DEF RowTaken

LEMMA SweepEndSteps ==
    ASSUME Inv, SweepMarkLost \/ SweepClose
    PROVE  Inv'
<1> USE DEF Inv
<1> DEFINE SweepType == [stage : {"idle", "stopping", "closing"}, overdue : SUBSET Egresses]
<1>1. CASE SweepMarkLost
  <2>1. Lost \subseteq Egresses /\ \A e \in Lost : seg[e] = "active"
    BY DEF Lost, WithStatus
  <2>2. seg' \in [Egresses -> SegStatuses] /\ \A e \in Egresses : SegmentEnds(e)
    BY <1>1, <2>1 DEF SweepMarkLost, TypeOK, SegStatuses, SegmentEnds
  <2>3. sweep' \in SweepType
    BY <1>1 DEF SweepMarkLost, TypeOK
  <2>4. SegmentsEnd /\ lesson' = lesson /\ ready' = ready
    BY <1>1, <2>1, <2>2, <2>3 DEF SweepMarkLost, SegmentsEnd, TypeOK
  <2> QED BY <2>4, EndingStep
<1>2. CASE SweepClose
  <2>1. sweep' \in SweepType
    BY <1>2 DEF SweepClose, NoSweep
  <2>2. SegmentsEnd /\ seg' = seg
    BY <1>2, <2>1 DEF SweepClose, SegmentsEnd, SegmentEnds, TypeOK
  <2> QED BY <1>2, <2>2, EndingStep DEF SweepClose, RowTaken
<1> QED BY <1>1, <1>2

\* recording_ready, the end of the transcript and the death of their jobs change
\* the status of a closed lesson only to done, and never the recording.
AfterRecording ==
    \/ TranscriptEnds \/ TranscriptDies \/ ReadyDies
    \/ \E asr, again \in BOOLEAN : RecordingReady(asr, again)

LEMMA AfterRecordingSteps ==
    ASSUME Inv, AfterRecording
    PROVE  Inv'
<1> USE DEF Inv
<1>1. /\ UNCHANGED <<phase, seg, egress, session, starter, sweep, excused, spent>>
      /\ ready' \in BOOLEAN /\ (ready' => ready) /\ dead' \subseteq {"ready", "transcript"}
      /\ \/ lesson' = [lesson EXCEPT !.transcript = TRUE] /\ ready
         \/ lesson' = Finished(lesson)
         \/ lesson' = lesson
  <2>1. CASE TranscriptEnds
    BY <2>1 DEF TranscriptEnds, TypeOK
  <2>2. CASE TranscriptDies
    BY <2>2 DEF TranscriptDies, TypeOK
  <2>3. CASE ReadyDies
    BY <2>3 DEF ReadyDies, TypeOK
  <2>4. CASE \E asr, again \in BOOLEAN : RecordingReady(asr, again)
    BY <2>4 DEF RecordingReady, TypeOK
  <2> QED BY <2>1, <2>2, <2>3, <2>4 DEF AfterRecording
<1>2. /\ lesson' \in [status : Statuses, recording : Egresses \cup {None}, transcript : BOOLEAN]
      /\ lesson'.recording = lesson.recording
      /\ \/ lesson'.status = lesson.status
         \/ lesson.status = "processing" /\ lesson'.status = "done"
      /\ lesson'.transcript => ready \/ lesson.transcript
  <2>1. CASE lesson' = [lesson EXCEPT !.transcript = TRUE] /\ ready
    BY <2>1 DEF TypeOK
  <2>2. CASE lesson' = Finished(lesson)
    BY <2>2 DEF TypeOK, Finished, Statuses
  <2>3. CASE lesson' = lesson
    BY <2>3 DEF TypeOK
  <2> QED BY <1>1, <2>1, <2>2, <2>3
<1>3. TypeOK'
  BY <1>1, <1>2 DEF TypeOK
<1>4. StarterSound'
  <2>1. RecordedIn(starter.session)' <=> RecordedIn(starter.session)
    BY <1>1 DEF RecordedIn, SameSession
  <2> QED BY <1>1, <1>2, <2>1 DEF StarterSound
<1>5. RecordingSound' /\ FailedIsKnown'
  BY <1>1, <1>2 DEF RecordingSound, FailedIsKnown
<1>6. OneActivePerSession' /\ ClosedIsQuiet' /\ BiggestWins'
  BY <1>1, <1>2 DEF OneActivePerSession, ClosedIsQuiet, BiggestWins, WithStatus, SameSession
<1> QED BY <1>3, <1>4, <1>5, <1>6

LEMMA StutterStep ==
    ASSUME Inv, UNCHANGED vars
    PROVE  Inv'
BY EgressKept, QuietStep DEF Inv, TypeOK, vars

LEMMA NextKeepsInv == Inv /\ [Next]_vars => Inv'
<1> SUFFICES ASSUME Inv, [Next]_vars PROVE Inv'
  OBVIOUS
<1>1. CASE Tick \/ RescheduleLesson \/ \E e \in Egresses : EgressEnds(e)
  BY <1>1, TimeSteps
<1>2. CASE CancelLesson
  BY <1>2, CancelStep
<1>3. CASE Start
  BY <1>3, StartBeginStep, StartCallStep, StartAbortStep, StartCommitStep DEF Start
<1>4. CASE \E e \in Egresses, skip \in BOOLEAN : EgressEnded(e, skip)
  BY <1>4, EgressEndedStep
<1>5. CASE Sweep \/ SweepFails
  BY <1>5, SweepSteps, SweepEndSteps DEF Sweep
<1>6. CASE AfterRecording
  BY <1>6, AfterRecordingSteps
<1>7. CASE UNCHANGED vars
  BY <1>7, StutterStep
<1> QED BY <1>1, <1>2, <1>3, <1>4, <1>5, <1>6, <1>7 DEF Next, AfterRecording

THEOREM InvCorrect == Spec => []Inv
BY InitKeepsInv, NextKeepsInv, PTL DEF Spec

-----------------------------------------------------------------------------
\* The promises

\* Segments, Egresses, the start, the sweep and the row keep their types, and
\* a cancelled lesson gets no segment back from a late webhook.
THEOREM TypeCorrect == Spec => []TypeOK
BY InvCorrect, PTL DEF Inv

\* However many deliveries race (webhooks.go, StartLessonRecording), a room
\* session has one segment being written.
THEOREM OneActiveCorrect == Spec => []OneActivePerSession
BY InvCorrect, PTL DEF Inv

\* Closing the lesson never overtakes a start that holds its row
\* (closeLessonIfOver).
THEOREM ClosedCorrect == Spec => []ClosedIsQuiet
BY InvCorrect, PTL DEF Inv

\* The recording is the biggest of the segments closing could wait for.
THEOREM BiggestCorrect == Spec => []BiggestWins
BY InvCorrect, PTL DEF Inv

\* A step of the recording is a step of the abstract lesson or none.
LEMMA LifecycleStep == Inv /\ [Next]_vars => [Life!Next]_(Life!lifecycle)
<1> SUFFICES ASSUME Inv, [Next]_vars PROVE Life!Next \/ UNCHANGED Life!lifecycle
  OBVIOUS
<1> USE DEF Inv
<1>1. CASE lesson' = lesson
  BY <1>1 DEF Life!lifecycle
<1>2. CASE CancelLesson
  BY <1>2 DEF CancelLesson, Editable, TypeOK, Life!Next, Life!Cancel
<1>3. CASE StartCommit
  BY <1>3 DEF StartCommit, StarterSound, TypeOK, Life!Next, Life!Start, Life!lifecycle
<1>4. ASSUME NEW segs, CloseIfOver(segs)
      PROVE  Life!Next \/ UNCHANGED Life!lifecycle
  <2>1. CASE lesson' = lesson /\ ready' = ready
    BY <1>1, <2>1
  <2>2. CASE Unrecorded(segs)
    BY <2>2 DEF Unrecorded, TypeOK, Life!Next, Life!CloseUnrecorded
  <2>3. ASSUME NEW r \in Egresses, Recorded(segs, r)
        PROVE  Life!Next
    BY <2>3 DEF Recorded, TypeOK, Life!Next, Life!Close, Life!Unrecorded
  <2> QED BY <1>4, <2>1, <2>2, <2>3, ClosingStep
<1>5. CASE lesson' = [lesson EXCEPT !.transcript = TRUE] /\ ready
  BY <1>5 DEF RecordingSound, TypeOK, Life!Next, Life!Transcribe
<1>6. CASE lesson' = Finished(lesson)
  BY <1>1, <1>6 DEF Finished, TypeOK, Life!Next, Life!Finish
<1>7. CASE Start
  BY <1>1, <1>3, <1>7 DEF Start, StartBegin, StartCall, StartAbort
<1>8. CASE \E e \in Egresses, skip \in BOOLEAN : EgressEnded(e, skip)
  BY <1>1, <1>4, <1>8 DEF EgressEnded
<1>9. CASE Sweep \/ SweepFails
  BY <1>1, <1>4, <1>9 DEF Sweep, SweepFails, SweepBegin, SweepStop, SweepMarkLost, SweepClose
<1>10. CASE AfterRecording
  BY <1>1, <1>5, <1>6, <1>10
  DEF AfterRecording, TranscriptEnds, TranscriptDies, RecordingReady, ReadyDies
<1>11. CASE Tick \/ RescheduleLesson \/ \E e \in Egresses : EgressEnds(e)
  BY <1>1, <1>11 DEF Tick, RescheduleLesson, EgressEnds
<1> QED BY <1>1, <1>2, <1>7, <1>8, <1>9, <1>10, <1>11 DEF Next, AfterRecording, vars

\* The recording of a lesson implements the abstract lesson: whatever webhooks,
\* jobs and the teacher do, its row moves forward, a recording once chosen
\* stays, and a transcript is of a recording.
THEOREM LifecycleCorrect == Spec => Lifecycle
<1>1. Init => Life!Init
  BY DEF Init, Life!Init
<1> QED BY <1>1, InvCorrect, LifecycleStep, PTL DEF Spec, Lifecycle, Life!Spec
=============================================================================
