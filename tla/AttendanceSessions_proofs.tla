---------------------- MODULE AttendanceSessions_proofs ----------------------
(***************************************************************************)
(* Proofs about the sessions that change a day, for any number of them and *)
(* any length of the day, whatever is computed from the punches.           *)
(***************************************************************************)
EXTENDS AttendanceSessions, SequenceTheorems, TLAPS

-------------------------------------------------------------------------------
(* Punches *)

PunchRow == [at : Times, valid : BOOLEAN]

LEMMA SeqOf ==
  ASSUME NEW S, NEW n \in Nat, NEW f \in [1 .. n -> S]
  PROVE  f \in Seq(S) /\ Len(f) = n
OBVIOUS

LEMMA Invalidated ==
  ASSUME NEW row \in PunchRow
  PROVE  [row EXCEPT !.valid = FALSE] \in PunchRow /\ [row EXCEPT !.valid = FALSE].at = row.at
BY DEF PunchRow

\* Punches that are added come after the stored ones, which keep their times.
LEMMA PunchesGrow ==
  ASSUME NEW p \in Seq(PunchRow), NEW rows, NEW times \in Seq(Times)
  PROVE  /\ Add(Invalidate(p, rows), times) \in Seq(PunchRow)
         /\ Stored(p) \subseteq Stored(Add(Invalidate(p, rows), times))
         /\ \A k \in DOMAIN times : times[k] \in Stored(Add(Invalidate(p, rows), times))
<1> DEFINE old == Invalidate(p, rows)
           new == [k \in DOMAIN times |-> [at |-> times[k], valid |-> TRUE]]
<1>0. /\ Len(p) \in Nat /\ DOMAIN p = 1 .. Len(p) /\ \A k \in 1 .. Len(p) : p[k] \in PunchRow
      /\ Len(times) \in Nat /\ DOMAIN times = 1 .. Len(times)
      /\ \A k \in 1 .. Len(times) : times[k] \in Times
  BY LenProperties
<1>1. /\ old \in Seq(PunchRow) /\ Len(old) = Len(p)
      /\ \A k \in 1 .. Len(p) : old[k].at = p[k].at
  <2>1. /\ old \in [1 .. Len(p) -> PunchRow]
        /\ \A k \in 1 .. Len(p) : old[k].at = p[k].at
    BY <1>0, Invalidated DEF Invalidate
  <2> QED
    BY <1>0, <2>1, SeqOf
<1>2. new \in Seq(PunchRow) /\ Len(new) = Len(times) /\ \A k \in 1 .. Len(times) : new[k].at = times[k]
  <2>1. \A t \in Times : [at |-> t, valid |-> TRUE] \in PunchRow
    BY DEF PunchRow
  <2>2. /\ new \in [1 .. Len(times) -> PunchRow]
        /\ \A k \in 1 .. Len(times) : new[k].at = times[k]
    BY <1>0, <2>1
  <2> HIDE DEF new
  <2> QED
    BY <1>0, <2>2, SeqOf
<1> HIDE DEF old, new
<1>3. /\ old \o new \in Seq(PunchRow) /\ DOMAIN (old \o new) = 1 .. Len(p) + Len(times)
      /\ \A k \in 1 .. Len(p) + Len(times) :
           (old \o new)[k] = IF k <= Len(p) THEN old[k] ELSE new[k - Len(p)]
  <2>1. /\ old \o new \in Seq(PunchRow) /\ Len(old \o new) = Len(old) + Len(new)
        /\ \A k \in 1 .. Len(old) + Len(new) :
             (old \o new)[k] = IF k <= Len(old) THEN old[k] ELSE new[k - Len(old)]
    <3>1. old \in Seq(PunchRow) /\ new \in Seq(PunchRow)
      BY <1>1, <1>2
    <3>2. old \o new \in Seq(PunchRow)
      BY <3>1, ConcatProperties
    <3>3. Len(old \o new) = Len(old) + Len(new)
      BY <3>1, ConcatProperties
    <3>4. \A k \in 1 .. Len(old) + Len(new) :
             (old \o new)[k] = IF k <= Len(old) THEN old[k] ELSE new[k - Len(old)]
      BY <3>1, ConcatProperties
    <3> QED
      BY <3>2, <3>3, <3>4
  <2>2. DOMAIN (old \o new) = 1 .. Len(old \o new)
    BY <2>1, LenProperties
  <2> QED
    BY <1>1, <1>2, <2>1, <2>2
<1>4. Add(Invalidate(p, rows), times) = old \o new
  BY DEF Add, old, new
<1>5. \A k \in 1 .. Len(p) + Len(times) : (old \o new)[k].at \in Stored(old \o new)
  BY <1>3 DEF Stored
<1>6. ASSUME NEW k \in 1 .. Len(p) PROVE p[k].at \in Stored(old \o new)
  <2>1. k \in 1 .. Len(p) + Len(times) /\ k <= Len(p)
    BY <1>0
  <2>2. (old \o new)[k].at = p[k].at
    BY <1>1, <1>3, <2>1
  <2> QED
    BY <1>5, <2>1, <2>2
<1>7. ASSUME NEW k \in 1 .. Len(times) PROVE times[k] \in Stored(old \o new)
  <2>1. /\ Len(p) + k \in 1 .. Len(p) + Len(times) /\ ~(Len(p) + k <= Len(p))
        /\ (Len(p) + k) - Len(p) = k
    BY <1>0
  <2>2. (old \o new)[Len(p) + k].at = times[k]
    BY <1>2, <1>3, <2>1
  <2> QED
    BY <1>5, <2>1, <2>2
<1> QED
  BY <1>0, <1>3, <1>4, <1>6, <1>7 DEF Stored

\* Nothing added and nothing invalidated.
LEMMA PunchesStay ==
  ASSUME NEW p \in Seq(PunchRow)
  PROVE  Add(Invalidate(p, {}), <<>>) = p
<1>1. Invalidate(p, {}) = p
  BY DEF Invalidate
<1>2. [k \in DOMAIN <<>> |-> [at |-> <<>>[k], valid |-> TRUE]] = <<>>
  OBVIOUS
<1> QED
  BY <1>1, <1>2, ConcatEmptySeq DEF Add


-------------------------------------------------------------------------------
(* Rows of a day *)

Columns == {"exists", "source", "status", "leave", "regularized", "first", "last", "worked"}

IsDay(d) ==
  /\ d = [c \in Columns |-> d[c]]
  /\ d.exists \in BOOLEAN /\ d.regularized \in BOOLEAN

LEMMA OpenedIsDay ==
  /\ IsDay(Opened) /\ Opened.exists /\ ~Opened.regularized
  /\ IsDay(Unmarked) /\ ~Unmarked.exists /\ ~Unmarked.regularized
<1>1. IsDay(Opened) /\ Opened.exists /\ ~Opened.regularized
  BY DEF IsDay, Opened, Columns
<1> QED
  BY <1>1 DEF IsDay, Unmarked, Columns

\* What is computed from the punches, and what HR enters, is in other columns.
LEMMA Computed ==
  ASSUME NEW d, IsDay(d), NEW p, NEW t
  PROVE  /\ IsDay(Recomputed(d, p, t))
         /\ Recomputed(d, p, t).exists = d.exists
         /\ Recomputed(d, p, t).regularized = d.regularized
<1> DEFINE a == First(Valid(p))
           b == Last(Valid(p))
           w == Worked(Valid(p), t)
           s == Status(d, Valid(p), t)
<1>1. Recomputed(d, p, t) = [d EXCEPT !.first = a, !.last = b, !.worked = w, !.status = s]
  BY DEF Recomputed
<1> HIDE DEF a, b, w, s
<1> QED
  BY <1>1 DEF IsDay, Columns

LEMMA Entered ==
  ASSUME NEW d, IsDay(d), NEW source, NEW status, NEW link, NEW worked
  PROVE  /\ LET e == [d EXCEPT !.source = source, !.status = status, !.leave = link, !.worked = worked]
            IN IsDay(e) /\ e.exists = d.exists /\ e.regularized = d.regularized
         /\ LET e == [d EXCEPT !.source = source, !.status = status, !.leave = link]
            IN IsDay(e) /\ e.exists = d.exists /\ e.regularized = d.regularized
         /\ LET e == [d EXCEPT !.source = source, !.status = status]
            IN IsDay(e) /\ e.exists = d.exists /\ e.regularized = d.regularized
         /\ LET e == [d EXCEPT !.leave = link, !.status = status]
            IN IsDay(e) /\ e.exists = d.exists /\ e.regularized = d.regularized
         /\ LET e == [d EXCEPT !.status = status]
            IN IsDay(e) /\ e.exists = d.exists /\ e.regularized = d.regularized
         /\ LET e == [d EXCEPT !.regularized = TRUE]
            IN IsDay(e) /\ e.exists = d.exists /\ e.regularized
BY DEF IsDay, Columns

\* An UPDATE writes the columns that differ from what the session has seen.
LEMMA MergedDay ==
  ASSUME IsDay(day), NEW seen, NEW row, IsDay(seen), IsDay(row)
  PROVE  /\ IsDay(Merged(seen, row))
         /\ Merged(seen, row).exists =
              IF row.exists # seen.exists THEN row.exists ELSE day.exists
         /\ Merged(seen, row).regularized =
              IF row.regularized # seen.regularized THEN row.regularized ELSE day.regularized
BY DEF Merged, IsDay, Columns


-------------------------------------------------------------------------------
(* Invariant *)

Everyone == Sessions \cup {Finalizer}

Envelopes == {"absent", "pending"} \cup Decisions

RequestRow == [envelope : Envelopes, row : Envelopes, times : Seq(Times), onDay : BOOLEAN]

\* What a session has seen of the day is there, and regularized if it was; what
\* it writes takes back neither; an approval brings what was asked for.
TaskRight(w) ==
  /\ w.at \in {"idle", "checked", "loaded", "write"}
  /\ w.at \in {"loaded", "write"} =>
       /\ IsDay(w.seen)
       /\ w.seen.exists => day.exists /\ (w.seen.regularized => day.regularized)
  /\ w.at = "write" =>
       /\ IsDay(w.row) /\ w.adds \in Seq(Times)
       /\ w.seen.exists => w.row.exists /\ (w.seen.regularized => w.row.regularized)
       /\ w.decision \in Decisions \cup {"none"}
       /\ w.decision # "none" => request.times # <<>>
       /\ w.decision = "approved" /\ request.onDay =>
            w.seen.exists /\ w.row.regularized /\ w.adds = request.times

TasksRight ==
  /\ task = [s \in Everyone |-> task[s]]
  /\ \A s \in Everyone : TaskRight(task[s])

RequestInv ==
  /\ request \in RequestRow
  /\ request.envelope # "absent" => request.times # <<>>
  /\ request.onDay => day.exists
  /\ EnvelopeMatchesRequest /\ ApprovedIsApplied

AttendanceInv == IsDay(day) /\ punches \in Seq(PunchRow) /\ TasksRight /\ RequestInv

\* A day that is there stays, and stays regularized.
DayGrows ==
  /\ IsDay(day')
  /\ day.exists => day'.exists /\ (day.regularized => day'.regularized)

LEMMA StaysRight ==
  ASSUME NEW w, TaskRight(w), DayGrows,
         request'.times = request.times, request'.onDay = request.onDay
  PROVE  TaskRight(w)'
BY DEF TaskRight, DayGrows

LEMMA Moved ==
  ASSUME task = [s \in Everyone |-> task[s]], NEW s \in Everyone, NEW next, Goes(s, next)
  PROVE  /\ task' = [t \in Everyone |-> task'[t]]
         /\ task'[s] = next /\ \A t \in Everyone : t # s => task'[t] = task[t]
BY DEF Goes

LEMMA InitRight == Init => AttendanceInv
<1> SUFFICES ASSUME Init PROVE AttendanceInv
  OBVIOUS
<1>1. IsDay(day) /\ punches \in Seq(PunchRow) /\ punches = <<>>
  BY OpenedIsDay, EmptySeq DEF Init
<1>2. TasksRight
  BY DEF Init, TasksRight, TaskRight, Everyone, Idle
<1>3. RequestInv
  BY EmptySeq DEF Init, RequestInv, RequestRow, NoRequest, Envelopes, EnvelopeMatchesRequest,
                  ApprovedIsApplied
<1> QED
  BY <1>1, <1>2, <1>3 DEF AttendanceInv

\* The other sessions stay right, whatever one of them commits.
LEMMA OthersRight ==
  ASSUME TasksRight, DayGrows, request'.times = request.times, request'.onDay = request.onDay,
         NEW t \in Everyone, task'[t] = task[t]
  PROVE  TaskRight(task[t])'
<1>1. PICK w : w = task[t]
  OBVIOUS
<1>2. TaskRight(w)'
  BY <1>1, StaysRight DEF TasksRight
<1> QED
  BY <1>1, <1>2 DEF TaskRight

LEMMA AllRight ==
  ASSUME TasksRight, DayGrows, request'.times = request.times, request'.onDay = request.onDay,
         \/ task' = task
         \/ \E s \in Everyone : \E next : Goes(s, next) /\ TaskRight(next)'
  PROVE  TasksRight'
<1>1. CASE task' = task
  BY <1>1, OthersRight DEF TasksRight
<1>2. ASSUME NEW s \in Everyone, NEW next, Goes(s, next), TaskRight(next)'
      PROVE  TasksRight'
  <2>1. /\ task' = [t \in Everyone |-> task'[t]]
        /\ task'[s] = next /\ \A t \in Everyone : t # s => task'[t] = task[t]
    BY <1>2, Moved DEF TasksRight
  <2>2. TaskRight(task[s])'
    BY <1>2, <2>1 DEF TaskRight
  <2> QED
    BY <2>1, <2>2, OthersRight DEF TasksRight
<1> QED
  BY <1>1, <1>2

\* A session that goes on and writes nothing yet.
LEMMA QuietMove ==
  ASSUME AttendanceInv, UNCHANGED <<day, punches, request>>,
         NEW s \in Everyone, NEW next, Goes(s, next), TaskRight(next)
  PROVE  AttendanceInv'
<1>1. DayGrows
  BY DEF DayGrows, AttendanceInv
<1>2. TasksRight'
  BY <1>1, StaysRight, AllRight DEF AttendanceInv
<1>3. RequestInv'
  BY DEF AttendanceInv, RequestInv, EnvelopeMatchesRequest, ApprovedIsApplied, Stored
<1> QED
  BY <1>2, <1>3 DEF AttendanceInv

LEMMA IdleRight == TaskRight(Idle)
BY DEF TaskRight, Idle


\* A request that is about to write the row of the day and to add punches.
LEMMA BeginsWrite ==
  ASSUME AttendanceInv, NEW s \in Sessions, NEW row, NEW adds \in Seq(Times),
         Begin(s, Plain(day, row, adds)), IsDay(row),
         day.exists => row.exists /\ row.regularized = day.regularized
  PROVE  AttendanceInv'
<1> DEFINE w == Plain(day, row, adds)
<1>1. TaskRight(w)
  BY DEF Plain, Write, TaskRight, AttendanceInv
<1>2. s \in Everyone /\ Goes(s, w) /\ UNCHANGED <<day, punches, request>>
  BY DEF Begin, store, Everyone
<1> HIDE DEF w
<1> QED
  BY <1>1, <1>2, QuietMove

LEMMA RequestsStep ==
  ASSUME AttendanceInv, NEW s \in Sessions, Requests(s)
  PROVE  AttendanceInv'
<1>0. IsDay(day) /\ day.exists \in BOOLEAN
  BY DEF AttendanceInv, IsDay
<1>1. ASSUME NEW times \in Seq(Times), Begin(s, WithPunches(times))
      PROVE  AttendanceInv'
  <2> DEFINE d == IF day.exists THEN day ELSE Opened
             row == Recomputed(d, Add(punches, times), now)
  <2>1. IsDay(d) /\ (day.exists => d = day)
    BY <1>0, OpenedIsDay
  <2>2. IsDay(row) /\ (day.exists => row.exists /\ row.regularized = day.regularized)
    <3> HIDE DEF d
    <3>1. /\ IsDay(row) /\ row.exists = d.exists /\ row.regularized = d.regularized
      BY <2>1, Computed
    <3> QED
      BY <2>1, <3>1
  <2>3. Begin(s, Plain(day, row, times))
    BY <1>1 DEF WithPunches
  <2> HIDE DEF row
  <2> QED
    BY <1>1, <2>2, <2>3, BeginsWrite
<1>2. ASSUME NEW t \in Times, Upload(s, t) \/ add_manual_punch(s, t)
      PROVE  AttendanceInv'
  <2>1. <<t>> \in Seq(Times)
    OBVIOUS
  <2> QED
    BY <1>1, <1>2, <2>1 DEF Upload, add_manual_punch
<1>3. ASSUME NEW status \in Marks, NEW link \in BOOLEAN, create_attendance_day(s, status, link)
      PROVE  AttendanceInv'
  <2> DEFINE row == [Opened EXCEPT !.source = "manual", !.status = status, !.leave = link]
  <2>1. IsDay(row) /\ ~day.exists /\ Begin(s, Plain(day, row, <<>>)) /\ <<>> \in Seq(Times)
    BY <1>3, OpenedIsDay, Entered, EmptySeq DEF create_attendance_day
  <2> HIDE DEF row
  <2> QED
    BY <2>1, BeginsWrite
<1>4. ASSUME NEW status, NEW link, NEW worked, override_attendance_day(s, status, link, worked)
      PROVE  AttendanceInv'
  <2> DEFINE row == [day EXCEPT !.source = "manual", !.status = status, !.leave = link, !.worked = worked]
  <2>1. IsDay(row) /\ row.exists = day.exists /\ row.regularized = day.regularized
    BY <1>0 DEF IsDay, Columns
  <2>2. Begin(s, Plain(day, row, <<>>)) /\ <<>> \in Seq(Times)
    BY <1>4, EmptySeq DEF override_attendance_day
  <2> HIDE DEF row
  <2> QED
    BY <2>1, <2>2, BeginsWrite
<1>5. ASSUME NEW times \in Corrections, create_manual_attendance(s, times)
      PROVE  AttendanceInv'
  <2> DEFINE d == [Opened EXCEPT !.source = "manual", !.status = "present"]
             row == Recomputed(d, Add(<<>>, times), now)
  <2>1. IsDay(d) /\ times \in Seq(Times)
    BY OpenedIsDay, Entered, SessionsAssumption DEF SessionsAssumption
  <2>2. IsDay(row)
    <3> HIDE DEF d
    <3> QED
      BY <2>1, Computed
  <2>3. ~day.exists /\ Begin(s, Plain(day, row, times))
    BY <1>5 DEF create_manual_attendance
  <2> HIDE DEF row
  <2> QED
    BY <2>1, <2>2, <2>3, BeginsWrite
<1>6. CASE generate_for_range(s)
  <2> DEFINE status == IF Holiday THEN "holiday" ELSE IF leave = "approved" THEN "on_leave" ELSE "not_marked"
             row == [Opened EXCEPT !.status = status]
  <2>1. IsDay(row) /\ ~day.exists /\ Begin(s, Plain(day, row, <<>>)) /\ <<>> \in Seq(Times)
    BY <1>6, OpenedIsDay, Entered, EmptySeq DEF generate_for_range
  <2> HIDE DEF row
  <2> QED
    BY <2>1, BeginsWrite
<1>7. ASSUME NEW times \in Corrections, request_correction(s, times)
      PROVE  AttendanceInv'
  <2>1. times \in Seq(Times) /\ times # <<>>
    BY SessionsAssumption DEF SessionsAssumption
  <2>2. /\ request'.times = times /\ request'.envelope = "pending" /\ request'.row = "pending"
        /\ request'.onDay = day.exists /\ request' \in RequestRow
    BY <1>0, <1>7, <2>1 DEF request_correction, RequestRow, Envelopes
  <2>3. UNCHANGED <<day, punches, task>>
    BY <1>7 DEF request_correction
  <2>4. request.times = <<>>
    BY <1>7 DEF request_correction, NoRequest
  <2>5. ASSUME NEW t \in Everyone PROVE TaskRight(task[t])'
    <3>1. TaskRight(task[t])
      BY DEF AttendanceInv, TasksRight
    <3>2. task[t].at = "write" => task[t].decision = "none"
      BY <2>4, <3>1 DEF TaskRight
    <3> QED
      BY <2>3, <3>1, <3>2 DEF TaskRight, Decisions
  <2>6. TasksRight'
    BY <2>3, <2>5 DEF AttendanceInv, TasksRight
  <2>7. RequestInv'
    BY <2>1, <2>2, <2>3 DEF RequestInv, EnvelopeMatchesRequest, ApprovedIsApplied
  <2> QED
    BY <2>3, <2>6, <2>7 DEF AttendanceInv
<1>8. ASSUME NEW decision \in Decisions \cup {"deleted"}, Check(s, decision)
      PROVE  AttendanceInv'
  <2>1. TaskRight([at |-> "checked", decision |-> decision])
    BY DEF TaskRight
  <2>2. s \in Everyone /\ Goes(s, [at |-> "checked", decision |-> decision])
        /\ UNCHANGED <<day, punches, request>>
    BY <1>8 DEF Check, Begin, store, Everyone
  <2> QED
    BY <2>1, <2>2, QuietMove
<1> QED
  BY <1>2, <1>3, <1>4, <1>5, <1>6, <1>7, <1>8 DEF Requests


\* A request that is decided knows what it was asked for: the day it was made
\* on is there, and the times are those of the request.
LEMMA DecideStep ==
  ASSUME AttendanceInv, NEW s \in Sessions, Decide(s)
  PROVE  AttendanceInv'
<1> DEFINE d == [day EXCEPT !.regularized = TRUE]
           new == Add(Invalidate(punches, DOMAIN punches), request.times)
           row == Recomputed(d, new, now)
<1>0. IsDay(day) /\ s \in Everyone /\ request.times \in Seq(Times) /\ request.times # <<>>
  BY DEF AttendanceInv, RequestInv, RequestRow, Decide, Everyone
<1>1. IsDay(d) /\ d.exists = day.exists /\ d.regularized
  BY <1>0 DEF IsDay, Columns
<1>2. IsDay(row) /\ row.exists = day.exists /\ row.regularized
  <2> HIDE DEF d, new
  <2> QED
    BY <1>1, Computed
<1>3. CASE task[s].decision = "approved" /\ day.exists
  <2> DEFINE w == Write(day, row, request.times, DOMAIN punches, "approved")
  <2>1. Goes(s, w) /\ UNCHANGED <<day, punches, request>>
    BY <1>3 DEF Decide, Reads, store
  <2>2. TaskRight(w)
    <3> HIDE DEF row
    <3> QED
      BY <1>0, <1>2, <1>3 DEF TaskRight, Write, Decisions
  <2> HIDE DEF w
  <2> QED
    BY <1>0, <2>1, <2>2, QuietMove
<1>4. CASE ~(task[s].decision = "approved" /\ day.exists)
  <2> DEFINE w == Write(Unmarked, Unmarked, <<>>, {}, task[s].decision)
  <2>1. Goes(s, w) /\ UNCHANGED <<day, punches, request>> /\ task[s].decision \in Decisions
    BY <1>4 DEF Decide, Reads, store
  <2>2. request.onDay => day.exists
    BY DEF AttendanceInv, RequestInv
  <2>3. TaskRight(w)
    BY <1>0, <1>4, <2>1, <2>2, OpenedIsDay, EmptySeq DEF TaskRight, Write
  <2> HIDE DEF w
  <2> QED
    BY <1>0, <2>1, <2>3, QuietMove
<1> QED
  BY <1>3, <1>4

LEMMA DeleteStep ==
  ASSUME AttendanceInv, NEW s \in Sessions, DeleteRequest(s)
  PROVE  AttendanceInv'
<1>1. /\ s \in Everyone /\ Goes(s, Idle) /\ UNCHANGED <<day, punches>>
      /\ request' = [request EXCEPT !.envelope = "absent", !.row = "absent"]
  BY DEF DeleteRequest, Everyone
<1>2. /\ request' \in RequestRow /\ request'.envelope = "absent" /\ request'.row = "absent"
      /\ request'.times = request.times /\ request'.onDay = request.onDay
  BY <1>1 DEF AttendanceInv, RequestInv, RequestRow, Envelopes
<1>3. DayGrows
  BY <1>1 DEF DayGrows, AttendanceInv
<1>4. TaskRight(Idle)'
  BY DEF TaskRight, Idle
<1>5. TasksRight'
  BY <1>1, <1>2, <1>3, <1>4, AllRight DEF AttendanceInv
<1>6. RequestInv'
  BY <1>1, <1>2 DEF AttendanceInv, RequestInv, EnvelopeMatchesRequest, ApprovedIsApplied
<1> QED
  BY <1>1, <1>5, <1>6 DEF AttendanceInv

\* An UPDATE keeps what other sessions wrote to columns it does not change; an
\* INSERT finds no row.
LEMMA CommitStep ==
  ASSUME AttendanceInv, NEW s \in Everyone, Commit(s)
  PROVE  AttendanceInv'
<1> DEFINE w == task[s]
<1>0. TaskRight(w) /\ w.at = "write" /\ IsDay(day) /\ IsDay(w.seen) /\ IsDay(w.row)
  BY DEF Commit, AttendanceInv, TasksRight, TaskRight
<1>1. /\ w.seen.exists \/ ~w.row.exists \/ ~day.exists
      /\ w.decision # "none" => request.envelope # "absent"
      /\ day' = IF w.seen.exists THEN Merged(w.seen, w.row)
                ELSE IF w.row.exists THEN w.row ELSE day
      /\ punches' = Add(Invalidate(punches, w.drops), w.adds)
      /\ request' = IF w.decision = "none" THEN request ELSE Decided(w.decision)
      /\ Goes(s, Idle)
  BY DEF Commit
<1> HIDE DEF w
<1>2. /\ IsDay(day') /\ (day.exists => day'.exists /\ (day.regularized => day'.regularized))
      /\ (w.seen.exists /\ w.row.regularized => day'.regularized)
  <2>1. CASE w.seen.exists
    <3>1. /\ IsDay(Merged(w.seen, w.row))
          /\ Merged(w.seen, w.row).exists = IF w.row.exists # w.seen.exists THEN w.row.exists ELSE day.exists
          /\ Merged(w.seen, w.row).regularized =
               IF w.row.regularized # w.seen.regularized THEN w.row.regularized ELSE day.regularized
      BY <1>0, MergedDay
    <3>2. /\ day.exists /\ w.row.exists
          /\ w.seen.regularized => day.regularized /\ w.row.regularized
      BY <1>0, <2>1 DEF TaskRight
    <3>3. /\ w.row.regularized \in BOOLEAN /\ w.seen.regularized \in BOOLEAN
          /\ w.row.exists \in BOOLEAN /\ w.seen.exists \in BOOLEAN
      BY <1>0 DEF IsDay
    <3>4. day' = Merged(w.seen, w.row)
      BY <1>1, <2>1
    <3> QED
      BY <2>1, <3>1, <3>2, <3>3, <3>4
  <2>2. CASE ~w.seen.exists
    <3>1. IsDay(day') /\ (day.exists => day' = day)
      BY <1>0, <1>1, <2>2
    <3> QED
      BY <2>2, <3>1
  <2> QED
    BY <2>1, <2>2
<1>3. DayGrows
  BY <1>2 DEF DayGrows
<1>4. w.adds \in Seq(Times)
  BY <1>0 DEF TaskRight
<1>5. /\ punches' \in Seq(PunchRow) /\ Stored(punches) \subseteq Stored(punches')
      /\ \A k \in DOMAIN w.adds : w.adds[k] \in Stored(punches')
  <2>1. punches \in Seq(PunchRow)
    BY DEF AttendanceInv
  <2> QED
    BY <1>1, <1>4, <2>1, PunchesGrow
<1>6. /\ request'.times = request.times /\ request'.onDay = request.onDay
      /\ request' \in RequestRow /\ request'.envelope = request'.row
      /\ request'.envelope # "absent" => request.times # <<>>
      /\ w.decision # "none" => request'.envelope = w.decision
      /\ w.decision = "none" => request' = request
  <2>1. w.decision \in Decisions \cup {"none"} /\ (w.decision # "none" => request.times # <<>>)
    BY <1>0 DEF TaskRight
  <2>2. /\ request \in RequestRow /\ request.envelope = request.row
        /\ request.envelope # "absent" => request.times # <<>>
    BY DEF AttendanceInv, RequestInv, EnvelopeMatchesRequest
  <2>3. CASE w.decision = "none"
    BY <1>1, <2>2, <2>3
  <2>4. CASE w.decision # "none"
    <3>1. request' = [request EXCEPT !.envelope = w.decision, !.row = w.decision]
      BY <1>1, <2>4 DEF Decided
    <3> QED
      BY <2>1, <2>2, <2>4, <3>1 DEF RequestRow, Envelopes
  <2> QED
    BY <2>3, <2>4
<1>7. TasksRight'
  <2>1. TaskRight(Idle)'
    BY DEF TaskRight, Idle
  <2> QED
    BY <1>1, <1>3, <1>6, <2>1, AllRight DEF AttendanceInv
<1>8. ApprovedIsApplied'
  <2> SUFFICES ASSUME request'.envelope = "approved", request'.onDay
               PROVE  /\ day'.regularized
                      /\ \A k \in DOMAIN request'.times : request'.times[k] \in Stored(punches')
    BY DEF ApprovedIsApplied, Stored
  <2>1. request.onDay => day.exists
    BY DEF AttendanceInv, RequestInv
  <2>2. CASE w.decision = "none"
    <3>1. /\ day.regularized
          /\ \A k \in DOMAIN request.times : request.times[k] \in Stored(punches)
      BY <1>6, <2>2 DEF AttendanceInv, RequestInv, ApprovedIsApplied
    <3> QED
      BY <1>2, <1>5, <1>6, <2>1, <3>1
  <2>3. CASE w.decision # "none"
    <3>1. w.seen.exists /\ w.row.regularized /\ w.adds = request.times
      BY <1>0, <1>6, <2>3 DEF TaskRight
    <3> QED
      BY <1>2, <1>5, <1>6, <3>1
  <2> QED
    BY <2>2, <2>3
<1>9. RequestInv'
  BY <1>3, <1>6, <1>8 DEF AttendanceInv, RequestInv, EnvelopeMatchesRequest, DayGrows
<1> QED
  BY <1>3, <1>5, <1>7, <1>9 DEF AttendanceInv, DayGrows

LEMMA FinalizeStep ==
  ASSUME AttendanceInv, Finalize
  PROVE  AttendanceInv'
<1>0. Finalizer \in Everyone /\ IsDay(day)
  BY DEF Everyone, AttendanceInv
<1>1. CASE LoadDays
  <2>1. TaskRight([at |-> "loaded", seen |-> day])
    BY <1>0 DEF TaskRight
  <2>2. Goes(Finalizer, [at |-> "loaded", seen |-> day]) /\ UNCHANGED <<day, punches, request>>
    BY <1>1 DEF LoadDays, Reads, store
  <2> QED
    BY <1>0, <2>1, <2>2, QuietMove
<1>2. CASE RecomputeDay
  <2> DEFINE d == task[Finalizer].seen
             row == Recomputed(d, punches, now)
             w == Plain(d, row, <<>>)
  <2>1. /\ IsDay(d) /\ (d.exists => day.exists /\ (d.regularized => day.regularized))
        /\ UNCHANGED <<day, punches, request>>
        /\ Goes(Finalizer, IF ~d.exists \/ Skips THEN Idle ELSE w)
    BY <1>0, <1>2 DEF RecomputeDay, Reads, store, AttendanceInv, TasksRight, TaskRight
  <2> HIDE DEF d
  <2>2. IsDay(row) /\ row.exists = d.exists /\ row.regularized = d.regularized
    BY <2>1, Computed
  <2>3. TaskRight(w)
    <3> HIDE DEF row
    <3> QED
      BY <2>1, <2>2, EmptySeq DEF TaskRight, Plain, Write
  <2> HIDE DEF w
  <2> QED
    BY <1>0, <2>1, <2>3, IdleRight, QuietMove
<1> QED
  BY <1>0, <1>1, <1>2, CommitStep DEF Finalize

\* The days of a leave that is cancelled keep their punches and their regularization.
LEMMA CancelStep ==
  ASSUME AttendanceInv, cancel_leave_request
  PROVE  AttendanceInv'
<1> DEFINE status == IF day.first = NoPunch THEN "absent" ELSE day.status
           d == [day EXCEPT !.leave = FALSE, !.status = status]
           row == Recomputed(d, punches, now)
<1>0. IsDay(day) /\ UNCHANGED <<punches, request, task>>
      /\ day' = IF ~day.leave THEN day ELSE row
  BY DEF AttendanceInv, cancel_leave_request
<1>1. IsDay(d) /\ d.exists = day.exists /\ d.regularized = day.regularized
  <2> HIDE DEF status
  <2> QED
    BY <1>0 DEF IsDay, Columns
<1>2. IsDay(row) /\ row.exists = day.exists /\ row.regularized = day.regularized
  <2> HIDE DEF d
  <2> QED
    BY <1>1, Computed
<1> HIDE DEF row
<1>3. IsDay(day') /\ day'.exists = day.exists /\ day'.regularized = day.regularized
  BY <1>0, <1>2
<1>4. DayGrows
  BY <1>3 DEF DayGrows
<1>5. TasksRight'
  BY <1>0, <1>4, AllRight DEF AttendanceInv
<1>6. RequestInv'
  BY <1>0, <1>3 DEF AttendanceInv, RequestInv, EnvelopeMatchesRequest, ApprovedIsApplied, Stored
<1> QED
  BY <1>0, <1>3, <1>5, <1>6 DEF AttendanceInv

LEMMA Unwritten ==
  ASSUME AttendanceInv, UNCHANGED <<day, punches, request, task>>
  PROVE  AttendanceInv'
BY DEF AttendanceInv, TasksRight, TaskRight, RequestInv, EnvelopeMatchesRequest,
       ApprovedIsApplied, Stored

LEMMA AttendanceInvKept == AttendanceInv /\ [Next]_vars => AttendanceInv'
<1> SUFFICES ASSUME AttendanceInv, [Next]_vars PROVE AttendanceInv'
  OBVIOUS
<1>1. ASSUME NEW s \in Sessions, Requests(s) PROVE AttendanceInv'
  BY <1>1, RequestsStep
<1>2. ASSUME NEW s \in Everyone, GiveUp(s) PROVE AttendanceInv'
  BY <1>2, IdleRight, QuietMove DEF GiveUp, store
<1>3. ASSUME NEW s \in Sessions, GoesOn(s) PROVE AttendanceInv'
  BY <1>2, <1>3, CommitStep, DecideStep, DeleteStep DEF GoesOn, Everyone
<1>4. CASE Finalize
  BY <1>4, FinalizeStep
<1>5. ASSUME NEW scope \in Scopes, lock_attendance(scope) \/ unlock_attendance(scope)
      PROVE  AttendanceInv'
  BY <1>5, Unwritten DEF lock_attendance, unlock_attendance
<1>6. CASE cancel_leave_request
  BY <1>6, CancelStep
<1>7. CASE Tick
  BY <1>7, Unwritten DEF Tick, store
<1>8. CASE UNCHANGED vars
  BY <1>8, Unwritten DEF vars, store
<1> QED
  BY <1>1, <1>2, <1>3, <1>4, <1>5, <1>6, <1>7, <1>8 DEF Next, Everyone

\* However approvals, cancellations and deletions of a correction overlap, the
\* envelope in the approvals module and the request in this one say the same.
THEOREM OneDecision == AttendanceSpec => []EnvelopeMatchesRequest
<1>1. AttendanceInv => EnvelopeMatchesRequest
  BY DEF AttendanceInv, RequestInv
<1> QED
  BY <1>1, InitRight, AttendanceInvKept, PTL DEF AttendanceSpec

\* Whatever uploads, overrides, leaves that are cancelled and nights come
\* between, a correction that stands as approved is on the day it was made for.
THEOREM ApprovedStays == AttendanceSpec => []ApprovedIsApplied
<1>1. AttendanceInv => ApprovedIsApplied
  BY DEF AttendanceInv, RequestInv
<1> QED
  BY <1>1, InitRight, AttendanceInvKept, PTL DEF AttendanceSpec

-------------------------------------------------------------------------------
(* The lock of the company *)

Frozen == LockedBy({"company"})

\* A cancellation or a deletion, or a decision that leaves day and punches alone.
Harmless(w) ==
  /\ w.at = "checked" => w.decision \in {"cancelled", "deleted"}
  /\ w.at = "write" => w.seen = Unmarked /\ w.row = Unmarked /\ w.adds = <<>> /\ w.drops = {}

\* What passes its check under the lock is harmless.
FreezeInv ==
  /\ lock = [scope \in Scopes |-> lock[scope]]
  /\ Frozen => \A s \in Everyone \ early : Harmless(task[s])

LEMMA FrozenIsLocked == Frozen => PeriodLocked
BY DEF Frozen, LockedBy, PeriodLocked

LEMMA InitFree == Init => FreezeInv
BY DEF Init, FreezeInv, Frozen, LockedBy

\* A session that goes on to something harmless, or ends, under the same locks.
LEMMA GoesHarmless ==
  ASSUME FreezeInv, TasksRight, NEW s \in Everyone, NEW next, Goes(s, next), UNCHANGED lock,
         early \subseteq early' \cup {s},
         Frozen /\ s \notin early' => Harmless(next)
  PROVE  FreezeInv'
<1>1. task'[s] = next /\ \A t \in Everyone : t # s => task'[t] = task[t]
  BY Moved DEF TasksRight
<1>2. ASSUME Frozen, NEW t \in Everyone \ early' PROVE Harmless(task'[t])
  BY <1>1, <1>2 DEF FreezeInv
<1>3. Frozen' <=> Frozen
  BY DEF Frozen, LockedBy
<1> QED
  BY <1>2, <1>3 DEF FreezeInv, Harmless, Everyone

LEMMA BeginFree ==
  ASSUME FreezeInv, TasksRight, NEW s \in Sessions, NEW next, Begin(s, next),
         Frozen => Harmless(next)
  PROVE  FreezeInv'
BY GoesHarmless DEF Begin, store, Everyone

LEMMA EndFree ==
  ASSUME FreezeInv, TasksRight, NEW s \in Everyone, Goes(s, Idle), early' = early \ {s},
         UNCHANGED lock
  PROVE  FreezeInv'
<1>1. Harmless(Idle)
  BY DEF Harmless, Idle
<1> QED
  BY <1>1, GoesHarmless

LEMMA RequestsFree ==
  ASSUME FreezeInv, TasksRight, NEW s \in Sessions, Requests(s)
  PROVE  FreezeInv'
<1>1. ASSUME NEW next, ~Frozen, Begin(s, next) PROVE FreezeInv'
  BY <1>1, BeginFree
<1>2. ASSUME NEW t \in Times, Upload(s, t) \/ add_manual_punch(s, t)
      PROVE  FreezeInv'
  BY <1>1, <1>2, FrozenIsLocked DEF Upload, add_manual_punch
<1>3. ASSUME NEW status \in Marks, NEW link \in BOOLEAN, create_attendance_day(s, status, link)
      PROVE  FreezeInv'
  BY <1>1, <1>3, FrozenIsLocked DEF create_attendance_day
<1>4. ASSUME NEW status, NEW link, NEW worked, override_attendance_day(s, status, link, worked)
      PROVE  FreezeInv'
  BY <1>1, <1>4, FrozenIsLocked DEF override_attendance_day
<1>5. ASSUME NEW times \in Corrections, create_manual_attendance(s, times)
      PROVE  FreezeInv'
  BY <1>1, <1>5, FrozenIsLocked DEF create_manual_attendance
<1>6. CASE generate_for_range(s)
  BY <1>1, <1>6 DEF generate_for_range, Frozen
<1>7. ASSUME NEW times \in Corrections, request_correction(s, times)
      PROVE  FreezeInv'
  BY <1>7 DEF request_correction, FreezeInv, Frozen, LockedBy, Everyone, Harmless
<1>8. ASSUME NEW decision \in Decisions \cup {"deleted"}, Check(s, decision)
      PROVE  FreezeInv'
  <2> DEFINE next == [at |-> "checked", decision |-> decision]
  <2>1. Begin(s, next) /\ (Frozen => Harmless(next))
    BY <1>8, FrozenIsLocked DEF Check, Harmless, Decisions
  <2> HIDE DEF next
  <2> QED
    BY <2>1, BeginFree
<1> QED
  BY <1>2, <1>3, <1>4, <1>5, <1>6, <1>7, <1>8 DEF Requests

LEMMA DecideFree ==
  ASSUME FreezeInv, TasksRight, NEW s \in Sessions, Decide(s)
  PROVE  FreezeInv'
<1>1. /\ s \in Everyone /\ UNCHANGED <<lock, early>> /\ task[s].at = "checked"
      /\ \E next :
           /\ Goes(s, next)
           /\ task[s].decision # "approved" =>
                next = Write(Unmarked, Unmarked, <<>>, {}, task[s].decision)
  BY DEF Decide, Reads, store, Everyone
<1>2. PICK next : /\ Goes(s, next)
                  /\ task[s].decision # "approved" =>
                       next = Write(Unmarked, Unmarked, <<>>, {}, task[s].decision)
  BY <1>1
<1>3. ASSUME Frozen, s \notin early PROVE Harmless(next)
  BY <1>1, <1>2, <1>3 DEF FreezeInv, Harmless, Write
<1> QED
  BY <1>1, <1>2, <1>3, GoesHarmless

LEMMA FreezeInvKept == TasksRight /\ FreezeInv /\ [Next]_vars => FreezeInv'
<1> SUFFICES ASSUME TasksRight, FreezeInv, [Next]_vars PROVE FreezeInv'
  OBVIOUS
<1>1. ASSUME NEW s \in Sessions, Requests(s) PROVE FreezeInv'
  BY <1>1, RequestsFree
<1>2. ASSUME NEW s \in Everyone, GiveUp(s) \/ Commit(s) \/ DeleteRequest(s) PROVE FreezeInv'
  BY <1>2, EndFree DEF GiveUp, Commit, DeleteRequest, store
<1>3. ASSUME NEW s \in Sessions, GoesOn(s) PROVE FreezeInv'
  BY <1>2, <1>3, DecideFree DEF GoesOn, Everyone
<1>4. CASE LoadDays
  <2>1. Harmless([at |-> "loaded", seen |-> day])
    BY DEF Harmless
  <2> QED
    BY <1>4, <2>1, GoesHarmless DEF LoadDays, Reads, store, Everyone
<1>5. CASE RecomputeDay
  <2>1. Harmless(Idle)
    BY DEF Harmless, Idle
  <2>2. PICK next : Goes(Finalizer, next) /\ (Frozen => next = Idle)
    BY <1>5 DEF RecomputeDay, Reads, Skips, Frozen
  <2> QED
    BY <1>5, <2>1, <2>2, GoesHarmless DEF RecomputeDay, Reads, store, Everyone
<1>6. ASSUME NEW scope \in Scopes, lock_attendance(scope) PROVE FreezeInv'
  <2>1. CASE scope = "company"
    <3>1. \A s \in Everyone \ early' : Harmless(task'[s])
      BY <1>6, <2>1 DEF lock_attendance, Harmless, TasksRight
    <3> QED
      BY <1>6, <3>1 DEF lock_attendance, FreezeInv, Harmless, Everyone
  <2>2. CASE scope # "company"
    <3>1. UNCHANGED <<task, early>> /\ (Frozen' => Frozen)
      BY <1>6, <2>2 DEF lock_attendance, FreezeInv, Frozen, LockedBy
    <3> QED
      BY <1>6, <3>1 DEF lock_attendance, FreezeInv, Harmless, Everyone
  <2> QED
    BY <2>1, <2>2
<1>7. ASSUME NEW scope \in Scopes, unlock_attendance(scope) PROVE FreezeInv'
  <2>1. UNCHANGED <<task, early>> /\ (Frozen' => Frozen)
    BY <1>7 DEF unlock_attendance, FreezeInv, Frozen, LockedBy
  <2> QED
    BY <1>7, <2>1 DEF unlock_attendance, FreezeInv, Harmless, Everyone
<1>8. CASE cancel_leave_request \/ Tick \/ UNCHANGED vars
  BY <1>8 DEF cancel_leave_request, Tick, vars, store, FreezeInv, Frozen, LockedBy, Harmless, Everyone
<1> QED
  BY <1>1, <1>2, <1>3, <1>4, <1>5, <1>6, <1>7, <1>8 DEF Next, Finalize, Everyone

LEMMA CommitsNothing ==
  ASSUME AttendanceInv, FreezeInv, Frozen, early = {}, NEW s \in Everyone, Commit(s)
  PROVE  UNCHANGED <<day, punches>>
<1>1. Harmless(task[s]) /\ task[s].at = "write"
  BY DEF FreezeInv, Commit
<1>2. punches \in Seq(PunchRow)
  BY DEF AttendanceInv
<1>3. punches' = Add(Invalidate(punches, {}), <<>>)
  BY <1>1 DEF Commit, Harmless
<1>4. day' = day
  BY <1>1, OpenedIsDay DEF Commit, Harmless
<1> QED
  BY <1>2, <1>3, <1>4, PunchesStay

\* "Freeze mutations": with the company's month locked, and the requests from
\* before the lock through, only a leave that is cancelled changes the day.
THEOREM LockFreezes == AttendanceSpec => CompanyLockFreezes
<1> DEFINE Still == Frozen /\ early = {} => UNCHANGED <<day, punches>> \/ leave' # leave
<1>1. ASSUME AttendanceInv, FreezeInv, Next PROVE Still
  <2> SUFFICES ASSUME Frozen, early = {} PROVE UNCHANGED <<day, punches>> \/ leave' # leave
    OBVIOUS
  <2>1. ASSUME NEW s \in Sessions, Requests(s) PROVE UNCHANGED <<day, punches>>
    BY <2>1 DEF Requests, Upload, add_manual_punch, create_attendance_day,
                override_attendance_day, create_manual_attendance, request_correction,
                generate_for_range, Check, Begin, store
  <2>2. ASSUME NEW s \in Sessions, GoesOn(s) PROVE UNCHANGED <<day, punches>>
    BY <1>1, <2>2, CommitsNothing DEF GoesOn, Decide, Reads, DeleteRequest, GiveUp, store, Everyone
  <2>3. CASE Finalize \/ GiveUp(Finalizer)
    BY <1>1, <2>3, CommitsNothing DEF Finalize, LoadDays, RecomputeDay, Reads, GiveUp, store, Everyone
  <2>4. ASSUME NEW scope \in Scopes, lock_attendance(scope) \/ unlock_attendance(scope)
        PROVE  UNCHANGED <<day, punches>>
    BY <2>4 DEF lock_attendance, unlock_attendance
  <2>5. CASE cancel_leave_request
    BY <2>5 DEF cancel_leave_request
  <2>6. CASE Tick
    BY <2>6 DEF Tick, store
  <2> QED
    BY <1>1, <2>1, <2>2, <2>3, <2>4, <2>5, <2>6 DEF Next
<1>2. AttendanceInv => TasksRight
  BY DEF AttendanceInv
<1>3. AttendanceInv /\ FreezeInv /\ [Next]_vars => [Still]_vars
  BY <1>1
<1>4. [Still]_vars => [LockedBy({"company"}) /\ early = {} =>
                         UNCHANGED <<day, punches>> \/ leave' # leave]_vars
  BY DEF Frozen
<1> HIDE DEF Still
<1> QED
  BY <1>2, <1>3, <1>4, InitRight, InitFree, AttendanceInvKept, FreezeInvKept, PTL
     DEF AttendanceSpec, CompanyLockFreezes
===============================================================================
