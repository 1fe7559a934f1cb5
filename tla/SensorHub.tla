----------------------------- MODULE SensorHub -----------------------------
(***************************************************************************)
(* The sensors service (sensors-hf/Sensors.cpp over HfManagerClient.cpp):  *)
(* a reader thread carries the kernel's events into the framework's event  *)
(* queue, a second thread reads how many wake-up events the framework has  *)
(* handled, and the two share the wake lock.  initialize() stops both and  *)
(* starts again on new queues.                                             *)
(***************************************************************************)
EXTENDS Integers, Sequences, FiniteSets, SequencesExt

CONSTANTS Handles,   \* sensor handles
          WakeUp,    \* those whose events wake the system up
          QueueSize, \* of the event queue
          Batch,     \* kMaxEvents, read from the kernel at once
          MaxEvents, \* events the kernel reports
          MaxInits   \* calls of initialize

VARIABLE s

Periods == 1..2

\* state: active and the period of each sensor; kernel: the period the kernel samples at,
\* 0 when disabled; source: what the kernel has to report; batch: what the reader
\* holds; queue: the event queue; taken: wake-up events the framework has read;
\* acks: the wake lock queue; out: outstandingWakeUpEvents_; late: the deadline has
\* passed.  read and given list the events since initialize; waived: the deadline dropped unhandled events.
Init == s = [state |-> [h \in Handles |-> [active |-> FALSE, period |-> 1]], kernel |-> [h \in Handles |-> 0],
             source |-> <<>>, events |-> 0, batch |-> <<>>, queue |-> <<>>, taken |-> 0, acks |-> <<>>,
             reader |-> "off", acker |-> FALSE, stopping |-> FALSE, inits |-> 0,
             held |-> FALSE, out |-> 0, late |-> FALSE, waived |-> FALSE, read |-> <<>>, given |-> <<>>]

Wakes(q) == Len(SelectSeq(q, LAMBDA e : e.h \in WakeUp))
Unhandled(t) == Wakes(t.queue) + t.taken + FoldSeq(LAMBDA a, n : a + n, 0, t.acks)

\* updateWakeLockLocked; works says whether the kernel takes or gives back the lock.
UpdateWakeLock(t, written, handled, works) ==
  LET n == t.out + written - handled
      out == IF n < 0 THEN 0 ELSE n
      late == t.late /\ written = 0
      left == IF t.held /\ late THEN 0 ELSE out
  IN [t EXCEPT !.late = late, !.out = left,
               !.waived = (@ \/ left # out),
               !.held = IF t.held THEN ~(left = 0 /\ works) ELSE out > 0 /\ works]

\* activate and batch: the kernel is told first, and a refusal changes nothing.
SetEnable(t, h) == [t EXCEPT !.kernel[h] = IF t.state[h].active THEN t.state[h].period ELSE 0]

Idle == ~s.stopping
Activate(h, on) == /\ Idle /\ s' = SetEnable([s EXCEPT !.state[h].active = on], h)

BatchOf(h, p) ==
  /\ Idle
  /\ LET t == [s EXCEPT !.state[h].period = p] IN s' = IF s.state[h].active THEN SetEnable(t, h) ELSE t

\* External: the kernel has an event to report.
Reports(t, h, k) == [t EXCEPT !.source = Append(@, [h |-> h, k |-> k, id |-> t.events + 1]), !.events = @ + 1]

\* flush: an active sensor's kernel driver answers with an event.
Flush(h) == /\ Idle /\ s.state[h].active /\ s.events < MaxEvents /\ s' = Reports(s, h, "data")

Sample(h, k) == /\ s.kernel[h] # 0 /\ s.events < MaxEvents /\ s' = Reports(s, h, k)

-----------------------------------------------------------------------------
\* The framework gets samples and flush answers; calibration reports stay here.
Translate(q) == SelectSeq(q, LAMBDA e : e.k = "data")

\* waitAndReadEvents and the translation of what was read.
Read ==
  /\ s.reader = "read" /\ s.source # <<>> /\ ~s.stopping
  /\ LET n == IF Len(s.source) < Batch THEN Len(s.source) ELSE Batch
         got == Translate(SubSeq(s.source, 1, n))
     IN s' = [s EXCEPT !.source = SubSeq(@, n + 1, Len(@)), !.batch = got, !.read = @ \o got, !.reader = "post"]

\* The device fails under the reader, which ends.
Broken == /\ s.reader = "read" /\ s' = [s EXCEPT !.reader = "broken"]


\* postEvents, one turn of its loop: the wake-up events are counted and the lock
\* taken before they are written; if either fails the count and the deadline are taken back.
PostEvents(works, fits) ==
  /\ s.reader = "post" /\ ~s.stopping /\ s.batch # <<>> /\ Len(s.queue) < QueueSize
  /\ LET room == QueueSize - Len(s.queue)
         n == IF Len(s.batch) < room THEN Len(s.batch) ELSE room
         w == Wakes(SubSeq(s.batch, 1, n))
         t == IF w > 0 THEN UpdateWakeLock(s, w, 0, works) ELSE s
     IN s' = IF (w = 0 \/ t.held) /\ fits
             THEN [t EXCEPT !.queue = @ \o SubSeq(s.batch, 1, n), !.batch = SubSeq(@, n + 1, Len(@))]
             ELSE IF w > 0 THEN UpdateWakeLock([t EXCEPT !.late = s.late], 0, w, works) ELSE t

PostDone ==
  /\ s.reader = "post" /\ (s.batch = <<>> \/ s.stopping)
  /\ s' = [s EXCEPT !.batch = <<>>, !.reader = "read"]

\* readWakeLockFMQ, one turn: a count the framework wrote, or none in time.
ReadWakeLock(works) ==
  /\ s.acker
  /\ s' = IF s.acks = <<>> THEN UpdateWakeLock(s, 0, 0, works)
          ELSE [UpdateWakeLock(s, 0, Head(s.acks), works) EXCEPT !.acks = Tail(@)]

-----------------------------------------------------------------------------
\* initialize, up to the joins of stopReaderLocked.
Initialize == /\ Idle /\ s.inits < MaxInits /\ s' = [s EXCEPT !.stopping = TRUE, !.inits = @ + 1]

ReaderExits == /\ s.stopping /\ s.reader = "read" /\ s' = [s EXCEPT !.reader = "off"]

\* The rest of initialize: the lock is given back, and the threads start on the new queues
\* if these are valid.
Initialized(works, valid) ==
  /\ s.stopping /\ s.reader \in {"off", "broken"}
  /\ s' = [s EXCEPT !.stopping = FALSE, !.held = @ /\ ~works, !.out = 0, !.queue = <<>>, !.taken = 0,
                    !.acks = <<>>, !.waived = FALSE, !.read = <<>>, !.given = <<>>, !.batch = <<>>,
                    !.reader = IF valid THEN "read" ELSE "off", !.acker = valid]

\* The framework (external): it takes events, and says how many wake-up events it handled.
Takes ==
  /\ s.queue # <<>> /\ ~s.stopping
  /\ s' = [s EXCEPT !.queue = Tail(@), !.given = Append(@, Head(s.queue)), !.taken = @ + Wakes(<<Head(s.queue)>>)]

Acks == /\ s.taken > 0 /\ ~s.stopping /\ s' = [s EXCEPT !.acks = Append(@, s.taken), !.taken = 0]

DeadlinePasses == /\ s.held /\ ~s.late /\ s' = [s EXCEPT !.late = TRUE]

Configure ==
  \E h \in Handles : \/ \E on \in BOOLEAN : Activate(h, on)
                     \/ \E p \in Periods : BatchOf(h, p)
                     \/ Flush(h)
                     \/ \E k \in {"data", "cali"} : Sample(h, k)

Next ==
  \/ Configure
  \/ Read
  \/ Broken
  \/ \E works, fits \in BOOLEAN : PostEvents(works, fits)
  \/ PostDone
  \/ \E works \in BOOLEAN : ReadWakeLock(works)
  \/ Initialize
  \/ ReaderExits
  \/ \E works, valid \in BOOLEAN : Initialized(works, valid)
  \/ Takes
  \/ Acks
  \/ DeadlinePasses

-----------------------------------------------------------------------------
\* postEvents and readWakeLockFMQ: as long as no deadline has dropped unhandled
\* events, the count of outstanding wake-up events is exact whatever writes and lock
\* requests failed, and no such event is in the framework's hands without the lock;
\* events reach the queue once and in the kernel's order.
WakeUpsHeld ==
  /\ ~s.waived => s.out = Unhandled(s) /\ (Unhandled(s) > 0 => s.held)
  /\ ~s.stopping => s.given \o s.queue \o s.batch = s.read
=============================================================================
