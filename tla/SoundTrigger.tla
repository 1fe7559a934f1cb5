---------------------------- MODULE SoundTrigger ----------------------------
(***************************************************************************)
(* The sound trigger service (bridges/audio/SoundTriggerMindone.cpp):      *)
(* calls of the framework under the lock api, events of the old HAL on its *)
(* own thread, and a dispatcher that delivers them in order.  An epoch per *)
(* model tells events of a recognition that was stopped.                   *)
(***************************************************************************)
EXTENDS Integers, Sequences, FiniteSets

CONSTANTS MaxModels,   \* properties.maxSoundModels
          Ids,         \* the handles given out, 1..n
          MaxEpoch,    \* epochs of a model
          MaxJobs,     \* jobs waiting for the dispatcher
          MaxStops,    \* calls that wait for the deliveries of a model
          MaxGlobals   \* global callbacks registered

VARIABLE s

Client == [loaded |-> FALSE, active |-> FALSE, epoch |-> 0, drainers |-> 0, deliveries |-> 0]

\* hal: what the old HAL does with the model; op: the call that holds api; waits:
\* calls waiting for deliveries to end; flight: an event the HAL is handing over,
\* with the epoch of its cookie; disp: the dispatcher's job; quiet: models whose
\* stop has returned and that were not started since.
Init == s = [cl |-> [i \in Ids |-> Client], hal |-> [i \in Ids |-> "none"], run |-> [i \in Ids |-> 0], nextId |-> 1,
             global |-> FALSE, attachment |-> 0, contention |-> FALSE, blocked |-> FALSE, op |-> <<>>, waits |-> {},
             jobs |-> <<>>, disp |-> <<>>, flight |-> <<>>, quiet |-> {}]

Loaded(t) == {i \in Ids : t.cl[i].loaded}

\* resources: the framework hears once that something became free.
Resources(t) == [t EXCEPT !.contention = FALSE]

\* Mutant of StopBegin: a recognition that ended by itself keeps its epoch.
StopBeginSame(t, i) ==
  [t EXCEPT !.cl[i].active = FALSE, !.cl[i].epoch = IF t.cl[i].active THEN @ + 1 ELSE @]

\* The first half of stop, under the mutex.
StopBegin(t, i) == [t EXCEPT !.cl[i].active = FALSE, !.cl[i].epoch = @ + 1]

Unloaded(t, i) ==
  [t EXCEPT !.cl[i].loaded = FALSE, !.cl[i].epoch = @ + 1, !.hal[i] = "none"]

\* cleanup for a model or for all; a refusal of the HAL ends the process.
Cleanup(t, id, gen) ==
  LET gone == {i \in Loaded(t) : id \in {0, i}}
  IN IF gen # t.attachment THEN t
     ELSE Resources([t EXCEPT !.cl = [i \in Ids |-> IF i \in gone THEN [t.cl[i] EXCEPT !.loaded = FALSE, !.active = FALSE, !.epoch = @ + 2]
                                                    ELSE t.cl[i]],
                              !.hal = [i \in Ids |-> IF i \in gone THEN "none" ELSE t.hal[i]],
                              !.global = @ /\ id # 0])

-----------------------------------------------------------------------------
\* Calls of the framework.

\* A framework that is dead already is not taken, but the attachment is new.
RegisterGlobalCallback(linked) ==
  /\ s.op = <<>> /\ ~s.global /\ s.attachment < MaxGlobals
  /\ s' = [s EXCEPT !.global = linked, !.attachment = @ + 1]

\* load: refused when full or when the HAL is busy, with the framework told later.
Load(rc) ==
  LET i == s.nextId
  IN /\ s.op = <<>> /\ s.global /\ (i \in Ids \/ Cardinality(Loaded(s)) >= MaxModels)
     /\ s' = IF Cardinality(Loaded(s)) >= MaxModels THEN [s EXCEPT !.contention = TRUE]
             ELSE [s EXCEPT !.nextId = i + 1, !.cl[i].loaded = rc = "ok", !.hal[i] = IF rc = "ok" THEN "idle" ELSE @,
                            !.contention = @ \/ rc = "busy"]

\* startRecognition up to the call of the HAL.
Start(i) ==
  LET k == s.cl[i]
  IN /\ s.op = <<>> /\ k.loaded /\ k.epoch < MaxEpoch
     /\ s' = IF k.drainers > 0 \/ (~k.active /\ s.blocked) THEN [s EXCEPT !.contention = TRUE]
             ELSE IF k.active THEN s
             ELSE [s EXCEPT !.cl[i].epoch = @ + 1, !.cl[i].active = TRUE, !.op = <<"start", i>>, !.quiet = @ \ {i}]

\* The HAL has answered: it runs with this epoch's cookie, is busy, or refused.
Started(rc) ==
  /\ s.op # <<>> /\ s.op[1] = "start"
  /\ LET i == s.op[2]
     IN s' = IF rc = "ok" THEN [s EXCEPT !.op = <<>>, !.hal[i] = "running", !.run[i] = s.cl[i].epoch]
             ELSE [s EXCEPT !.op = <<>>, !.cl[i].active = FALSE, !.cl[i].epoch = @ + 1, !.contention = @ \/ rc = "busy"]

\* stopRecognition and unloadSoundModel up to the call of the HAL.
\* n tells the calls that wait apart.
Stop(i, kind, n) ==
  /\ s.op = <<>> /\ s.cl[i].loaded /\ s.cl[i].epoch < MaxEpoch /\ \A w \in s.waits : w[3] # n
  /\ s' = [StopBegin(s, i) EXCEPT !.op = <<kind, i, s.cl[i].active, s.cl[i].epoch, n>>, !.cl[i].drainers = @ + 1]

\* The HAL has answered; on a refusal the recognition counts as running again.
Stopped(rc) ==
  /\ s.op # <<>> /\ s.op[1] \in {"stop", "unload"} /\ (rc \/ s.op[3] \/ s.op[1] = "unload")
  /\ LET i == s.op[2]
         off == [s EXCEPT !.op = <<>>, !.waits = @ \cup {<<i, rc, s.op[5]>>}, !.hal[i] = IF s.op[3] /\ rc THEN "idle" ELSE @]
     IN s' = IF rc THEN IF s.op[1] = "unload" THEN Unloaded(off, i) ELSE off
             ELSE IF s.op[3] THEN [off EXCEPT !.cl[i].active = TRUE, !.cl[i].epoch = s.op[4]] ELSE off

\* Deliveries under way have ended, and the call returns.
StopReturns(w) ==
  LET t == [s EXCEPT !.waits = @ \ {w}, !.cl[w[1]].drainers = @ - 1, !.quiet = IF w[2] THEN @ \cup {w[1]} ELSE @]
  IN /\ s.cl[w[1]].deliveries = 0
     /\ s' = IF w[2] THEN Resources(t) ELSE t

\* setCaptureBlocked on hardware that cannot capture twice: every recognition is
\* stopped and reported as aborted.
SetCaptureBlocked(b) ==
  LET on == {i \in Ids : s.cl[i].loaded /\ s.cl[i].active}
      off == [s EXCEPT !.blocked = b, !.cl = [i \in Ids |-> IF i \in on THEN [s.cl[i] EXCEPT !.active = FALSE, !.epoch = @ + 1] ELSE s.cl[i]],
                       !.hal = [i \in Ids |-> IF i \in on THEN "idle" ELSE s.hal[i]], !.contention = @ \/ on # {}]
      Abort[i \in 0..Cardinality(Ids)] ==
        IF i = 0 THEN <<>> ELSE Abort[i - 1] \o (IF i \in on THEN <<<<"event", i, s.cl[i].epoch + 1, 0>>>> ELSE <<>>)
  IN /\ s.op = <<>> /\ Len(s.jobs) + Cardinality(on) <= MaxJobs
     /\ s' = IF b THEN [off EXCEPT !.jobs = @ \o Abort[Cardinality(Ids)]] ELSE Resources([s EXCEPT !.blocked = b])

-----------------------------------------------------------------------------
\* The HAL's thread, the framework's death, and the dispatcher.

\* The HAL recognises something, and is done unless it only reports its state.
HalEvent(i, still) ==
  /\ s.flight = <<>> /\ s.hal[i] = "running"
  /\ s' = [s EXCEPT !.flight = <<i, s.run[i], still>>, !.hal[i] = IF still THEN @ ELSE "idle"]

\* The callback recognition: dropped unless it is of the recognition that runs.
Recognition ==
  LET i == s.flight[1]
      k == s.cl[i]
  IN /\ s.flight # <<>> /\ Len(s.jobs) < MaxJobs
     /\ s' = IF ~k.loaded \/ ~k.active \/ s.flight[2] # k.epoch THEN [s EXCEPT !.flight = <<>>]
             ELSE [s EXCEPT !.flight = <<>>, !.cl[i].active = s.flight[3], !.jobs = Append(@, <<"event", i, k.epoch, s.attachment>>)]

\* A client died, or the framework as a whole.
Died(id) ==
  /\ s.global /\ Len(s.jobs) < MaxJobs /\ (id = 0 \/ id \in Loaded(s))
  /\ s' = [s EXCEPT !.jobs = Append(@, <<"clean", id, 0, s.attachment>>)]

\* The dispatcher takes a job; an event that is still current is being delivered
\* from here to Delivered.
Dispatch ==
  LET j == Head(s.jobs)
      t == [s EXCEPT !.jobs = Tail(@)]
      i == j[2]
  IN /\ s.jobs # <<>> /\ s.disp = <<>> /\ (j[1] = "clean" => s.op = <<>>)
     /\ s' = IF j[1] = "clean" THEN Cleanup(t, i, j[4])
             ELSE IF ~s.cl[i].loaded \/ s.cl[i].epoch # j[3] THEN t
             ELSE [t EXCEPT !.cl[i].deliveries = 1, !.disp = j]

\* The client has taken the event, or is gone.
Delivered(ok) ==
  LET j == s.disp
      t == [s EXCEPT !.disp = <<>>, !.cl[j[2]].deliveries = 0]
  IN /\ s.disp # <<>> /\ (ok \/ Len(s.jobs) < MaxJobs)
     /\ s' = IF j[4] = 0 THEN t
             ELSE Resources(IF ok THEN t ELSE [t EXCEPT !.jobs = Append(@, <<"clean", j[2], 0, j[4]>>)])

Next ==
  \/ Recognition \/ Dispatch
  \/ \E b \in BOOLEAN : RegisterGlobalCallback(b) \/ Stopped(b) \/ SetCaptureBlocked(b) \/ Delivered(b)
  \/ \E rc \in {"ok", "busy", "fails"} : Load(rc) \/ Started(rc)
  \/ \E i \in Ids : Start(i) \/ (\E b \in BOOLEAN : HalEvent(i, b))
       \/ (\E kind \in {"stop", "unload"}, n \in 1..MaxStops : Stop(i, kind, n))
  \/ \E w \in s.waits : StopReturns(w)
  \/ \E i \in Ids \cup {0} : Died(i)

-----------------------------------------------------------------------------
\* Once stopRecognition or unloadSoundModel has returned success, no event of that
\* recognition is being delivered and none of those queued can be.
QuietAfterStop ==
  \A i \in s.quiet :
    /\ s.cl[i].deliveries = 0
    /\ \A n \in DOMAIN s.jobs : s.jobs[n][1] = "event" /\ s.jobs[n][2] = i => ~s.cl[i].loaded \/ s.jobs[n][3] # s.cl[i].epoch

\* While capture is blocked no recognition runs in the HAL, and a recognition that
\* runs there is one the service would stop.
CaptureYields ==
  /\ s.blocked => \A i \in Ids : s.hal[i] # "running"
  /\ \A i \in Ids : s.hal[i] = "running" /\ s.op = <<>> => s.cl[i].active
=============================================================================
