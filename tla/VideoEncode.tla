---------------------------- MODULE VideoEncode ----------------------------
(***************************************************************************)
(* The hardware video encoder of codec2/: EncodeComponent, which owns the  *)
(* works of the client, over V4L2Encoder, which owns the device queues.    *)
(* Both run as tasks of one encoder thread; client calls post tasks, and   *)
(* start(), stop() and flush_sm() wait for theirs.  start() and stop()     *)
(* wait while they hold mComponentLock, which reportError() takes.         *)
(* The record s holds both objects; every task is an operator on it.  The  *)
(* kernel driver and the poll thread are actions of their own.  Failures   *)
(* of the platform are the parameter f of a task.                          *)
(***************************************************************************)
EXTENDS Naturals, Sequences, SequencesExt, FiniteSets

CONSTANTS MaxWorks,   \* works the client queues
          INPUTS,     \* kInputBufferCount
          OUTPUTS     \* kOutputBufferCount

VARIABLE s

vars == s
Works == 1 .. MaxWorks
Task(t, w) == [t |-> t, w |-> w]
Post(c, t) == [c EXCEPT !.tasks = Append(@, Task(t, 0))]
Push(c, t) == [c EXCEPT !.tasks = <<Task(t, 0)>> \o @]

Init ==
    s = [state |-> "LOADED", client |-> "idle", stuck |-> FALSE, tasks |-> <<>>,
         convq |-> <<>>, workq |-> <<>>, converter |-> FALSE, format |-> FALSE,
         blocks |-> {}, pool |-> FALSE,
         next |-> 1, work |-> [w \in Works |-> "none"], eos |-> {}, held |-> {},
         out |-> {}, done |-> {}, finished |-> <<>>, given |-> [w \in Works |-> 0], lost |-> {},
         enc |-> "UNINITIALIZED", reqs |-> <<>>, streaming |-> FALSE, stop |-> "no",
         input |-> <<>>, eaten |-> 0, coded |-> <<>>]

----------------------------------------------------------------------------
(* What both objects do with works and errors.                             *)

\* The works ws leave with what the component knew of them: onWorkDone_nb() or
\* flush_sm() hands them to the client.
GiveBack(c, ws) ==
    [c EXCEPT !.given = [w \in Works |-> @[w] + Cardinality({i \in DOMAIN ws : ws[i] = w})],
              !.work = [w \in Works |-> IF w \in Range(ws) THEN "none" ELSE @[w]],
              !.eos = @ \ Range(ws), !.held = @ \ Range(ws),
              !.out = @ \ Range(ws), !.done = @ \ Range(ws)]
Finish(c, ws) == [GiveBack(c, ws) EXCEPT !.finished = @ \o ws]
Lose(c, w) == IF c.stuck THEN c ELSE [c EXCEPT !.lost = @ \cup {w}]

\* reportError(): start() and stop() hold mComponentLock while they wait.
ReportError(c) ==
    IF c.client \in {"start", "stop", "release"} THEN [c EXCEPT !.stuck = TRUE]
                                                  ELSE [c EXCEPT !.state = "ERROR"]

FailWork(c, w) == IF c.stuck THEN c ELSE GiveBack(c, <<w>>)

\* V4L2Encoder::onError().
OnError(c) == IF c.enc = "ERROR" THEN c ELSE ReportError([c EXCEPT !.enc = "ERROR"])

HasFrame(c, w) == c.work[w] \in {"frame", "last"}

IsWorkDone(c, w) ==
    /\ w \in c.eos => w \in c.done
    /\ w \notin c.held
    /\ HasFrame(c, w) => w \in c.out

\* Report the finished works at the front of mWorkQueue.
ReportFront(c) ==
    LET front == {i \in DOMAIN c.workq : \A j \in 1 .. i : IsWorkDone(c, c.workq[j])}
        n == Cardinality(front)
    IN  IF c.stuck THEN c
        ELSE Finish([c EXCEPT !.workq = SubSeq(@, n + 1, Len(@))], SubSeq(c.workq, 1, n))

\* EncodeComponent::onDrainDone(): the first EOS work not yet marked.
MarkDrained(c) ==
    LET open == SelectSeq(c.workq, LAMBDA w : w \in c.eos /\ w \notin c.done)
        marked == [c EXCEPT !.done = @ \cup {Head(open)}]
    IN  CASE open = <<>> -> c
          [] Head(open) = Head(c.workq) /\ IsWorkDone(marked, Head(open)) ->
               Finish([marked EXCEPT !.workq = Tail(@)], <<Head(open)>>)
          [] OTHER -> marked

\* V4L2Encoder::onDrainDone().
OnDrainDone(c, ok) ==
    CASE c.enc = "ERROR" -> c
      [] c.enc # "ERROR" /\ ~ok -> OnError(ReportError(c))
      [] OTHER -> LET d == MarkDrained(c) IN
                  IF d.reqs # <<>> THEN Post([d EXCEPT !.enc = "ENCODING"], "handle")
                                   ELSE [d EXCEPT !.enc = "WAITING_FOR_INPUT_FRAME"]

HandleDrainRequest(c, f) ==
    LET d == [c EXCEPT !.enc = "DRAINING"] IN
    CASE c.enc \in {"DRAINING", "ERROR"} -> c
      [] ~c.streaming -> OnDrainDone(d, TRUE)
      [] f = "command" -> OnDrainDone(d, FALSE)
      [] OTHER -> [d EXCEPT !.stop = "sent"]

\* V4L2Encoder::drain().
EncoderDrain(c, f) ==
    IF c.reqs # <<>> THEN [c EXCEPT !.reqs[Len(c.reqs)].eos = TRUE]
                     ELSE HandleDrainRequest(c, f)

----------------------------------------------------------------------------
(* Tasks of the component.                                                 *)

\* EncodeComponent::encode() and V4L2Encoder::encode(), once it is accepted.
Encode(c, w) ==
    LET d == [c EXCEPT !.format = TRUE, !.reqs = Append(@, [w |-> w, eos |-> FALSE])] IN
    IF c.enc = "WAITING_FOR_INPUT_FRAME" THEN Post([d EXCEPT !.enc = "ENCODING"], "handle") ELSE d

\* FormatConverter: create() allocates a block per input buffer, convertBlock()
\* takes a free one for the frame unless it fails, returnBlock() gives it back.
\* `blocks` are the frames that have one.
CreateConverter(c) == [c EXCEPT !.converter = TRUE, !.blocks = {}]
Ready(c) == ~c.converter \/ Cardinality(c.blocks) < INPUTS
ConvertBlock(c, w) == [c EXCEPT !.blocks = @ \cup {w}]
ReturnBlock(c, w) == [c EXCEPT !.blocks = @ \ {w}]

\* The part of queueTask() once a converter block, if one is needed, is free.
Accept(c, w, f) ==
    LET frame == HasFrame(c, w)
        conv == IF c.converter THEN ConvertBlock(c, w) ELSE c
        back(d) == FailWork(ReturnBlock(d, w), w)
        queued(d) == [d EXCEPT !.workq = Append(@, w)]
        drained(d) == IF w \in d.eos THEN EncoderDrain(d, f) ELSE d
    IN  CASE ~frame -> drained(queued(c))
          [] frame /\ c.converter /\ f = "convert" -> FailWork(ReportError(c), w)
          [] frame /\ f = "encode" -> back(ReportError(conv))
          [] OTHER -> IF c.enc = "ERROR" THEN back(conv) ELSE drained(queued(Encode(conv, w)))

\* queueTask().  f = "convertible" is a format that the device does not take.
QueueTask(c0, w, f) ==
    LET frame == HasFrame(c0, w)
        c == [c0 EXCEPT !.pool = TRUE]
        d == IF frame /\ ~c.format /\ f = "convertible" THEN CreateConverter(c) ELSE c
    IN  CASE c0.state = "ERROR" -> FailWork(c0, w)
          [] c0.state # "ERROR" /\ c0.work[w] = "empty" -> GiveBack(c0, <<w>>)
          [] c0.state # "ERROR" /\ ~c0.pool /\ f = "pool" -> Lose(ReportError(c0), w)
          [] c0.state # "ERROR" /\ frame /\ ~c.format /\ f = "layout" -> Lose(ReportError(c), w)
          [] OTHER -> IF Ready(d) THEN Accept(d, w, f) ELSE [d EXCEPT !.convq = Append(@, w)]

\* drainTask(): the last work still here becomes the end of the stream.
DrainTask(c, f) ==
    CASE c.convq # <<>> -> [c EXCEPT !.eos = @ \cup {Last(c.convq)}]
      [] c.convq = <<>> /\ c.workq # <<>> ->
           EncoderDrain([c EXCEPT !.eos = @ \cup {Last(c.workq)}], f)
      [] OTHER -> c

\* V4L2Encoder::handleFlushRequest().
EncoderFlush(c, f) ==
    LET d == IF f = "poll" THEN OnError(c) ELSE c IN
    [d EXCEPT !.streaming = FALSE, !.stop = "no", !.input = <<>>, !.eaten = 0, !.coded = <<>>,
              !.reqs = <<>>,
              !.enc = IF @ = "ERROR" THEN @ ELSE "WAITING_FOR_INPUT_FRAME"]

\* EncodeComponent::flush().  A converter block is given back only for a work
\* without input buffers, which holds none.
Flush(c, f) ==
    LET d == EncoderFlush(c, f) IN
    IF d.stuck THEN d ELSE GiveBack([d EXCEPT !.convq = <<>>, !.workq = <<>>], d.convq \o d.workq)

\* flushTask(): what waits for the converter goes back through flush_sm().
FlushTask(c, f) ==
    Flush(GiveBack([c EXCEPT !.client = "idle", !.convq = <<>>], c.convq), f)

\* stopTask(), then stop() ends the thread: what it still had posted is void.
StopTask(c, f) ==
    LET d == Flush(c, f) IN
    IF d.stuck THEN d
    ELSE [d EXCEPT !.converter = FALSE, !.format = FALSE, !.blocks = {}, !.pool = FALSE,
                   !.enc = "UNINITIALIZED", !.tasks = <<>>, !.client = "idle",
                   !.state = IF c.client = "release" THEN "UNLOADED" ELSE "LOADED"]

\* startTask() with initializeEncoder(), and the rest of start().
StartTask(c, f) ==
    CASE f = "stride" -> ReportError(c)
      [] f = "create" -> [c EXCEPT !.client = "gone"]
      [] OTHER -> [c EXCEPT !.client = "idle", !.state = "RUNNING",
                            !.enc = "WAITING_FOR_INPUT_FRAME"]

----------------------------------------------------------------------------
(* Tasks of the encoder.                                                   *)

HandleEncodeRequest(c, f) ==
    LET r == Head(c.reqs)
        d == [c EXCEPT !.input = Append(@, r.w), !.reqs = Tail(@), !.streaming = TRUE]
    IN  CASE c.enc = "ERROR" \/ c.reqs = <<>> -> c
          [] c.enc # "ERROR" /\ c.reqs # <<>> /\ Len(c.input) = INPUTS ->
               [c EXCEPT !.enc = "WAITING_FOR_V4L2_BUFFER"]
          [] OTHER ->
               CASE f = "device" -> OnError(c)
                 [] f # "device" /\ r.eos -> HandleDrainRequest(d, f)
                 [] f # "device" /\ ~r.eos /\ d.reqs = <<>> ->
                      [d EXCEPT !.enc = "WAITING_FOR_INPUT_FRAME"]
                 [] OTHER -> Post(d, "handle")

\* onInputBufferDone(): the work gives its input and its converter block back.
\* The works that waited for the block are queued by the steps of Requeue.
InputBufferDone(c, w) ==
    LET released == [c EXCEPT !.held = @ \ {w}] IN
    CASE w \notin Range(c.workq) -> ReportError(c)
      [] w \in Range(c.workq) /\ c.converter /\ w \notin c.blocks -> ReportError(released)
      [] OTHER -> Push(ReturnBlock(released, w), "requeue")

\* The rest of dequeueInputBuffer().
InputDequeued(c) ==
    IF c.enc = "WAITING_FOR_V4L2_BUFFER" /\ c.reqs # <<>>
    THEN Post([c EXCEPT !.enc = "ENCODING"], "handle") ELSE c

\* The loops of onInputBufferDone(), one work at a time.
Requeue(c, f) ==
    IF c.converter /\ c.convq # <<>> /\ Ready(c)
    THEN QueueTask(Push([c EXCEPT !.convq = Tail(@)], "requeue"), Head(c.convq), f)
    ELSE InputDequeued(ReportFront(c))

\* onOutputBufferDone(): a work marked as the end of the stream is not found,
\* which goes unnoticed at timestamp 0, here the one of the first work.
OutputBufferDone(c, w, f) ==
    CASE f = "csd" -> ReportError(c)
      [] f # "csd" /\ (w \notin Range(c.workq) \/ w \in c.eos) ->
           IF w = 1 THEN c ELSE ReportError(c)
      [] OTHER -> ReportFront([c EXCEPT !.out = @ \cup {w}])

\* dequeueOutputBuffer().
DequeueOutputBuffer(c, f) ==
    LET b == Head(c.coded)
        d == IF b.w = 0 THEN [c EXCEPT !.coded = Tail(@)]
                        ELSE OutputBufferDone([c EXCEPT !.coded = Tail(@)], b.w, f)
        e == [OnDrainDone(d, TRUE) EXCEPT !.stop = "no"]
    IN  IF d.enc = "DRAINING" /\ b.last
        THEN IF f = "command" THEN OnError(e) ELSE e
        ELSE d

\* serviceDeviceTask(), one buffer at a time: inputs, then outputs.
ServiceInputs(c, f) ==
    LET taken == [Push(c, "service") EXCEPT !.input = Tail(@), !.eaten = @ - 1]
        d == InputBufferDone(taken, Head(c.input))
    IN  CASE c.enc = "ERROR" -> c
          [] c.enc # "ERROR" /\ f = "device" -> OnError(c)
          [] c.enc # "ERROR" /\ f # "device" /\ c.eaten > 0 ->
               IF Head(d.tasks).t = "requeue" THEN d ELSE InputDequeued(d)
          [] OTHER -> Push(c, "outputs")

ServiceOutputs(c, f) ==
    CASE c.enc = "ERROR" \/ c.coded = <<>> -> c
      [] c.enc # "ERROR" /\ c.coded # <<>> /\ f = "device" -> OnError(c)
      [] OTHER -> DequeueOutputBuffer(Push(c, "outputs"), f)

Faults(t) ==
    CASE t \in {"queue", "requeue"} ->
           {"none", "convertible", "pool", "layout", "convert", "encode", "command"}
      [] t = "drain"   -> {"none", "command"}
      [] t \in {"flush", "stop"} -> {"none", "poll"}
      [] t = "start"   -> {"none", "stride", "create"}
      [] t = "handle"  -> {"none", "device", "command"}
      [] t = "service" -> {"none", "device"}
      [] t = "outputs" -> {"none", "device", "csd", "command"}

\* The encoder thread runs the task at the head of its queue.
RunTask ==
    /\ s.tasks # <<>> /\ ~s.stuck
    /\ LET k == Head(s.tasks)
           c == [s EXCEPT !.tasks = Tail(@)]
       IN  \E f \in Faults(k.t) :
           s' = CASE k.t = "queue" -> QueueTask(c, k.w, f)
                  [] k.t = "drain" -> DrainTask(c, f)
                  [] k.t = "flush" -> FlushTask(c, f)
                  [] k.t = "stop" -> StopTask(c, f)
                  [] k.t = "start" -> StartTask(c, f)
                  [] k.t = "handle" -> HandleEncodeRequest(c, f)
                  [] k.t = "service" -> ServiceInputs(c, f)
                  [] k.t = "outputs" -> ServiceOutputs(c, f)
                  [] k.t = "requeue" -> Requeue(c, f)

----------------------------------------------------------------------------
(* The client thread, the poll thread and the driver.                      *)

Start == /\ s.client = "idle" /\ s.state = "LOADED" /\ s.next <= MaxWorks
         /\ s' = Post([s EXCEPT !.client = "start"], "start")

\* queue_nb() with a frame, an end of stream, both, or an empty request.
Queue(kind) ==
    /\ s.client = "idle" /\ s.state = "RUNNING" /\ s.next <= MaxWorks
    /\ s' = [s EXCEPT !.next = @ + 1, !.work[s.next] = kind,
                      !.eos = IF kind \in {"eos", "last"} THEN @ \cup {s.next} ELSE @,
                      !.held = IF kind \in {"frame", "last"} THEN @ \cup {s.next} ELSE @,
                      !.tasks = Append(@, Task("queue", s.next))]

Drain == /\ s.client = "idle" /\ s.state = "RUNNING" /\ "drain" \notin {s.tasks[i].t : i \in DOMAIN s.tasks}
         /\ s.workq # <<>> \/ s.convq # <<>> \/ s.tasks # <<>>
         /\ s' = Post(s, "drain")

FlushSm == /\ s.client = "idle" /\ s.state = "RUNNING"
           /\ s.workq # <<>> \/ s.convq # <<>> \/ s.tasks # <<>>
           /\ s' = Post([s EXCEPT !.client = "flush"], "flush")

\* stop() and reset(), or release().
Stop(as) ==
    /\ s.client = "idle"
    /\ \/ /\ s.state \in {"RUNNING", "ERROR"}
          /\ s' = Post([s EXCEPT !.client = as], "stop")
       \/ /\ s.state = "LOADED" /\ as = "release"
          /\ s' = [s EXCEPT !.state = "UNLOADED"]

\* devicePollTask(): something can be dequeued.  One task stands for several.
Poll ==
    /\ s.streaming /\ ~s.stuck
    /\ s.eaten > 0 \/ s.coded # <<>>
    /\ {"service", "outputs"} \cap {s.tasks[i].t : i \in DOMAIN s.tasks} = {}
    /\ s' = Post(s, "service")

\* The driver encodes the oldest frame; with STOP the last one may carry the flag.
DeviceEncodes(last) ==
    /\ s.streaming /\ s.eaten < Len(s.input) /\ Len(s.coded) < OUTPUTS
    /\ last => s.stop = "sent" /\ s.eaten + 1 = Len(s.input)
    /\ s' = [s EXCEPT !.eaten = @ + 1, !.stop = IF last THEN "last" ELSE @,
                      !.coded = Append(@, [w |-> s.input[s.eaten + 1], last |-> last])]

\* STOP with nothing left: an empty buffer carries the flag.
DeviceDrains ==
    /\ s.stop = "sent" /\ s.eaten = Len(s.input) /\ Len(s.coded) < OUTPUTS
    /\ s' = [s EXCEPT !.stop = "last", !.coded = Append(@, [w |-> 0, last |-> TRUE])]

Device == Poll \/ DeviceDrains \/ \E last \in BOOLEAN : DeviceEncodes(last)
Client == Start \/ Drain \/ FlushSm \/ (\E kind \in {"frame", "last", "eos", "empty"} : Queue(kind))
          \/ \E as \in {"stop", "release"} : Stop(as)

Next == RunTask \/ Device \/ Client
Spec == Init /\ [][Next]_vars /\ WF_vars(RunTask) /\ WF_vars(Device)

----------------------------------------------------------------------------

\* Places where work w is.
Copies(w) ==
    Cardinality({i \in DOMAIN s.tasks : s.tasks[i] = Task("queue", w)})
    + Cardinality({i \in DOMAIN s.convq : s.convq[i] = w})
    + Cardinality({i \in DOMAIN s.workq : s.workq[i] = w})
    + s.given[w]
    + (IF w \in s.lost THEN 1 ELSE 0)

\* A work that queue_nb() accepted is in exactly one place: posted, waiting for
\* the converter, at the encoder, returned to the client, or dropped by one of
\* the failures that destroy it; a converter block belongs to an accepted frame.
EncodeAccounted ==
    /\ s.stuck \/ \A w \in Works : Copies(w) = IF w < s.next THEN 1 ELSE 0
    /\ \A w \in s.blocks : w < s.next
    /\ Cardinality(s.blocks) <= INPUTS

\* Frames and ends of stream that succeed come back in the order in which they
\* were queued, and no end of stream before every work queued ahead of it.
EncodeInOrder ==
    \A i, j \in DOMAIN s.finished : i < j => s.finished[i] < s.finished[j]

\* A drain that the encoder has accepted and not yet ended.
Draining == s.enc = "DRAINING" \/ \E i \in DOMAIN s.reqs : s.reqs[i].eos

\* When the thread and the device have nothing left to do, no drain is open,
\* and the oldest work at a healthy encoder can only be an end of stream: one
\* asked for during another drain, or a frame at timestamp 0 marked as one.
\* No frame waits for an event that has already happened.
EncodeSettles ==
    (/\ s.tasks = <<>> /\ s.state = "RUNNING" /\ s.enc # "ERROR"
     /\ s.input = <<>> /\ s.coded = <<>> /\ s.stop # "sent")
    => /\ ~Draining
       /\ s.workq # <<>> => Head(s.workq) \in s.eos

\* "return queued work after a fatal encoder failure": no failure in
\* queueTask() destroys the work it was given.
QueuedWorkReturned == s.lost = {}

\* "return queued work after a fatal encoder failure": stop(), which returns
\* the works of a failed component, comes back.
StopReturns == s.client = "stop" ~> s.client # "stop"
=============================================================================
