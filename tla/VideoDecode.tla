---------------------------- MODULE VideoDecode ----------------------------
(***************************************************************************)
(* The hardware video decoder of codec2/: DecodeComponent, which owns the  *)
(* works of the client, over V4L2Decoder, which owns the device queues.    *)
(* Both run as tasks of one decoder thread.  The record s holds both; each *)
(* task is an operator on it, and a failure of the platform is its         *)
(* parameter f.  The supply of output frames is left out.                 *)
(* The driver is external: it asks for output buffers when it meets a key  *)
(* frame or codec config, and then decodes in order.                       *)
(***************************************************************************)
EXTENDS Naturals, Sequences, SequencesExt, FiniteSets, FiniteSetsExt

CONSTANTS MaxWorks,   \* works the client queues
          MaxAsks,    \* calls of drain_nb() and flush_sm()
          INPUTS      \* kNumInputBuffers

VARIABLE s

vars == s
Works == 1 .. MaxWorks
Codecs == {"h264", "vp9"}
\* "last" is a key frame with the end of the stream, "void" an empty codec
\* config, "bad" a work with neither input nor flag, "odd" one of a wrong shape.
Kinds == {"key", "delta", "csd", "eos", "last", "void", "bad", "odd"}
KeyFrames == {"key", "last"}
Task(t, w) == [t |-> t, w |-> w]
Post(c, t, w) == [c EXCEPT !.tasks = Append(@, Task(t, w))]
Push(c, t, w) == [c EXCEPT !.tasks = <<Task(t, w)>> \o @]

Init ==
    \E codec \in Codecs :
    s = [codec |-> codec, state |-> "STOPPED", client |-> "idle", tasks |-> <<>>,
         pending |-> <<>>, at |-> {}, ids |-> <<>>, draining |-> FALSE,
         next |-> 1, asked |-> 0, work |-> [w \in Works |-> "none"], eos |-> {}, held |-> {},
         out |-> {}, dropped |-> {}, given |-> [w \in Works |-> 0], ended |-> 0, lost |-> {},
         dec |-> "Idle", reqs |-> <<>>, cbs |-> {}, drainCb |-> FALSE,
         initialEos |-> TRUE, pendingDRC |-> FALSE,
         input |-> <<>>, eaten |-> 0, coded |-> <<>>, event |-> FALSE, stop |-> FALSE,
         astray |-> FALSE]

----------------------------------------------------------------------------
(* The component's works.                                                  *)

\* The works ws leave with what the component knew of them.
GiveBack(c, ws) ==
    [c EXCEPT !.given = [w \in Works |-> @[w] + (IF w \in ws THEN 1 ELSE 0)],
              !.work = [w \in Works |-> IF w \in ws THEN "none" ELSE @[w]],
              !.at = @ \ ws, !.eos = @ \ ws, !.held = @ \ ws,
              !.out = @ \ ws, !.dropped = @ \ ws]

\* reportAbandonedWorks().
\* Mutant of ReportAbandonedWorks: the pending works stay in their queue.
ReportAbandonedKeeps(c) == GiveBack(c, Range(c.pending) \cup c.at)

ReportAbandonedWorks(c) == GiveBack([c EXCEPT !.pending = <<>>], Range(c.pending) \cup c.at)

ReportError(c) == [c EXCEPT !.state = "ERROR"]
OnError(c) == ReportError([c EXCEPT !.dec = "Error"])

IsWorkDone(c, w) ==
    /\ w \notin c.eos /\ w \notin c.held
    /\ w \in c.out \/ c.work[w] \in {"csd", "void"} \/ w \in c.dropped

\* pumpReportWork(): from the front of mOutputBitstreamIds, as long as
\* reportWorkIfFinished() succeeds.
PumpReportWork(c) ==
    LET left(j) == c.at \ {c.ids[k] : k \in 1 .. j - 1}
        ok(j) == /\ ~(c.draining /\ Cardinality(left(j)) = 1)
                 /\ c.ids[j] \in left(j) => IsWorkDone(c, c.ids[j])
        n == Cardinality({i \in DOMAIN c.ids : \A j \in 1 .. i : ok(j)})
    IN  GiveBack([c EXCEPT !.ids = SubSeq(@, n + 1, Len(@))],
                 c.at \cap {c.ids[k] : k \in 1 .. n})

\* reportWorkIfFinished() for one work.
ReportWorkIfFinished(c, w) ==
    IF IsWorkDone(c, w) /\ ~(c.draining /\ Cardinality(c.at) = 1) THEN GiveBack(c, {w}) ELSE c

\* onDecodeDone() for the works ws, in this order.  A work that is not there is
\* read all the same; unless the status is an error, nothing is known after it.
OnDecodeDone(c, ws, status) ==
    LET d == [c EXCEPT !.astray = @ \/ ~(Range(ws) \subseteq c.at)]
        released == [d EXCEPT !.held = @ \ Range(ws)]
        reported(w) == status = "aborted" \/ c.work[w] = "csd"
    IN  IF status = "error" THEN ReportError(c)
        ELSE PumpReportWork([released EXCEPT !.ids = @ \o SelectSeq(ws, reported)])

\* onOutputFrameReady() with detectNoShowFrameWorksAndReportIfFinished().
OnOutputFrameReady(c, w) ==
    LET noShow == {v \in c.at : /\ c.codec = "vp9" /\ v < w
                                /\ v \notin c.out \cup c.eos \cup c.dropped
                                /\ c.work[v] \notin {"csd", "void"}}
        d == [c EXCEPT !.out = @ \cup {w}, !.dropped = @ \cup noShow]
        e == GiveBack(d, noShow \ d.held)
    IN  IF w \notin c.at THEN ReportError(c)
        ELSE PumpReportWork([e EXCEPT !.ids = Append(@, w)])

\* reportEOSWork(): the first work with the flag, after all that is left.
EosWork(c) == Min(c.at \cap c.eos)
ReportEOSWork(c) ==
    LET w == EosWork(c)
        rest == [c EXCEPT !.at = @ \ {w}]
        clear == IF rest.at = {} THEN rest ELSE ReportAbandonedWorks(rest)
    IN  [GiveBack(clear, {w}) EXCEPT !.ended = w]

\* Mutant of OnDrainDone: the works that waited for the drain are not pumped.
OnDrainDoneSilent(c, status) ==
    LET d == [c EXCEPT !.draining = FALSE] IN
    CASE status = "aborted" -> c
      [] status = "error" -> ReportError(c)
      [] status = "ok" -> IF c.at \cap c.eos = {} THEN ReportError(d) ELSE ReportEOSWork(d)

OnDrainDone(c, status) ==
    LET d == [c EXCEPT !.draining = FALSE] IN
    CASE status = "aborted" -> c
      [] status = "error" -> ReportError(c)
      [] status = "ok" -> IF c.at \cap c.eos = {} THEN ReportError(d)
                          ELSE Post(ReportEOSWork(d), "pump", 0)

----------------------------------------------------------------------------
(* The requests at the decoder.                                            *)

DrainFirst(c) == c.reqs # <<>> /\ Head(c.reqs) = 0

\* pumpDecodeRequest(): requests go to free input buffers; a drain waits until
\* the driver has given every input buffer back.
PumpDecodeRequest(c, f) ==
    LET drains == {i \in DOMAIN c.reqs : c.reqs[i] = 0}
        first == IF drains = {} THEN Len(c.reqs) + 1 ELSE Min(drains)
        n == Min({first - 1, INPUTS - Len(c.input)})
        d == [c EXCEPT !.input = @ \o SubSeq(c.reqs, 1, n), !.reqs = SubSeq(@, n + 1, Len(@)),
                       !.cbs = @ \cup {c.reqs[i] : i \in 1 .. n}]
        e == [d EXCEPT !.reqs = Tail(@)]
    IN  CASE c.dec # "Decoding" -> c
          [] c.dec = "Decoding" /\ n > 0 /\ f = "device" -> OnError(c)
          [] OTHER ->
               CASE ~DrainFirst(d) \/ d.input # <<>> -> d
                 [] OTHER ->
                      CASE c.initialEos /\ ~c.pendingDRC -> Post(e, "drained", 1)
                        [] ~(c.initialEos /\ ~c.pendingDRC) /\ f = "command" ->
                             OnError(OnDrainDone(e, "error"))
                        [] OTHER -> [e EXCEPT !.drainCb = TRUE, !.dec = "Draining", !.stop = TRUE]

\* V4L2Decoder::decode().
Decode(c, w, f) ==
    IF c.dec = "Error" THEN Post(c, "done", w)
    ELSE PumpDecodeRequest([c EXCEPT !.dec = IF @ = "Idle" THEN "Decoding" ELSE @,
                                     !.reqs = Append(@, w),
                                     !.pendingDRC = @ \/ (c.initialEos /\ c.work[w] \in KeyFrames)],
                           f)

\* V4L2Decoder::drain().
DecoderDrain(c, f) ==
    CASE c.dec = "Idle" -> Post(c, "drained", 1)
      [] c.dec = "Decoding" -> PumpDecodeRequest([c EXCEPT !.reqs = Append(@, 0)], f)
      [] OTHER -> Post(c, "drained", 0)

\* One turn of the loop of pumpPendingWorks().
Process(c, f) ==
    LET w == Head(c.pending)
        a == [c EXCEPT !.pending = Tail(@), !.at = @ \cup {w}]
        b == CASE c.work[w] \in {"eos", "void"} -> a
               [] c.work[w] = "csd" /\ c.codec = "vp9" -> ReportWorkIfFinished(a, w)
               [] c.work[w] = "csd" /\ c.codec # "vp9" /\ f = "aspects" -> ReportError(a)
               [] OTHER -> Decode(a, w, f)
        d == IF w \in c.eos THEN [DecoderDrain(b, f) EXCEPT !.draining = TRUE] ELSE b
    IN  IF c.work[w] = "void" THEN ReportWorkIfFinished(d, w) ELSE d

PumpPendingWorks(c) ==
    IF c.state = "RUNNING" THEN Push(c, "loop", 0) ELSE c

Loop(c, f) ==
    IF c.pending # <<>> /\ ~c.draining THEN Process(Push(c, "loop", 0), f) ELSE c

QueueTask(c, w) ==
    CASE c.work[w] = "odd" -> GiveBack(c, {w})
      [] c.work[w] = "bad" -> ReportError([c EXCEPT !.lost = @ \cup {w}, !.work[w] = "none"])
      [] OTHER -> PumpPendingWorks([c EXCEPT !.pending = Append(@, w)])

DrainTask(c, f) ==
    CASE c.pending # <<>> -> [c EXCEPT !.eos = @ \cup {Last(c.pending)}]
      [] c.pending = <<>> /\ c.at # {} -> [DecoderDrain(c, f) EXCEPT !.draining = TRUE]
      [] OTHER -> c

\* V4L2Decoder::flush(): every callback is aborted, and the queues restart.
DecoderFlush(c, f) ==
    LET works == SetToSortSeq(c.cbs, <) \o SelectSeq(c.reqs, LAMBDA r : r # 0)
        d == OnDecodeDone(c, works, "aborted")
        e == [d EXCEPT !.cbs = {}, !.drainCb = FALSE, !.reqs = <<>>, !.stop = FALSE,
                       !.input = <<>>, !.eaten = 0, !.coded = <<>>]
    IN  CASE c.dec \in {"Idle", "Error"} -> c
          [] c.dec \notin {"Idle", "Error"} /\ f = "poll" -> OnError(e)
          [] OTHER -> [e EXCEPT !.dec = "Idle"]

FlushTask(c, f) ==
    [ReportAbandonedWorks(DecoderFlush(c, f)) EXCEPT !.draining = FALSE]

\* releaseTask(): the works still here are destroyed, posted tasks are void.
ReleaseTask(c, to) ==
    [c EXCEPT !.lost = @ \cup Range(c.pending) \cup c.at \cup
                       {c.tasks[i].w : i \in {j \in DOMAIN c.tasks : c.tasks[j].t = "queue"}},
              !.pending = <<>>, !.at = {}, !.ids = <<>>, !.draining = FALSE, !.tasks = <<>>,
              !.dec = "Idle", !.reqs = <<>>, !.cbs = {}, !.drainCb = FALSE,
              !.initialEos = TRUE, !.pendingDRC = FALSE, !.input = <<>>, !.eaten = 0,
              !.coded = <<>>, !.event = FALSE, !.stop = FALSE, !.client = "idle", !.state = to]

StopTask(c) == ReleaseTask(ReportAbandonedWorks(c), "STOPPED")

StartTask(c, f) == [c EXCEPT !.client = "idle", !.state = IF f = "create" THEN @ ELSE "RUNNING"]

----------------------------------------------------------------------------
(* serviceDeviceTask(), one buffer at a time: the input buffers, then the   *)
(* output buffers, then the event.  w tells whether an input was dequeued.  *)

ServiceInputs(c, w, f) ==
    LET v == Head(c.input)
        d == [c EXCEPT !.input = Tail(@), !.eaten = @ - 1, !.cbs = @ \ {v}]
        e == IF v \in c.cbs THEN OnDecodeDone(d, <<v>>, "ok") ELSE d
    IN  CASE c.dec = "Error" -> c
          [] c.dec # "Error" /\ f = "device" -> OnError(c)
          [] OTHER -> IF c.eaten > 0 THEN Push(e, "service", 1) ELSE Push(c, "outputs", w)

\* An output buffer: w = 0 for one without a picture.
ServiceOutput(c, f) ==
    LET b == Head(c.coded)
        d == [c EXCEPT !.coded = Tail(@)]
        e == IF b.w = 0 THEN d ELSE OnOutputFrameReady(d, b.w)
    IN  CASE f = "detile" /\ b.w # 0 -> OnError(d)
          [] e.drainCb /\ b.last ->
               LET g == OnDrainDone([e EXCEPT !.drainCb = FALSE, !.stop = FALSE], "ok") IN
               [g EXCEPT !.dec = IF @ = "Error" THEN @ ELSE "Idle"]
          [] OTHER -> e

\* changeResolution(), for the first resolution of the stream.
ChangeResolution(c, f) ==
    LET d == [c EXCEPT !.event = FALSE, !.initialEos = FALSE] IN
    CASE ~c.event -> c
      [] c.event /\ f = "device" -> OnError(d)
      [] OTHER -> IF DrainFirst(c) THEN Post(d, "request", 0) ELSE d

ServiceOutputs(c, w, f) ==
    LET d == ChangeResolution(c, f) IN
    IF c.coded # <<>> /\ c.dec # "Error"
    THEN LET e == ServiceOutput(c, f) IN
         IF f = "detile" /\ e.dec = "Error" THEN e ELSE Push(e, "outputs", w)
    ELSE IF w = 1 /\ d.dec # "Error" THEN Post(d, "request", 0) ELSE d

Faults(t) ==
    CASE t = "loop"    -> {"none", "aspects", "device", "command"}
      [] t \in {"drain", "request"} -> {"none", "device", "command"}
      [] t = "flush"   -> {"none", "poll"}
      [] t = "start"   -> {"none", "create"}
      [] t = "service" -> {"none", "device"}
      [] t = "outputs" -> {"none", "detile", "device"}
      [] OTHER -> {"none"}

Run(c, k, f) ==
    CASE k.t = "start"   -> StartTask(c, f)
      [] k.t = "queue"   -> QueueTask(c, k.w)
      [] k.t = "pump"    -> PumpPendingWorks(c)
      [] k.t = "loop"    -> Loop(c, f)
      [] k.t = "drain"   -> DrainTask(c, f)
      [] k.t = "flush"   -> FlushTask(c, f)
      [] k.t = "stop"    -> StopTask(c)
      [] k.t = "release" -> ReleaseTask(c, "RELEASED")
      [] k.t = "done"    -> OnDecodeDone(c, <<k.w>>, "error")
      [] k.t = "drained" -> OnDrainDone(c, IF k.w = 1 THEN "ok" ELSE "error")
      [] k.t = "request" -> PumpDecodeRequest(c, f)
      [] k.t = "service" -> ServiceInputs(c, k.w, f)
      [] k.t = "outputs" -> ServiceOutputs(c, k.w, f)

\* The decoder thread runs the task at the head of its queue.
RunTask ==
    /\ s.tasks # <<>> /\ ~s.astray
    /\ \E f \in Faults(Head(s.tasks).t) :
         s' = Run([s EXCEPT !.tasks = Tail(@)], Head(s.tasks), f)

----------------------------------------------------------------------------
(* The client thread, the poll thread and the driver.                      *)

Posted(t) == \E i \in DOMAIN s.tasks : s.tasks[i].t = t

Start == /\ s.client = "idle" /\ s.state = "STOPPED" /\ s.next <= MaxWorks
         /\ s' = Post([s EXCEPT !.client = "wait"], "start", 0)

Queue(kind) ==
    /\ s.client = "idle" /\ s.state = "RUNNING" /\ s.next <= MaxWorks
    /\ s' = [s EXCEPT !.next = @ + 1, !.work[s.next] = kind,
                      !.eos = IF kind \in {"eos", "last"} THEN @ \cup {s.next} ELSE @,
                      !.held = IF kind \in {"key", "delta", "csd", "last"} THEN @ \cup {s.next} ELSE @,
                      !.tasks = Append(@, Task("queue", s.next))]

\* drain_nb() and flush_sm(), while they have something to act on.
Ask(t) ==
    /\ s.client = "idle" /\ s.state = "RUNNING" /\ s.asked < MaxAsks
    /\ s.tasks # <<>> \/ s.pending # <<>> \/ s.at # {}
    /\ s' = Post([s EXCEPT !.asked = @ + 1], t, 0)

\* stop(), reset() and release() end the thread once their task has run.
Stop == /\ s.client = "idle" /\ s.state \in {"RUNNING", "ERROR"}
        /\ s' = Post([s EXCEPT !.client = "wait"], "stop", 0)
Release == /\ s.client = "idle" /\ s.state # "RELEASED"
           /\ s' = Post([s EXCEPT !.client = "wait"], "release", 0)

\* devicePollTask().  One posted task stands for several.
Poll == /\ s.eaten > 0 \/ s.coded # <<>> \/ s.event
        /\ s.state \in {"RUNNING", "ERROR"} /\ s.dec # "Error"
        /\ ~Posted("service") /\ ~Posted("outputs")
        /\ s' = Post(s, "service", 0)

Unread == s.eaten < Len(s.input)
Unset == s.initialEos

\* The driver meets the first key frame: it needs output buffers.
DeviceAsks ==
    /\ Unread /\ Unset /\ ~s.event
    /\ s.work[s.input[s.eaten + 1]] \in KeyFrames \cup {"csd"}
    /\ s' = [s EXCEPT !.event = TRUE]

\* The driver reads an input buffer; a frame gives a picture or none.
DeviceReads(shown) ==
    LET w == s.input[s.eaten + 1] IN
    /\ Unread
    /\ Unset => s.work[w] \notin KeyFrames
    /\ shown => ~Unset /\ s.work[w] # "csd"
    /\ s' = [s EXCEPT !.eaten = @ + 1,
                      !.coded = IF shown THEN Append(@, [w |-> w, last |-> FALSE]) ELSE @]

\* After STOP the last buffer carries the flag, or an empty one does.
DeviceDrains ==
    /\ s.stop /\ ~Unread /\ ~Unset
    /\ s' = [s EXCEPT !.stop = FALSE,
                      !.coded = IF @ = <<>> THEN <<[w |-> 0, last |-> TRUE]>>
                                ELSE [@ EXCEPT ![Len(@)].last = TRUE]]

Device == Poll \/ DeviceAsks \/ DeviceDrains \/ \E shown \in BOOLEAN : DeviceReads(shown)
Client == Start \/ Stop \/ Release \/ (\E t \in {"drain", "flush"} : Ask(t))
          \/ \E kind \in Kinds : Queue(kind)

Next == RunTask \/ Device \/ Client
Spec == Init /\ [][Next]_vars

----------------------------------------------------------------------------

Copies(w) ==
    Cardinality({i \in DOMAIN s.tasks : s.tasks[i] = Task("queue", w)})
    + Cardinality({i \in DOMAIN s.pending : s.pending[i] = w})
    + (IF w \in s.at THEN 1 ELSE 0) + s.given[w] + (IF w \in s.lost THEN 1 ELSE 0)

\* A work that queue_nb() accepted is in exactly one place: posted, pending, at
\* the decoder, returned to the client, or destroyed by release() or for
\* carrying nothing.
DecodeAccounted == \A w \in Works : Copies(w) = IF w < s.next THEN 1 ELSE 0

\* An end of stream is returned as such only when every work queued before it
\* has been returned.
DecodeInOrder ==
    \A v \in 1 .. s.ended : s.given[v] = 1 \/ v \in s.lost

\* When the thread and the device have nothing left to do, a healthy decoder
\* has no open drain and no pending work, and what it still holds got no
\* picture from the driver.
DecodeSettles ==
    (/\ s.tasks = <<>> /\ ~s.astray /\ s.state = "RUNNING" /\ s.input = <<>> /\ s.coded = <<>>
     /\ ~s.event /\ ~s.stop)
    => /\ ~s.draining /\ ~s.drainCb /\ s.pending = <<>>
       /\ s.at \cap s.out = {} /\ s.at \cap s.eos = {}

\* ALOG_ASSERT(it != mWorksAtDecoder.end()): the work of a callback is still
\* at the decoder when onDecodeDone() runs.
DecodeDoneFindsWork == ~s.astray
=============================================================================
