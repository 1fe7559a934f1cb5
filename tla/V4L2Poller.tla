----------------------------- MODULE V4L2Poller -----------------------------
(***************************************************************************)
(* The device poller (codec2/v4l2/V4L2DevicePoller.cpp with poll and the   *)
(* interrupt descriptor of V4L2Device.cpp): the client asks for a poll of  *)
(* the buffers each time it leaves some with the driver; the poll thread   *)
(* takes the request, waits, and posts one callback.                       *)
(***************************************************************************)
EXTENDS Integers

CONSTANTS MaxQueued,  \* buffers with the driver
          MaxPosted   \* callbacks waiting for the client

VARIABLE s

\* want: mPollBuffers; stop: mStopPolling; intr: the event descriptor is readable;
\* on: the thread runs; at: its place; look: this poll includes the buffers, with
\* event and ready what it found; queued and done: buffers with the driver and
\* finished; events: device events not yet taken; client: whether stopPolling
\* waits for the thread.
Init == s = [want |-> FALSE, stop |-> FALSE, intr |-> FALSE, on |-> FALSE, at |-> "none", look |-> FALSE,
             event |-> FALSE, ready |-> FALSE, queued |-> 0, done |-> 0, events |-> FALSE, posted |-> 0,
             client |-> "free", failed |-> FALSE]

Schedule(t) == IF ~t.on \/ t.want THEN t ELSE [t EXCEPT !.want = TRUE, !.intr = TRUE]

StartPolling ==
  /\ s.client = "free" /\ ~s.on
  /\ s' = Schedule([s EXCEPT !.on = TRUE, !.at = "top", !.want = FALSE, !.stop = FALSE])

StopPolling ==
  /\ s.client = "free" /\ s.on
  /\ s' = [s EXCEPT !.stop = TRUE, !.intr = TRUE, !.client = "joining"]

\* mPollThread.Stop has joined the thread; the interrupt is cleared.
Joined ==
  /\ s.client = "joining" /\ s.at = "none"
  /\ s' = [s EXCEPT !.on = FALSE, !.intr = FALSE, !.client = "free", !.failed = FALSE]

\* V4L2Queue::queueBuffer.
QueueBuffer ==
  /\ s.client = "free" /\ s.queued < MaxQueued
  /\ s' = Schedule([s EXCEPT !.queued = @ + 1])

\* The event callback of the coder takes the events and dequeues until the
\* driver has no more; what is left with the driver is polled for again.
Service ==
  LET t == [s EXCEPT !.posted = @ - 1, !.events = FALSE, !.queued = @ - s.done, !.done = 0]
  IN /\ s.client = "free" /\ s.posted > 0
     /\ s' = IF t.queued > 0 THEN Schedule(t) ELSE t

-----------------------------------------------------------------------------
\* devicePollTask, step by step.

PollTop == /\ s.at = "top" /\ s' = [s EXCEPT !.at = IF s.stop THEN "none" ELSE "swap"]

PollSwap == /\ s.at = "swap" /\ s' = [s EXCEPT !.look = s.want, !.want = FALSE, !.at = "poll"]

\* poll returns for the interrupt, an event, finished buffers, or because the
\* driver has no buffer at all; or fails.
PollReturns(fails) ==
  LET ready == s.look /\ s.done > 0
  IN /\ s.at = "poll" /\ (s.intr \/ s.events \/ ready \/ (s.look /\ s.queued = 0) \/ fails)
     /\ s' = IF fails THEN [s EXCEPT !.at = "none", !.failed = TRUE]
             ELSE [s EXCEPT !.at = "rearm", !.event = s.events, !.ready = ready]

\* Mutant of PollRearm: an interrupted poll of the buffers is forgotten.
PollRearmForgets == /\ s.at = "rearm" /\ s' = [s EXCEPT !.at = "clear"]

\* A poll of the buffers that found none is asked for again.
PollRearm ==
  /\ s.at = "rearm"
  /\ s' = [s EXCEPT !.want = @ \/ (s.look /\ ~s.ready), !.at = "clear"]

PollClear ==
  /\ s.at = "clear"
  /\ s' = [s EXCEPT !.intr = FALSE, !.at = IF s.ready \/ s.event THEN "post" ELSE "top"]

PollPost ==
  /\ s.at = "post" /\ s.posted < MaxPosted
  /\ s' = [s EXCEPT !.posted = @ + 1, !.at = "top"]

\* External: the driver finishes a buffer, or raises an event.
DriverDone == /\ s.done < s.queued /\ s' = [s EXCEPT !.done = @ + 1]
DriverEvent == /\ ~s.events /\ s' = [s EXCEPT !.events = TRUE]

Thread == PollTop \/ PollSwap \/ PollReturns(FALSE) \/ PollRearm \/ PollClear \/ PollPost

Next ==
  \/ StartPolling \/ StopPolling \/ Joined \/ QueueBuffer \/ Service
  \/ Thread \/ PollReturns(TRUE) \/ DriverDone \/ DriverEvent

-----------------------------------------------------------------------------
\* No wake-up is lost between schedulePoll and the poll thread: while buffers are
\* with the driver and no callback is on its way, a thread waiting in poll watches
\* the buffers or is about to be interrupted, and a thread anywhere else still
\* has the request before it; a thread asked to stop is never left waiting.
NoWakeupLost ==
  /\ s.on /\ s.queued > 0 /\ s.posted = 0 /\ s.at # "none" =>
       CASE s.at = "poll" -> s.look \/ s.intr
         [] s.at = "rearm" -> s.look \/ s.want
         [] s.at \in {"top", "swap"} -> s.want
         [] s.at = "clear" -> s.want \/ s.ready
         [] OTHER -> TRUE
  /\ s.client = "joining" /\ s.at = "poll" => s.intr
=============================================================================
