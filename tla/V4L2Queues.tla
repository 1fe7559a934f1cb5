----------------------------- MODULE V4L2Queues -----------------------------
(***************************************************************************)
(* A buffer queue of the video device (codec2/v4l2/V4L2Device.cpp): the    *)
(* buffers of one allocation move between the list of free ones, the       *)
(* references clients hold, and the driver.  References survive the        *)
(* allocation they come from and are returned to its own list.             *)
(***************************************************************************)
EXTENDS Integers, FiniteSets

CONSTANTS Count,       \* buffers of one allocation
          MaxAllocs    \* allocations made

VARIABLE s

\* gen: the allocation; size: mBuffers; free: mFreeBuffers, or <<>> if there is
\* no list; queued: mQueuedBuffers; refs: <<gen, id, kind>>; done and kept, what
\* the driver has finished and still works on.
Init == s = [gen |-> 0, size |-> 0, list |-> FALSE, free |-> {}, queued |-> {}, streaming |-> FALSE,
             refs |-> {}, kept |-> {}, done |-> {}]

\* deallocateBuffers, with weak pointers to the queue invalidated; the driver's
\* refusal comes after.
Drop(t) ==
  IF t.size = 0 THEN t
  ELSE [t EXCEPT !.gen = @ + 1, !.size = 0, !.list = FALSE, !.free = {}]

\* allocateBuffers: the driver may refuse, or refuse to describe a buffer, in
\* which case those made so far are dropped.
AllocateBuffers(got) ==
  LET full == [s EXCEPT !.size = got, !.list = TRUE, !.free = 0..(got - 1)]
  IN /\ ~s.streaming /\ s.size = 0 /\ s.gen < MaxAllocs
     /\ s' = IF got = Count THEN full ELSE Drop(full)

\* The clients stop the stream before they deallocate.
DeallocateBuffers ==
  /\ ~s.streaming /\ s.queued = {}
  /\ s' = Drop(s)

Streamon == /\ ~s.streaming /\ s.size > 0 /\ s' = [s EXCEPT !.streaming = TRUE]

\* The driver gives up every buffer, finished or not, and they are free again.
Streamoff ==
  s' = [s EXCEPT !.free = @ \cup s.queued, !.queued = {}, !.kept = {}, !.done = {}, !.streaming = FALSE]

\* getFreeBuffer: the first one, or the one asked for.
GetFreeBuffer(b) ==
  /\ s.list /\ b \in s.free
  /\ s' = [s EXCEPT !.free = @ \ {b}, !.refs = @ \cup {<<s.gen, b, "write">>}]

\* ~V4L2BufferRefBase: back to the list the reference came from.
Return(t, r) ==
  [t EXCEPT !.refs = @ \ {r}, !.free = IF r[1] = t.gen /\ t.list THEN @ \cup {r[2]} ELSE @]

Release(r) == s' = Return(s, r)

\* queueDMABuf and doQueue: the reference is spent either way; it is returned if
\* its queue was reallocated, if its planes do not match or the driver refuses.
QueueBuffer(r, ok) ==
  /\ r[3] = "write"
  /\ s' = IF ok /\ r[1] = s.gen /\ s.size > 0
          THEN [s EXCEPT !.refs = @ \ {r}, !.queued = @ \cup {r[2]}, !.kept = @ \cup {r[2]}]
          ELSE Return(s, r)

\* dequeueBuffer hands out what the driver finished.
DequeueBuffer(b) ==
  /\ s.queued # {} /\ s.streaming /\ b \in s.done
  /\ s' = [s EXCEPT !.done = @ \ {b}, !.queued = @ \ {b}, !.refs = @ \cup {<<s.gen, b, "read">>}]

\* External: the driver finishes a buffer while the stream runs.
DriverDone(b) ==
  /\ s.streaming /\ b \in s.kept
  /\ s' = [s EXCEPT !.kept = @ \ {b}, !.done = @ \cup {b}]

Next ==
  \/ DeallocateBuffers \/ Streamon \/ Streamoff
  \/ \E n \in 1..Count : AllocateBuffers(n)
  \/ \E b \in 0..(Count - 1) : GetFreeBuffer(b) \/ DequeueBuffer(b) \/ DriverDone(b)
  \/ \E r \in s.refs : Release(r) \/ (\E ok \in BOOLEAN : QueueBuffer(r, ok))

-----------------------------------------------------------------------------
\* Every buffer of the current allocation has exactly one place: free, in the
\* driver, or in one reference; the queue and the driver agree on what is queued;
\* and a reference that outlived its allocation owns nothing of the new one.
BuffersOwned ==
  LET held == {r \in s.refs : r[1] = s.gen}
  IN /\ s.free \cup s.queued \cup {r[2] : r \in held} = 0..(s.size - 1)
     /\ Cardinality(s.free) + Cardinality(s.queued) + Cardinality(held) = s.size
     /\ s.queued = s.kept \cup s.done /\ s.kept \cap s.done = {}
=============================================================================
