----------------------------- MODULE FramePool -----------------------------
(***************************************************************************)
(* The pool of output frames of the decoder                                *)
(* (codec2/components/VideoFramePool.cpp): the client asks for one frame   *)
(* at a time; a fetch thread takes blocks from the block pool, drops those *)
(* beyond the agreed number of buffers, retries with a growing delay, and  *)
(* posts the answer back through weak pointers.                            *)
(***************************************************************************)
EXTENDS Integers, FiniteSets

CONSTANTS Ids,          \* buffers the block pool may hand out
          Max,          \* mMaxBufferCount
          DelayInit, DelayMax,  \* kFetchRetryDelayInit and kFetchRetryDelayMax
          MaxRequests

VARIABLE s

\* cb: the request waiting in mOutputCb, 0 for none; task: getVideoFrameTask is
\* queued ("now", "later") or not; posted: an answer on its way to the client, the
\* id of a frame or 0 for none; answers: the requests answered, with what.
Init == s = [alive |-> TRUE, cb |-> 0, task |-> "no", posted |-> <<>>, buffers |-> {}, delay |-> DelayInit,
             asked |-> 0, answered |-> 0, refused |-> 0]

GetVideoFrame ==
  /\ s.alive /\ s.asked + s.refused < MaxRequests
  /\ s' = IF s.cb # 0 THEN [s EXCEPT !.refused = @ + 1]
          ELSE [s EXCEPT !.asked = @ + 1, !.cb = s.asked + 1, !.task = "now"]

ShouldDropBuffer(b) == Cardinality(s.buffers) >= Max /\ b \notin s.buffers

Retry == [s EXCEPT !.task = "later", !.delay = IF @ * 4 < DelayMax THEN @ * 4 ELSE DelayMax]

\* getVideoFrameTask: the fence let a block through and it runs again; the pool
\* is blocked; it gives a block, unknown to us or not; or fails.
FetchTask(outcome, b) ==
  /\ s.task = "now" /\ s.alive
  /\ s' = CASE outcome = "fence" -> s
            [] outcome = "blocked" \/ (outcome = "block" /\ ShouldDropBuffer(b)) -> Retry
            [] outcome = "block" /\ ~ShouldDropBuffer(b) ->
                 [s EXCEPT !.task = "no", !.delay = DelayInit, !.buffers = @ \cup {b}, !.posted = <<b>>]
            [] outcome = "error" -> [s EXCEPT !.task = "no", !.delay = DelayInit, !.posted = <<0>>]

DelayOver == /\ s.task = "later" /\ s' = [s EXCEPT !.task = "now"]

\* onVideoFrameReady.
FrameReady ==
  /\ s.alive /\ s.posted # <<>>
  /\ s' = [s EXCEPT !.posted = <<>>, !.cb = 0, !.answered = IF s.cb = 0 THEN @ + 2 ELSE @ + 1]

\* ~VideoFramePool: weak pointers to the client side are invalidated, the fetch
\* thread runs its last task and is joined, a delayed retry with it.
Destroy ==
  /\ s.alive
  /\ s' = [s EXCEPT !.alive = FALSE, !.posted = <<>>, !.task = "no", !.cb = 0]

Next ==
  \/ GetVideoFrame \/ DelayOver \/ FrameReady \/ Destroy
  \/ \E b \in Ids, o \in {"fence", "blocked", "block", "error"} : FetchTask(o, b)

-----------------------------------------------------------------------------
\* A request to the pool is always in exactly one place, a task that will fetch
\* for it or an answer on its way, and is answered once; the buffers the decoder
\* sees never exceed the number agreed; and the retry delay stays in its bounds.
FetchAccounted ==
  /\ s.alive => (s.cb # 0) = (s.task # "no" \/ s.posted # <<>>)
  /\ ~(s.task # "no" /\ s.posted # <<>>)
  /\ s.alive => s.answered + (IF s.cb = 0 THEN 0 ELSE 1) = s.asked
  /\ Cardinality(s.buffers) <= Max
  /\ s.delay >= DelayInit /\ s.delay <= DelayMax
=============================================================================
