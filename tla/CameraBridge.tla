---------------------------- MODULE CameraBridge ----------------------------
(***************************************************************************)
(* The camera provider in front of the older backend interface (camera-    *)
(* aidl): device names, sessions, stream configurations, and the metadata  *)
(* of requests and results, which travels in shared queues beside the      *)
(* calls.  A request or a result is a frame number; its metadata is what   *)
(* the queue should hand out for it.                                       *)
(***************************************************************************)
EXTENDS Integers, Sequences, FiniteSets

LOCAL INSTANCE SequencesExt

CONSTANTS Ids,        \* cameras
          MaxFrames, MaxOpens,
          Room        \* items a metadata queue holds

VARIABLE s

Levels == {32, 34, 37}                    \* of the backend's session
Asks == {"params", "physical", "group"}   \* what a configuration may ask for
Sizes == {1, 2}                           \* of an input stream; 0 for none

\* names: the backend device a name stands for; told: names the framework heard;
\* live and held: the backend's session and the framework's; whole: the backend's
\* configuration has all that was asked; input: mInputSizes; requests, results,
\* backend: the queues, the last with whether it is attached; sent and given: what
\* the backend and the framework got; broken: a call failed with metadata still queued.
Init == s = [names |-> <<>>, told |-> {}, device |-> FALSE, level |-> 32, live |-> FALSE, held |-> FALSE, opens |-> 0,
             whole |-> TRUE, input |-> 0, attached |-> FALSE, closing |-> FALSE, next |-> 1,
             requests |-> <<>>, results |-> <<>>, backend |-> <<>>, sent |-> <<>>, given |-> <<>>, broken |-> FALSE]

-----------------------------------------------------------------------------
\* Names.

\* remember: the name without the backend's version, which is kept.
Remember(t, id, v) ==
  [t EXCEPT !.told = @ \cup {id}, !.names = [x \in DOMAIN t.names \cup {id} |-> IF x = id THEN v ELSE t.names[x]]]

Lookup(t, id) == IF id \in DOMAIN t.names THEN t.names[id] ELSE 0

\* cameraDeviceStatusChange, torchModeStatusChange, physicalCameraDeviceStatusChange
\* and the conflicts of getResourceCost.
StatusChange(id, v) == s' = Remember(s, id, v)

\* getCameraIdList; the backend may refuse.
GetCameraIdList(t, ok) ==
  IF ok THEN FoldLeft(LAMBDA u, id : Remember(u, id, IF id \in DOMAIN u.names THEN u.names[id] ELSE 32), t, SetToSeq(Ids)) ELSE t

GetCameraDeviceInterface(id, ok) ==
  LET t == IF Lookup(s, id) = 0 THEN GetCameraIdList(s, ok) ELSE s
  IN s' = [t EXCEPT !.device = @ \/ (ok /\ Lookup(t, id) # 0)]

-----------------------------------------------------------------------------
\* Sessions.


\* createCameraDeviceSession: a session whose queues or casts fail is closed.
Abandon(t) == [t EXCEPT !.live = FALSE]

Open(level, result) ==
  LET fresh == [s EXCEPT !.level = level, !.live = TRUE, !.opens = @ + 1, !.whole = TRUE, !.input = 0, !.attached = FALSE, !.closing = FALSE,
                         !.requests = <<>>, !.results = <<>>, !.backend = <<>>, !.sent = <<>>, !.given = <<>>, !.broken = FALSE]
  IN /\ s.device /\ ~s.held /\ ~s.live /\ s.opens < MaxOpens
     /\ s' = CASE result = "refused" -> [s EXCEPT !.opens = @ + 1]
               [] result = "unusable" -> Abandon(fresh)
               [] result = "ok" -> [fresh EXCEPT !.held = TRUE]

\* close, its two steps: the backend's session ends, then the queue goes.
Close(ok) == /\ s.held /\ ~s.closing /\ s' = IF ok THEN [s EXCEPT !.closing = TRUE, !.live = FALSE] ELSE s
CloseQueue == s.closing /\ s' = [s EXCEPT !.attached = FALSE, !.closing = FALSE, !.held = FALSE]

-----------------------------------------------------------------------------
\* Configurations.

\* What the backend's interface can say; convertStreams and configureStreams.
Expresses(level) == CASE level = 37 -> Asks [] level = 34 -> Asks \ {"group"} [] OTHER -> {}

ConfigRefused(level, asks) == ~(asks \subseteq Expresses(level))

\* configureStreams: sizes and queue change only when the backend took it; its queue
\* may then be of no use, or not come.
ConfigureStreams(asks, size, ok) ==
  /\ s.held /\ s.live
  /\ s' = IF ConfigRefused(s.level, asks) \/ ok = "no" THEN s
          ELSE [s EXCEPT !.whole = asks \subseteq Expresses(s.level), !.input = size,
                         !.attached = ok = "yes" \/ (ok = "nocall" /\ @)]

-----------------------------------------------------------------------------
\* Requests and results.

\* A request: whether its metadata, and that of a physical camera, are queued; the
\* size of its input; whether its settings or a fence are bad.
Shapes == [queued : BOOLEAN, phys : {"none", "queued"}, size : {0} \cup Sizes, bad : BOOLEAN]
Queued(f, r) == (IF r.queued THEN <<f>> ELSE <<>>) \o IF r.phys = "queued" THEN <<-f>> ELSE <<>>

Take(a, queued, item) ==
  IF ~queued THEN [a EXCEPT !.got = Append(@, item)]
  ELSE IF a.q = <<>> THEN [a EXCEPT !.ok = FALSE] ELSE [a EXCEPT !.got = Append(@, Head(a.q)), !.q = Tail(@)]

Unfit(r) == (s.level < 34 /\ r.phys # "none") \/ (s.level < 37 /\ r.size # 0 /\ r.size # s.input)

\* One request of the batch: refused ones stop the loop where they stand.
Convert(a, f, r) ==
  LET main == Take([a EXCEPT !.got = <<>>], r.queued, f)
      both == IF r.phys = "none" THEN main ELSE Take(main, r.phys = "queued", -f)
  IN IF ~a.ok THEN a
     ELSE IF Unfit(r) THEN [a EXCEPT !.ok = FALSE]
     ELSE IF ~main.ok \/ r.bad THEN [main EXCEPT !.ok = FALSE]
     ELSE [both EXCEPT !.out = Append(@, [frame |-> f, got |-> both.got,
                                         exact |-> s.level = 37 \/ r.size \in {0, s.input}])]

\* processCaptureRequest; the framework has queued the batch's metadata before.
ProcessCaptureRequest(batch) ==
  LET f(i) == s.next + i - 1
      q == s.requests \o FlattenSeq([i \in DOMAIN batch |-> Queued(f(i), batch[i])])
      all == FoldLeft(LAMBDA a, i : Convert(a, f(i), batch[i]), [q |-> q, out |-> <<>>, got |-> <<>>, ok |-> TRUE], [i \in DOMAIN batch |-> i])
  IN /\ s.held /\ s.live /\ s.attached /\ s.next + Len(batch) <= MaxFrames + 1 /\ Len(q) <= Room
     /\ s' = [s EXCEPT !.next = @ + Len(batch), !.requests = all.q, !.broken = @ \/ all.q # <<>>,
                       !.sent = IF all.ok THEN @ \o all.out ELSE @]

\* A result's metadata goes on in the framework's queue, or in the call if that is full.
Forward(a, item) ==
  IF Len(a.results) < Room THEN [a EXCEPT !.results = Append(@, item), !.out = Append(@, [queued |-> TRUE, item |-> 0])]
  ELSE [a EXCEPT !.out = Append(@, [queued |-> FALSE, item |-> item])]

\* External: the framework reads what the call says is queued.
Reads(results, out) ==
  FoldLeft(LAMBDA a, o : IF ~o.queued THEN [a EXCEPT !.got = Append(@, o.item)]
                         ELSE [got |-> Append(a.got, Head(a.left)), left |-> Tail(a.left)],
           [got |-> <<>>, left |-> results], out)

\* processCaptureResult_3_4 for one result, of one item or two.  A bad fence is
\* noticed after the first; the framework may be lost in the call.
ProcessCaptureResult(i, queued, end) ==
  LET r == s.sent[i]
      n == Len(r.got)
      q == IF queued THEN s.backend \o r.got ELSE s.backend
      items == IF queued THEN SubSeq(q, 1, n) ELSE r.got
      done == IF queued /\ ~s.attached THEN 0 ELSE IF end = "fence" THEN 1 ELSE n
      moved == FoldLeft(Forward, [results |-> s.results, out |-> <<>>], SubSeq(items, 1, done))
      read == Reads(moved.results, moved.out)
      over == [s EXCEPT !.sent = RemoveAt(@, i), !.backend = IF queued THEN SubSeq(q, done + 1, Len(q)) ELSE q]
  IN /\ s.held /\ i \in DOMAIN s.sent
     /\ s' = IF done < n \/ end # "ok" THEN [over EXCEPT !.results = moved.results, !.broken = TRUE]
             ELSE [over EXCEPT !.results = read.left, !.given = Append(@, [frame |-> r.frame, got |-> read.got])]

-----------------------------------------------------------------------------
Next ==
  \/ ~s.held /\ \E id \in Ids, v \in {32, 35} : StatusChange(id, v)
  \/ ~s.held /\ \E ok \in BOOLEAN : s' = GetCameraIdList(s, ok) \/ \E id \in Ids : GetCameraDeviceInterface(id, ok)
  \/ \E ok \in BOOLEAN : Close(ok)
  \/ \E level \in Levels, r \in {"ok", "refused", "unusable"} : Open(level, r)
  \/ CloseQueue
  \/ \E asks \in SUBSET Asks, size \in {0} \cup Sizes, ok \in {"yes", "no", "badqueue", "nocall"} : ConfigureStreams(asks, size, ok)
  \/ \E a, b \in Shapes : ProcessCaptureRequest(<<a>>) \/ ProcessCaptureRequest(<<a, b>>)
  \/ \E i \in 1 .. MaxFrames, queued \in BOOLEAN, end \in {"ok", "fence", "lost"} : ProcessCaptureResult(i, queued, end)

-----------------------------------------------------------------------------
=============================================================================
