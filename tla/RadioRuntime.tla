----------------------------- MODULE RadioRuntime -----------------------------
(***************************************************************************)
(* The runtime of the open radio HAL (modem/radio/runtime): one reactor    *)
(* thread that owns the modem core, and the queues it shares under one     *)
(* mutex with the threads that submit requests and take deliveries.        *)
(*                                                                         *)
(* Every action is one critical section (or one atomic store) of one       *)
(* thread; `pc` is where the reactor is in Reactor::run.  The core is what *)
(* the reactor sees of it: the requests it holds, of which any call may    *)
(* answer some, and which a reset answers all.  Its clock is abstracted to *)
(* `due` (a deadline has passed) and `retry` (time left before reopening). *)
(***************************************************************************)
EXTENDS Naturals, FiniteSets, Sequences, SequencesExt

CONSTANTS
    SUBMISSION_CAPACITY,    \* requests waiting for the reactor (256)
    ACCEPTED_LIMIT,         \* requests not yet delivered (1024)
    OUTPUT_CAPACITY,        \* deliveries ready for the consumer (256)
    SUBMIT_TURN,            \* submissions taken in one turn (16)
    MAX_BACKOFF,            \* longest wait before reopening (5000 ms)
    WakeFails,              \* TRUE: a client's wake() may fail
    MaxId,                  \* bound: requests accepted in one behaviour
    MaxSignals,             \* bound: signal indications of the modem
    MaxResets               \* bound: spontaneous modem resets

ASSUME RuntimeConstants ==
    /\ SUBMISSION_CAPACITY \in Nat \ {0} /\ ACCEPTED_LIMIT \in Nat \ {0}
    /\ OUTPUT_CAPACITY \in Nat \ {0} /\ MAX_BACKOFF \in Nat \ {0}
    /\ SUBMIT_TURN \in Nat \ {0}
    /\ WakeFails \in BOOLEAN
    /\ MaxId \in Nat /\ MaxSignals \in Nat /\ MaxResets \in Nat

VARIABLES
    q,          \* struct Queues
    stopped,    \* Shared::stopped
    wake,       \* the event the poller wakes on is raised
    wakers,     \* wake() calls a client (submit) or others still have to make
    pc,         \* the reactor's place in Reactor::run
    hand,       \* the submission the reactor popped and not yet gave the core
    taken,      \* submissions taken in this turn
    core,       \* requests the core holds (Reactor::tokens)
    conn,       \* the reactor's connection: connected, retry, backoff
    due,        \* a deadline of the core has passed
    wait,       \* how long the reactor decided to poll
    modem,      \* signals and resets the modem may still produce
    seen        \* what the consumer was given: responses per id, last signal

vars == <<q, stopped, wake, wakers, pc, hand, taken, core, conn, due, wait, modem, seen>>
reactor == <<pc, hand, taken, core, conn, due, wait>>

Ids == 1 .. MaxId
None == 0

Response(id) == [kind |-> "response", of |-> id]
Signal(n) == [kind |-> "signal", of |-> n]
Reset == [kind |-> "reset", of |-> 0]

Init ==
    /\ q = [submissions |-> <<>>, outputs |-> <<>>, deferred |-> <<>>,
            accepted |-> {}, next_id |-> 0, outstanding |-> 0, finished |-> FALSE]
    /\ stopped = FALSE /\ wake = FALSE /\ wakers = [client |-> 0, other |-> 0]
    /\ pc = "top" /\ hand = None /\ taken = 0 /\ core = {} /\ wait = "none" /\ due = FALSE
    /\ conn = [open |-> FALSE, down |-> FALSE, retry |-> 0, backoff |-> 1]
    /\ modem = [signals |-> 0, resets |-> 0]
    /\ seen = [responses |-> [i \in Ids |-> 0], signal |-> 0]

-----------------------------------------------------------------------------
(* Shared: the queues, always under the mutex.                             *)

Flush(s) ==
    LET room == OUTPUT_CAPACITY - Len(s.outputs)
        n == IF room < Len(s.deferred) THEN room ELSE Len(s.deferred)
    IN  [s EXCEPT !.outputs = @ \o SubSeq(s.deferred, 1, n),
                  !.deferred = SubSeq(@, n + 1, Len(@))]

Replaceable(left, right) == left.kind = "signal" /\ right.kind = "signal"

\* Mutants of Push: the older of two signals is kept; the flush is left out.
PushKeepsOld(s, delivery) ==
    LET all == s.outputs \o s.deferred IN
    IF all # <<>> /\ Replaceable(Last(all), delivery) THEN s
    ELSE Flush([s EXCEPT !.deferred = Append(@, delivery)])
PushNoFlush(s, delivery) == [s EXCEPT !.deferred = Append(@, delivery)]

\* The newest queued delivery is replaced if it is a stale signal.
Push(s, delivery) ==
    LET all == s.outputs \o s.deferred IN
    IF all # <<>> /\ Replaceable(Last(all), delivery)
    THEN IF s.deferred # <<>>
         THEN [s EXCEPT !.deferred[Len(s.deferred)] = delivery]
         ELSE [s EXCEPT !.outputs[Len(s.outputs)] = delivery]
    ELSE Flush([s EXCEPT !.deferred = Append(@, delivery)])

Respond(s, id) ==
    IF id \in s.accepted
    THEN [Push(s, Response(id)) EXCEPT !.accepted = @ \ {id}] ELSE s

Pressured == Len(q.outputs) >= OUTPUT_CAPACITY \/ q.deferred # <<>>

\* Reactor::collect: the core's outputs, in order, to the queues.
Collect(s, outputs) ==
    FoldLeft(LAMBDA t, o : IF o.kind = "response" THEN Respond(t, o.of) ELSE Push(t, o),
             s, outputs)

\* In the order of the invocations: ids grow.
Responses(ids) == SelectSeq([i \in Ids |-> Response(i)], LAMBDA r : r.of \in ids)

-----------------------------------------------------------------------------
(* The threads that submit, stop and consume.                              *)

Submit ==
    /\ ~stopped
    /\ Len(q.submissions) < SUBMISSION_CAPACITY /\ q.outstanding < ACCEPTED_LIMIT
    /\ q.next_id < MaxId
    /\ LET id == q.next_id + 1 IN
       q' = [q EXCEPT !.next_id = id, !.accepted = @ \cup {id},
                      !.submissions = Append(@, id), !.outstanding = @ + 1]
    /\ wakers' = [wakers EXCEPT !.client = @ + 1]
    /\ UNCHANGED <<stopped, wake, reactor, modem, seen>>

\* submit() calls wake() after the unlock; if that fails the runtime stops.
ClientWake ==
    /\ wakers.client > 0
    /\ wakers' = [wakers EXCEPT !.client = @ - 1]
    /\ \/ wake' = TRUE /\ UNCHANGED stopped
       \/ WakeFails /\ stopped' = TRUE /\ UNCHANGED wake
    /\ UNCHANGED <<q, reactor, modem, seen>>

\* Mutant of NextBatch: the reactor is not woken.
NextBatchNoWake ==
    /\ q.outputs # <<>>
    /\ LET responses == {k \in DOMAIN q.outputs : q.outputs[k].kind = "response"}
           signals == SelectSeq(q.outputs, LAMBDA d : d.kind = "signal")
       IN  /\ q' = Flush([q EXCEPT !.outputs = <<>>,
                                   !.outstanding = @ - Cardinality(responses)])
           /\ seen' = [responses |-> [i \in Ids |-> seen.responses[i] +
                          Cardinality({k \in responses : q.outputs[k].of = i})],
                       signal |-> IF signals = <<>> THEN seen.signal ELSE Last(signals).of]
    /\ UNCHANGED <<wakers, stopped, wake, reactor, modem>>

\* next_batch_wait() takes every output and lets the deferred ones follow.
NextBatch ==
    /\ q.outputs # <<>>
    /\ LET responses == {k \in DOMAIN q.outputs : q.outputs[k].kind = "response"}
           signals == SelectSeq(q.outputs, LAMBDA d : d.kind = "signal")
       IN  /\ q' = Flush([q EXCEPT !.outputs = <<>>,
                                   !.outstanding = @ - Cardinality(responses)])
           /\ seen' = [responses |-> [i \in Ids |-> seen.responses[i] +
                          Cardinality({k \in responses : q.outputs[k].of = i})],
                       signal |-> IF signals = <<>> THEN seen.signal ELSE Last(signals).of]
    /\ wakers' = [wakers EXCEPT !.other = 1]
    /\ UNCHANGED <<stopped, wake, reactor, modem>>

Stop ==
    /\ ~stopped
    /\ stopped' = TRUE
    /\ wakers' = [wakers EXCEPT !.other = 1]
    /\ UNCHANGED <<q, wake, reactor, modem, seen>>

OtherWake ==
    /\ wakers.other > 0
    /\ wakers' = [wakers EXCEPT !.other = @ - 1]
    /\ wake' = TRUE
    /\ UNCHANGED <<q, stopped, reactor, modem, seen>>

-----------------------------------------------------------------------------
(* The reactor.                                                            *)

Disconnect(c) ==
    [open |-> FALSE, down |-> TRUE, retry |-> c.backoff,
     backoff |-> IF 2 * c.backoff < MAX_BACKOFF THEN 2 * c.backoff ELSE MAX_BACKOFF]

\* Core::on_reset and the collect() after it: every request is answered, then
\* the reset is announced and the connection dropped.  A core that is already
\* down only loses its endpoints.
CoreReset(signals, ids) ==
    /\ q' = Collect(q, signals \o Responses(ids) \o Responses(core \ ids) \o
                       IF conn.down THEN <<>> ELSE <<Reset>>)
    /\ core' = {} /\ due' = FALSE
    /\ conn' = IF conn.open \/ ~conn.down THEN Disconnect(conn) ELSE conn

\* A call into the core and the collect() after it: some requests answered, a
\* new signal level perhaps, or a reset, which a passed deadline forces.
CoreCall ==
    \E ids \in SUBSET core, n \in {0, 1} :
      LET signals == IF n = 1 THEN <<Signal(modem.signals + 1)>> ELSE <<>> IN
      /\ n = 1 => modem.signals < MaxSignals /\ ~conn.down
      /\ \/ /\ ~due
            /\ q' = Collect(q, signals \o Responses(ids))
            /\ core' = core \ ids
            /\ modem' = [modem EXCEPT !.signals = @ + n]
            /\ UNCHANGED <<conn, due>>
         \/ /\ due
            /\ CoreReset(signals, ids)
            /\ modem' = [modem EXCEPT !.signals = @ + n]
         \/ /\ ~due /\ modem.resets < MaxResets /\ ~conn.down
            /\ CoreReset(signals, ids)
            /\ modem' = [signals |-> modem.signals + n, resets |-> modem.resets + 1]

clients == <<stopped, wake, wakers, seen>>

Top ==
    /\ pc = "top"
    /\ IF stopped
       THEN pc' = "finish" /\ UNCHANGED <<q, core, conn, due, modem>>
       ELSE pc' = "admit" /\ CoreCall
    /\ UNCHANGED <<clients, hand, taken, wait>>

\* The endpoints are opened when it is time; a failed open is a reset.
Open ==
    \/ /\ conn' = [open |-> TRUE, down |-> FALSE, retry |-> 0, backoff |-> 1]
       /\ UNCHANGED <<q, core, due, modem>>
    \/ /\ modem.resets < MaxResets
       /\ modem' = [modem EXCEPT !.resets = @ + 1]
       /\ q' = Collect(q, Responses(core) \o IF conn.down THEN <<>> ELSE <<Reset>>)
       /\ core' = {} /\ due' = FALSE
       /\ conn' = Disconnect(conn)

Admit ==
    /\ pc = "admit"
    /\ CASE Pressured -> pc' = "prepare" /\ UNCHANGED <<q, core, conn, due, modem>>
         [] ~Pressured /\ ~conn.open /\ conn.retry = 0 -> pc' = "submit" /\ Open
         [] OTHER -> pc' = "submit" /\ UNCHANGED <<q, core, conn, due, modem>>
    /\ UNCHANGED <<clients, hand, taken, wait>>

\* Reactor::submit takes at most SUBMIT_TURN submissions.
TakeSubmission ==
    /\ pc = "submit"
    /\ IF Pressured \/ stopped \/ q.submissions = <<>> \/ taken = SUBMIT_TURN
       THEN /\ pc' = "write" /\ taken' = 0
            /\ UNCHANGED <<q, core, hand>>
       ELSE /\ pc' = "feed" /\ taken' = taken + 1
            /\ hand' = Head(q.submissions)
            /\ q' = [q EXCEPT !.submissions = Tail(@)]
            /\ core' = core \cup {hand'}
    /\ UNCHANGED <<clients, conn, due, wait, modem>>

\* Core::submit answers at once when the core is down; otherwise the request
\* is kept, or answered at once, by the pump it ends with.
FeedCore ==
    /\ pc = "feed"
    /\ IF conn.down
       THEN /\ q' = Collect(q, Responses({hand}))
            /\ core' = core \ {hand}
            /\ UNCHANGED <<conn, due, modem>>
       ELSE CoreCall
    /\ hand' = None /\ pc' = "submit"
    /\ UNCHANGED <<clients, taken, wait>>

\* Reactor::write and Reactor::read stop when the consumer is behind; each
\* of their iterations is a call into the core.
Transfer(here, next) ==
    /\ pc = here
    /\ IF Pressured \/ ~conn.open
       THEN pc' = next /\ UNCHANGED <<q, core, conn, due, modem>>
       ELSE pc' \in {here, next} /\ CoreCall
    /\ UNCHANGED <<clients, hand, taken, wait>>

Prepare ==
    /\ pc = "prepare" /\ pc' = "poll"
    /\ wait' \in CASE Pressured -> {"pressured"}
                   [] ~Pressured /\ q.submissions # <<>> -> {"now"}
                   [] ~Pressured /\ q.submissions = <<>> /\ conn.open -> {"now", "deadline"}
                   [] OTHER -> {"retry"}
    /\ UNCHANGED <<clients, q, hand, taken, core, conn, due, modem>>

\* poll() returns for a raised wake, or at the end of the wait.
PollReturns ==
    /\ pc = "poll"
    /\ wake \/ due \/ wait = "now" \/ (wait = "retry" /\ conn.retry = 0)
    /\ wake' = FALSE /\ wait' = "none"
    /\ pc' = IF stopped THEN "top" ELSE "read"
    /\ UNCHANGED <<stopped, wakers, seen, q, hand, taken, core, conn, due, modem>>

\* poll() returns with an endpoint ready, hung up, or with an error.
PollReady ==
    /\ pc = "poll" /\ conn.open
    /\ wake' = FALSE /\ wait' = "none"
    /\ \/ /\ wait # "pressured"
          /\ pc' = IF stopped THEN "top" ELSE "read"
          /\ UNCHANGED <<q, core, conn, due, modem>>
       \/ /\ modem.resets < MaxResets
          /\ modem' = [modem EXCEPT !.resets = @ + 1]
          /\ pc' = "top" /\ CoreReset(<<>>, {})
    /\ UNCHANGED <<stopped, wakers, seen, hand, taken>>

\* A panic, caught around the reactor.
Panics ==
    /\ pc \notin {"finish", "drain", "done"}
    /\ modem.resets < MaxResets
    /\ modem' = [modem EXCEPT !.resets = @ + 1]
    /\ pc' = "finish"
    /\ UNCHANGED <<clients, q, hand, taken, core, conn, due, wait>>

\* Shared::finish: first the flag, then, under the mutex, the answers.
FinishFlag ==
    /\ pc = "finish" /\ pc' = "drain"
    /\ stopped' = TRUE
    /\ UNCHANGED <<wake, wakers, seen, q, hand, taken, core, conn, due, wait, modem>>

\* Mutant of FinishDrain: the submissions still queued are forgotten.
FinishForgets ==
    /\ pc = "drain" /\ pc' = "done"
    /\ q' = [Collect(q, Responses(q.accepted \ Range(q.submissions)))
               EXCEPT !.submissions = <<>>, !.finished = TRUE]
    /\ UNCHANGED <<clients, hand, taken, core, conn, due, wait, modem>>

FinishDrain ==
    /\ pc = "drain" /\ pc' = "done"
    /\ q' = [Collect([q EXCEPT !.submissions = <<>>], Responses(q.accepted))
               EXCEPT !.finished = TRUE]
    /\ UNCHANGED <<clients, hand, taken, core, conn, due, wait, modem>>

\* Time: a deadline of the core passes, the wait before reopening shrinks.
Elapse ==
    /\ (core # {} /\ ~due) \/ conn.retry > 0
    /\ due' = (due \/ core # {})
    /\ conn' = [conn EXCEPT !.retry = IF @ = 0 THEN 0 ELSE @ - 1]
    /\ UNCHANGED <<clients, q, pc, hand, taken, core, wait, modem>>

ReactorStep ==
    \/ Top \/ Admit \/ TakeSubmission \/ FeedCore
    \/ Transfer("write", "prepare") \/ Transfer("read", "rewrite") \/ Transfer("rewrite", "top")
    \/ Prepare \/ PollReturns \/ FinishFlag \/ FinishDrain

Next ==
    \/ Submit \/ ClientWake \/ NextBatch \/ Stop \/ OtherWake
    \/ ReactorStep \/ PollReady \/ Panics \/ Elapse

\* Threads are scheduled, time passes, and the consumer keeps taking.
Spec ==
    /\ Init /\ [][Next]_vars
    /\ WF_vars(ClientWake) /\ WF_vars(OtherWake) /\ WF_vars(NextBatch)
    /\ WF_vars(ReactorStep) /\ WF_vars(Elapse)

-----------------------------------------------------------------------------
(* Properties.                                                             *)

Queued(id) == Cardinality({k \in DOMAIN (q.outputs \o q.deferred) :
                             (q.outputs \o q.deferred)[k] = Response(id)})

\* Every request submit() accepted is answered exactly once: it is accepted,
\* or its response is queued, or it was delivered, and never two of these,
\* whether the core answered it, a reset, or the end of the reactor; the
\* reactor only holds requests that still wait, and after finish() none does.
\* `outstanding`, which submit() limits and next_batch_wait() decrements, counts
\* exactly the accepted ones and the responses not yet taken, so the
\* subtraction never underflows and the limit is never lost.
AnsweredOnce ==
    /\ \A i \in Ids : (IF i \in q.accepted THEN 1 ELSE 0) + Queued(i) + seen.responses[i]
                        = IF i <= q.next_id THEN 1 ELSE 0
    /\ Range(q.submissions) \subseteq q.accepted
    /\ core \subseteq q.accepted \/ q.finished
    /\ q.finished => q.accepted = {} /\ stopped
    /\ q.outstanding = Cardinality(q.accepted) +
                          Cardinality({i \in Ids : Queued(i) > 0})

\* The queues keep to their capacity, and a delivery is deferred only while the
\* outputs are full, so a consumer that
\* waits on empty outputs waits for nothing that is already there.
\* When all is delivered, the consumer's last signal level is the newest the
\* modem reported: replacing a queued indication never loses the newer one (push).
NothingHidden ==
    /\ Len(q.submissions) <= SUBMISSION_CAPACITY /\ Len(q.outputs) <= OUTPUT_CAPACITY
    /\ q.deferred # <<>> => Len(q.outputs) = OUTPUT_CAPACITY
    /\ q.outputs = <<>> => seen.signal = modem.signals

\* Every accepted request is answered to the consumer: no wake-up is lost
\* between the queues, the poller and the condition variable.
EveryRequestAnswered ==
    \A i \in Ids : i \in q.accepted ~> seen.responses[i] = 1

\* Once stop() is called the reactor ends.
StopsInTheEnd == stopped ~> q.finished

=============================================================================
