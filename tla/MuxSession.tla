----------------------------- MODULE MuxSession -----------------------------
(***************************************************************************)
(* One multiplexer connection of gsm0710muxd: Session (session.rs), which  *)
(* opens channel 0 and the configured channels and recovers the ones the   *)
(* modem drops, run by Runtime (runtime.rs), which hands their data to     *)
(* pseudo terminals and closes the connection.                             *)
(*                                                                         *)
(* An action is one turn of Runtime::run_turn with one ready event: the    *)
(* timers first, then the event, then the flush of the transmit queue.     *)
(* Any error a turn returns reaches Runtime::fail, which forgets all of    *)
(* the turn's effects, so a failing turn is the one action Faulted.  A     *)
(* timer is 0 when unset and otherwise one more than the ticks left.       *)
(* Frame bytes, the poll/final echo, the polling epochs and the report of  *)
(* a refused ATCI channel are left out.                                    *)
(***************************************************************************)
EXTENDS Integers, FiniteSets

CONSTANTS
    N,               \* the configured channels are 1..N
    Recovery,        \* daemon mode: enable_recovery was called
    ATTEMPTS,        \* 3 in the code
    RETRY_MS, ESCALATION_MS, LOCAL_CLOSE_MS, CLOSE_FLUSH_MS, SETUP_TIMEOUT_MS,
    PENDING          \* units of PENDING_BYTES, one unit per data frame

ASSUME MuxAssumption ==
    /\ N \in Nat \ {0} /\ Recovery \in BOOLEAN
    /\ {ATTEMPTS, RETRY_MS, ESCALATION_MS, LOCAL_CLOSE_MS, CLOSE_FLUSH_MS,
        SETUP_TIMEOUT_MS, PENDING} \subseteq Nat \ {0}

VARIABLE m

Channels == 1..N

Is(s, c, f) == f \in s.ch[c].flags
Set(s, c, fs) == [s EXCEPT !.ch[c].flags = @ \cup fs]
Clear(s, c, fs) == [s EXCEPT !.ch[c].flags = @ \ fs]
Due(timer) == timer = 1

\* History: tried, the reopening requests since the channel was last lost;
\* told, the flow control bit last sent since the channel was last closed;
\* since, the time since the last rebuild, capped at ESCALATION_MS.
NoChannel == [flags |-> {}, retry |-> 0, attempts |-> 0, pend |-> 0,
              tried |-> 0, told |-> FALSE]

Transmit(s) == [s EXCEPT !.tx = TRUE]

\* Session::begin: SABM on channel 0 and on every channel, endpoints opened.
Begin(cool, since) ==
    [phase |-> "Setup", unresolved |-> N + 1, done |-> FALSE, ready |-> FALSE,
     setupIn |-> SETUP_TIMEOUT_MS + 1, cool |-> cool, since |-> since,
     rebuilt |-> {},
     ch |-> [c \in 0..N |-> [NoChannel EXCEPT !.flags =
                {"opening"} \cup (IF c = 0 THEN {} ELSE {"present"})]],
     state |-> "Multiplexing", closeIn |-> 0, localIn |-> 0, tx |-> TRUE]

Init == m = Begin(0, ESCALATION_MS)

\* Runtime::close_all with Session::reset_after_transport_close: only the
\* pause of channel 0 and the time of the next rebuild are kept.
CloseAll(s, state) ==
    [s EXCEPT !.state = state, !.phase = "Idle", !.unresolved = 0,
              !.done = FALSE, !.setupIn = 0, !.closeIn = 0, !.localIn = 0,
              !.tx = FALSE,
              !.ch = [c \in 0..N |-> [NoChannel EXCEPT !.flags =
                         IF c = 0 THEN s.ch[0].flags \cap {"peerPaused"} ELSE {}]]]

-----------------------------------------------------------------------------
(* Session *)

\* resolve: one fewer answer is awaited; the last one makes the mux ready.
Resolve(s) ==
    IF s.unresolved = 0 THEN s
    ELSE LET r == [s EXCEPT !.unresolved = @ - 1]
         IN IF r.unresolved = 0 /\ ~r.done
            THEN [r EXCEPT !.done = TRUE, !.phase = "Running", !.ready = TRUE]
            ELSE r

\* close_endpoint: the terminal goes with the bytes it had not taken.
CloseEndpoint(s, c) ==
    [Clear(s, c, {"present", "peerPaused", "localPaused"}) EXCEPT !.ch[c].pend = 0]

\* Mutant of RecoverChannel: the retry is not scheduled.
RecoverNever(s, c) ==
    [Clear(s, c, {"peerPaused", "localPaused", "refused", "opening", "disconnecting"})
       EXCEPT !.ch[c].pend = 0, !.ch[c].tried = 0]

\* Mutant of RecoverChannel: the bytes the terminal had not taken are kept.
RecoverKeepsPending(s, c) ==
    [Clear(s, c, {"peerPaused", "localPaused", "refused", "opening", "disconnecting"})
       EXCEPT !.ch[c].tried = 0,
              !.ch[c].retry = IF @ = 0 THEN RETRY_MS + 1 ELSE @]

\* recover_channel: the terminal stays, its pending bytes are dropped, and
\* the channel is asked for again after RETRY_MS.
RecoverChannel(s, c) ==
    [Clear(s, c, {"peerPaused", "localPaused", "refused", "opening", "disconnecting"})
       EXCEPT !.ch[c].pend = 0, !.ch[c].tried = 0,
              !.ch[c].retry = IF @ = 0 THEN RETRY_MS + 1 ELSE @]

Drop(s, c) == IF Recovery THEN RecoverChannel(s, c) ELSE CloseEndpoint(s, c)

Closed(s, c) == [Clear(s, c, {"open"}) EXCEPT !.ch[c].told = FALSE]

\* receive, UA
ReceiveUA(s, c) ==
    IF Is(s, c, "open")
    THEN IF Is(s, c, "disconnecting") THEN Clear(Closed(s, c), c, {"disconnecting"}) ELSE s
    ELSE IF Is(s, c, "opening")
    THEN LET r == [Set(Clear(s, c, {"opening"}), c, {"open"}) EXCEPT !.ch[c].retry = 0]
         IN IF r.ch[c].attempts = 0 THEN Resolve(r) ELSE r
    ELSE Clear(s, c, {"disconnecting"})

\* Mutant of ReceiveDM: a refused channel is answered twice.
ReceiveDMTwice(s, c) ==
    IF Is(s, c, "open")
    THEN IF c = 0 THEN [Clear(Closed(s, c), c, {"disconnecting"}) EXCEPT !.phase = "PeerClosing"]
         ELSE Drop(Clear(Closed(s, c), c, {"disconnecting"}), c)
    ELSE IF c = 0 THEN [s EXCEPT !.phase = "Closing"]
    ELSE IF Is(s, c, "opening") THEN Resolve(Set(Clear(s, c, {"opening"}), c, {"refused"}))
    ELSE s

\* receive, DM: a channel being retried waits for the next try; an open one
\* is dropped; one that was never open is refused.
ReceiveDM(s, c) ==
    IF Recovery /\ c # 0 /\ s.ch[c].retry # 0 THEN Clear(s, c, {"opening"})
    ELSE IF Is(s, c, "open")
    THEN LET r == Clear(Closed(s, c), c, {"disconnecting"})
         IN IF c = 0 THEN [r EXCEPT !.phase = "PeerClosing"] ELSE Drop(r, c)
    ELSE IF c = 0 THEN [s EXCEPT !.phase = "Closing"]
    ELSE IF Is(s, c, "opening") THEN Resolve(Set(Clear(s, c, {"opening"}), c, {"refused"}))
    ELSE s

\* receive, SABM: `opens` says whether a missing terminal can be opened.
ReceiveSABM(s, c, opens) ==
    IF c # 0 /\ ~Is(s, c, "present") /\ ~opens THEN Transmit(s)
    ELSE LET p == IF c # 0 /\ ~Is(s, c, "present")
                  THEN Set(Clear(s, c, {"localPaused", "peerPaused"}), c, {"present"})
                  ELSE s
             q == [Set(Clear(p, c, {"disconnecting", "refused", "reported", "opening"}), c, {"open"})
                     EXCEPT !.ch[c].retry = 0]
         IN Transmit(IF Is(s, c, "opening") /\ s.ch[c].attempts = 0 THEN Resolve(q) ELSE q)

\* receive, DISC
ReceiveDISC(s, c) ==
    IF ~Is(s, c, "open") THEN Transmit(s)
    ELSE LET r == Transmit(Closed(s, c))
         IN IF c = 0 THEN [r EXCEPT !.phase = "PeerClosing"] ELSE Drop(r, c)

\* set_local_pause: the modem is told only of a change.
SetLocalPause(s, c, paused) ==
    IF Is(s, c, "localPaused") = paused THEN s
    ELSE LET r == Transmit([s EXCEPT !.ch[c].told = paused])
         IN IF paused THEN Set(r, c, {"localPaused"}) ELSE Clear(r, c, {"localPaused"})

\* recreate_endpoint: a fresh terminal; a pause the old one caused is undone.
RecreateEndpoint(s, c) ==
    LET r == IF Is(s, c, "localPaused") THEN Transmit([s EXCEPT !.ch[c].told = FALSE]) ELSE s
    IN Set(CloseEndpoint(r, c), c, {"present"})

-----------------------------------------------------------------------------
(* Runtime *)

\* peer_close
PeerClose(s) ==
    [s EXCEPT !.phase = "PeerClosing", !.closeIn = CLOSE_FLUSH_MS + 1, !.state = "PeerClosing"]

\* request_disconnect on every open channel, then wait for the answers.
DisconnectAll(s) ==
    LET open == {c \in Channels : Is(s, c, "open")}
    IN [s EXCEPT !.ch = [c \in 0..N |-> IF c \in open
                            THEN [@[c] EXCEPT !.flags = @ \cup {"disconnecting"}] ELSE @[c]],
                 !.tx = @ \/ open # {},
                 !.localIn = LOCAL_CLOSE_MS + 1]

\* recovery_tick for one channel; after ATTEMPTS tries the whole connection
\* is rebuilt (rebuilt = {c}), or the channel waits until that is allowed.
TryChannel(s, c) ==
    IF s.rebuilt # {} \/ ~Due(s.ch[c].retry) THEN s
    ELSE IF s.ch[c].attempts = ATTEMPTS
    THEN LET r == Clear(s, c, {"opening"})
         IN IF s.cool = 0 THEN [r EXCEPT !.cool = ESCALATION_MS, !.since = 0, !.rebuilt = {c}]
            ELSE [r EXCEPT !.ch[c].retry = s.cool + 1]
    ELSE Transmit([Set(s, c, {"opening"}) EXCEPT
              !.ch[c].attempts = @ + 1, !.ch[c].tried = @ + 1,
              !.ch[c].retry = RETRY_MS + 1])

RecoveryTick(s) ==
    LET after[c \in 0..N] == IF c = 0 THEN s ELSE TryChannel(after[c - 1], c)
        r == after[N]
    IN IF r.rebuilt # {} THEN DisconnectAll(r) ELSE r

\* The wait of a local close ends with its deadline or its last answer; the
\* multiplexer close-down message follows.
LocalClosing(s) ==
    IF s.state = "Multiplexing" /\ s.localIn # 0
         /\ (Due(s.localIn) \/ ~(\E c \in 0..N : Is(s, c, "disconnecting")))
    THEN PeerClose(Transmit([s EXCEPT !.localIn = 0])) ELSE s

\* Mutant of Timers: setup has no deadline.
TimersNoSetup(s) ==
    IF s.state = "PeerClosing" /\ Due(s.closeIn) THEN CloseAll(s, "Closed")
    ELSE IF s.state # "Multiplexing" THEN s
    ELSE LocalClosing(IF s.localIn = 0 THEN RecoveryTick(s) ELSE s)

\* The part of run_turn before the events.
Timers(s) ==
    IF s.state = "PeerClosing" /\ Due(s.closeIn) THEN CloseAll(s, "Closed")
    ELSE IF s.state # "Multiplexing" THEN s
    ELSE IF s.phase \notin {"Closing", "PeerClosing"} /\ ~s.done /\ Due(s.setupIn)
    THEN CloseAll(s, "Failed")
    ELSE LocalClosing(IF s.localIn = 0 THEN RecoveryTick(s) ELSE s)

\* The part of run_turn after the events; `flushed` says whether the serial
\* port took everything.
Flush(s, flushed) ==
    IF s.state \notin {"Multiplexing", "PeerClosing"} THEN s
    ELSE LET r == [s EXCEPT !.tx = @ /\ ~flushed]
         IN IF r.state = "PeerClosing" /\ (~r.tx \/ Due(r.closeIn)) THEN CloseAll(r, "Closed") ELSE r

\* frames, after dispatch: the modem closes, or channel 0 was refused.
AfterDispatch(s) ==
    IF s.phase = "PeerClosing" THEN PeerClose(s)
    ELSE IF s.phase # "Closing" THEN s
    ELSE IF ~Recovery THEN CloseAll(s, "Failed")
    ELSE IF s.localIn = 0 THEN DisconnectAll(s) ELSE s

\* PendingQueue::buffer_remainder, with the frame's rest as one unit: a queue
\* that holds something takes it up to PENDING, else it is discarded.
BufferRemainder(pend) == IF pend # 0 /\ pend + 1 > PENDING THEN pend ELSE pend + 1

\* deliver and what dispatch does with its result; `pty` is what the terminal
\* does with the write.
Deliver(s, c, pty) ==
    IF ~Is(s, c, "present") \/ (Recovery /\ ~Is(s, c, "open")) THEN s
    ELSE IF s.ch[c].pend # 0
    THEN SetLocalPause([s EXCEPT !.ch[c].pend = BufferRemainder(@)], c, TRUE)
    ELSE IF pty = "takes" THEN s
    ELSE IF pty = "blocks" THEN SetLocalPause([s EXCEPT !.ch[c].pend = BufferRemainder(@)], c, TRUE)
    ELSE RecreateEndpoint(s, c)

\* apply_peer_signals
PeerSignals(s, c, paused) ==
    IF ~Is(s, c, "open") THEN s
    ELSE IF paused THEN Set(s, c, {"peerPaused"}) ELSE Clear(s, c, {"peerPaused"})

\* mcc::prepare: what a control message of the modem does to the connection
\* and whether it is answered.  Requests are echoed, or called unsupported;
\* responses are not answered.  A malformed one ends the turn (Faulted).
Prepare(kind) ==
    [effect |-> IF kind \in {"CLD", "pause", "resume"} THEN kind ELSE "None",
     reply |-> kind # "response"]

\* The control message's part of dispatch: the reply, then the effect.
Control(s, c, outcome) ==
    LET r == IF outcome.reply THEN Transmit(s) ELSE s
    IN CASE outcome.effect = "CLD" -> [r EXCEPT !.phase = "PeerClosing"]
         [] outcome.effect \in {"pause", "resume"} -> PeerSignals(r, c, outcome.effect = "pause")
         [] OTHER -> r

\* receive: while a local close waits, only UA is looked at.
Dispatch(s, kind, c, env) ==
    IF s.state # "Multiplexing" \/ (s.localIn # 0 /\ kind # "UA") THEN s
    ELSE IF s.phase = "Closing"
    THEN IF Recovery /\ kind = "UA" /\ Is(s, c, "disconnecting")
         THEN Clear(Closed(s, c), c, {"disconnecting"}) ELSE s
    ELSE AfterDispatch(
         CASE kind = "UA"     -> ReceiveUA(s, c)
           [] kind = "DM"     -> ReceiveDM(s, c)
           [] kind = "SABM"   -> ReceiveSABM(s, c, env # "fails")
           [] kind = "DISC"   -> ReceiveDISC(s, c)
           [] kind = "UIH"    -> Deliver(s, c, env)
           [] OTHER           -> Control(s, c, Prepare(kind)))

\* can_read_endpoint and the polling rule of a lost channel.
Polled(s, c) ==
    /\ s.state = "Multiplexing" /\ s.localIn = 0
    /\ Is(s, c, "present")
    /\ Recovery => (Is(s, c, "open") \/ Is(s, c, "refused"))

CanRead(s, c) ==
    /\ s.phase \in {"Setup", "Running"} /\ s.done
    /\ Is(s, c, "open") \/ Is(s, c, "refused")
    /\ ~Is(s, c, "peerPaused")

\* read_channel: what an application wrote is forwarded, or dropped when the
\* channel was refused.
ReadChannel(s, c) ==
    IF ~CanRead(s, c) THEN s
    ELSE IF Is(s, c, "refused") THEN Set(s, c, {"reported"}) ELSE Transmit(s)

\* transport::drain: the writer takes all of it, or some of it and blocks.
Drained(pend, pty) == IF pty = "takes" THEN 0 ELSE IF pend > 1 THEN pend - 1 ELSE pend

\* Mutant of DrainChannel: the modem is not told that the bytes are gone.
DrainSilently(s, c, pty) ==
    CASE pty \in {"takes", "blocks"} -> [s EXCEPT !.ch[c].pend = Drained(@, pty)]
      [] OTHER -> RecreateEndpoint(s, c)

\* drain_channel: the terminal takes everything, or some, or fails.
DrainChannel(s, c, pty) ==
    CASE pty = "takes" -> SetLocalPause([s EXCEPT !.ch[c].pend = Drained(@, pty)], c, FALSE)
      [] pty = "blocks" -> [s EXCEPT !.ch[c].pend = Drained(@, pty)]
      [] OTHER -> RecreateEndpoint(s, c)

-----------------------------------------------------------------------------
Active == m.state \in {"Multiplexing", "PeerClosing"}
Kinds == {"UA", "DM", "SABM", "DISC", "UIH", "CLD", "pause", "resume", "request", "response"}
Ptys == {"takes", "blocks", "fails"}

Frame(kind, c, env, flushed) ==
    /\ m.state = "Multiplexing"
    /\ kind \in {"CLD", "request", "response"} => c = 0
    /\ kind \in {"UIH", "pause", "resume"} => c # 0
    /\ kind \notin {"UIH", "SABM"} => env = "takes"
    /\ m' = Flush(Dispatch(Timers(m), kind, c, env), flushed)

TerminalReadable(c, flushed) ==
    /\ Active /\ Polled(Timers(m), c)
    /\ m' = Flush(ReadChannel(Timers(m), c), flushed)

TerminalWritable(c, pty, flushed) ==
    /\ Active /\ Polled(Timers(m), c) /\ Timers(m).ch[c].pend # 0
    /\ m' = Flush(DrainChannel(Timers(m), c, pty), flushed)

TerminalHangup(c, flushed) ==
    /\ Active /\ Polled(Timers(m), c)
    /\ m' = Flush(RecreateEndpoint(Timers(m), c), flushed)

Quiet(flushed) == Active /\ m' = Flush(Timers(m), flushed)

Faulted == Active /\ m' = CloseAll(m, "Failed")

\* Mutant of Restart: the new connection may be rebuilt at once.
RestartForgets == ~Active /\ m' = Begin(0, IF m.state = "Closed" THEN m.since ELSE ESCALATION_MS)

\* Service::observed and open: a closed connection is followed by a new one
\* that keeps the time of the next rebuild; after a failure the daemon exits
\* and its successor knows nothing.
Restart ==
    /\ ~Active
    /\ m' = IF m.state = "Closed" THEN Begin(m.cool, m.since) ELSE Begin(0, ESCALATION_MS)

Less(timer) == IF timer > 1 THEN timer - 1 ELSE timer

Tick ==
    /\ m' = [m EXCEPT !.setupIn = Less(@), !.closeIn = Less(@), !.localIn = Less(@),
                      !.cool = IF @ > 0 THEN @ - 1 ELSE 0,
                      !.since = IF @ < ESCALATION_MS THEN @ + 1 ELSE @,
                      !.ch = [c \in 0..N |-> [@[c] EXCEPT !.retry = Less(@)]]]
    /\ m' # m

Next ==
    \/ \E k \in Kinds, c \in 0..N, e \in Ptys, f \in BOOLEAN : Frame(k, c, e, f)
    \/ \E c \in Channels, f \in BOOLEAN : TerminalReadable(c, f)
    \/ \E c \in Channels, p \in Ptys, f \in BOOLEAN : TerminalWritable(c, p, f)
    \/ \E c \in Channels, f \in BOOLEAN : TerminalHangup(c, f)
    \/ \E f \in BOOLEAN : Quiet(f)
    \/ Faulted
    \/ Restart
    \/ Tick

Spec == Init /\ [][Next]_m

-----------------------------------------------------------------------------
\* Setup waits for exactly the channels that have not answered their first
\* SABM, and is over when none is left: no answer, refusal or early SABM of
\* the modem is counted twice or missed (session.rs resolve).
SetupExact ==
    m.phase \in {"Setup", "Running"} =>
        /\ m.unresolved = Cardinality({c \in 0..N : Is(m, c, "opening") /\ m.ch[c].attempts = 0})
        /\ m.done <=> m.unresolved = 0
        /\ m.done <=> m.phase = "Running"

\* While the connection runs, a channel is open, refused, answered for the
\* first time yet, or (with recovery) scheduled to be asked for again, and
\* the first two exclude the others: no lost channel is forgotten and none
\* that works is asked for again.  Without recovery a lost channel has no
\* terminal (session.rs receive, recovery_tick).
NoChannelForgotten ==
    (m.state = "Multiplexing" /\ m.localIn = 0) =>
        \A c \in Channels :
            LET open == Is(m, c, "open")
                refused == Is(m, c, "refused")
                first == Is(m, c, "opening") /\ m.ch[c].attempts = 0
                lost == IF Recovery THEN m.ch[c].retry # 0 ELSE ~Is(m, c, "present")
            IN /\ open \/ refused \/ first \/ lost
               /\ ~(open /\ (refused \/ first \/ lost))
               /\ ~(refused /\ (first \/ m.ch[c].retry # 0))

\* A terminal holds bytes it has not taken exactly while the channel is
\* locally paused, and an open channel's pause is what the modem was last
\* told: no pause outlives its bytes, whatever was dropped, recreated or
\* recovered in between (runtime.rs deliver and drain_channel, session.rs
\* set_local_pause and recreate_endpoint).
FlowCoherent ==
    \A c \in Channels :
        /\ m.ch[c].pend \in 0..PENDING
        /\ Is(m, c, "localPaused") <=> m.ch[c].pend # 0
        /\ Is(m, c, "open") => (m.ch[c].told <=> Is(m, c, "localPaused"))

\* The connection is rebuilt at most once per ESCALATION_MS: when a rebuild
\* begins, none has begun for that long, restarts of the connection
\* included (recovery_tick, recovery_cooldown, Service::observed).
RebuildSpaced == (m.rebuilt = {} /\ m'.rebuilt # {}) => m.since = ESCALATION_MS

\* Setup does not last: it ends with a running, closing or failed connection
\* (poll_timeout).
SetupEnds == (m.phase = "Setup") ~> (m.phase # "Setup")

\* A connection that is being closed, by the modem or after too many lost
\* channels, is gone after its deadlines (close_at, local_close_at).
ClosingEnds == (Active /\ (m.localIn # 0 \/ m.closeIn # 0)) ~> ~Active

\* A paused modem is told to go on once the terminal is read: flow control
\* never stops a channel for good (drain_channel).
FlowResumes ==
    \A c \in Channels : Is(m, c, "localPaused") ~> ~Is(m, c, "localPaused")

\* The connection is rebuilt only after the lost channel was asked for
\* ATTEMPTS times since it was lost, which is what the test
\* recovery_retries_three_times_keeps_endpoints_and_limits_rebuilds names.
RetriedBeforeRebuild == \A c \in m.rebuilt : m.ch[c].tried = ATTEMPTS
=============================================================================
