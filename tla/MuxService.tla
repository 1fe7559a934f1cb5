----------------------------- MODULE MuxService -----------------------------
(***************************************************************************)
(* The life of the gsm0710muxd process: Service (service.rs) opens the     *)
(* connection, restarts it when it closes, asks for a modem report when it *)
(* fails, and publishes through Android properties what the rest of the    *)
(* system waits for (Publication).  The connection itself is the module    *)
(* MuxSession; here it is a driver whose step may report any result.  The  *)
(* property store is external and may reject a write at any time.          *)
(***************************************************************************)
EXTENDS Integers, Sequences

CONSTANTS
    RESTART_DELAY_MS, REPORT_WAIT_MS,
    MaxConns         \* connections opened by one process

VARIABLE sv

Results == {"idle", "ready", "atci", "exception", "closed", "reset", "unsupported",
            "internal", "failed", "error"}

\* driver: the open connection's number, 0 if none.  History: ready, the
\* connection reported ready; ril, the connection the RIL was last started
\* or restarted for; stages, the report stages published; age, the ticks
\* since the last; early, whether one was published with a driver open.
Init ==
    sv = [phase |-> "Starting", exit |-> "none", left |-> 0, driver |-> 0, conns |-> 0,
          initialized |-> FALSE, started |-> FALSE, rejected |-> FALSE,
          ready |-> 0, ril |-> 0, stages |-> <<>>, age |-> 0, early |-> FALSE]

\* PublicationState::set: after one rejection every write fails.
Put(s, accepted) == [s EXCEPT !.rejected = @ \/ ~accepted]

Close(s) == [s EXCEPT !.driver = 0, !.ready = 0]

Finish(s, exit) == [Close(s) EXCEPT !.phase = "Finished", !.exit = exit, !.left = 0]

\* Publication::recover
Report(s, stage, accepted) ==
    IF ~s.initialized THEN s
    ELSE IF s.rejected \/ ~accepted THEN Put(s, FALSE)
    ELSE [s EXCEPT !.stages = Append(@, stage), !.age = 0, !.early = @ \/ s.driver # 0]

\* recovery: close, ask for a report, and wait.
Recover(s, accepted) ==
    LET r == Report(Close(s), 1, accepted)
    IN IF r.stages = s.stages THEN Finish(r, "PropertyRejected")
       ELSE [r EXCEPT !.phase = "Recovering", !.left = REPORT_WAIT_MS]

\* failed: what the error of a connection leads to.
Failed(s, error, accepted) ==
    IF s.rejected THEN Finish(s, "PropertyRejected")
    ELSE CASE error = "reset" ->
                LET r == Put(Close(s), accepted)
                IN Finish(r, IF accepted THEN "ModemException" ELSE "PropertyRejected")
           [] error = "unsupported" -> Finish(s, "UnsupportedLocalClose")
           [] error = "internal"    -> Finish(s, "InternalFailure")
           [] OTHER                 -> Recover(s, accepted)

\* Publication::apply(Ready): the RIL is started by the first connection and
\* restarted by every later one.
ApplyReady(s, accepted) ==
    IF s.rejected \/ ~accepted THEN Put(s, accepted)
    ELSE [s EXCEPT !.started = TRUE, !.ready = s.driver, !.ril = s.driver]

\* A driver step with its effects, then observed.  A rejected effect makes
\* the runtime fail in the same step.
Observed(s, result, accepted, again) ==
    LET r == CASE result = "ready" /\ s.ready = 0 -> ApplyReady(s, accepted)
               [] result \in {"atci", "exception"} -> Put(s, accepted)
               [] OTHER -> s
    IN IF r.rejected THEN Failed(r, "failed", again)
       ELSE CASE result = "closed" ->
                   [Close(r) EXCEPT !.phase = "Restarting", !.left = RESTART_DELAY_MS]
              [] result \in {"reset", "unsupported", "internal", "failed"} -> Failed(r, result, again)
              [] result = "error" -> Recover(r, again)
              [] OTHER -> r

\* open: the properties are initialised once, then the port is opened.
Open(s, accepted, opens, again) ==
    IF s.rejected \/ (~s.initialized /\ ~accepted)
    THEN Finish(Put(s, accepted), "PropertyRejected")
    ELSE LET r == [s EXCEPT !.initialized = TRUE]
         IN CASE opens = "refused" -> Recover(r, again)
              [] opens = "failed"  -> Failed(r, "failed", again)
              [] OTHER -> [r EXCEPT !.driver = s.conns + 1, !.conns = @ + 1,
                                    !.phase = "Running", !.left = 0]

-----------------------------------------------------------------------------
Alive == sv.phase # "Finished"

StepStarting(accepted, opens, again) ==
    /\ sv.phase = "Starting"
    /\ sv' = Open(sv, accepted, opens, again)

StepRunning(result, accepted, again) ==
    /\ sv.phase = "Running"
    /\ sv' = Observed(sv, result, accepted, again)

StepRestarting(opens, again) ==
    /\ sv.phase = "Restarting" /\ sv.left = 0
    /\ sv.conns < MaxConns \/ opens # "opened"
    /\ sv' = Open(sv, TRUE, opens, again)

StepRecovering(accepted) ==
    /\ sv.phase = "Recovering" /\ sv.left = 0
    /\ LET r == Report(sv, 2, accepted)
       IN sv' = Finish(r, IF r.stages # sv.stages THEN "RecoveryRequested" ELSE "PropertyRejected")

\* A clock that runs backwards, a failed wait, or an invalid bound.
ClockFails == Alive /\ sv' = Finish(sv, "InternalFailure")

\* SIGTERM or SIGINT
Stop == Alive /\ sv' = Finish(sv, "Stopped")

Tick ==
    /\ Alive /\ (sv.left > 0 \/ sv.age < REPORT_WAIT_MS)
    /\ sv' = [sv EXCEPT !.left = IF @ > 0 THEN @ - 1 ELSE 0,
                        !.age = IF @ < REPORT_WAIT_MS THEN @ + 1 ELSE @]

Done == ~Alive /\ UNCHANGED sv

Step ==
    \/ \E a, g \in BOOLEAN, o \in {"opened", "refused", "failed"} : StepStarting(a, o, g)
    \/ \E a, g \in BOOLEAN, r \in Results : StepRunning(r, a, g)
    \/ \E g \in BOOLEAN, o \in {"opened", "refused", "failed"} : StepRestarting(o, g)
    \/ \E a \in BOOLEAN : StepRecovering(a)

Next == Step \/ ClockFails \/ Stop \/ Tick \/ Done

Spec == Init /\ [][Next]_sv

-----------------------------------------------------------------------------
\* Whenever a connection is ready, the RIL was started or restarted for that
\* very connection (service.rs Publication::apply, restart_ril).
RilFollows == sv.ready # 0 => sv.ril = sv.ready

\* A report is asked for only with the connection closed, stage two follows
\* stage one after REPORT_WAIT_MS, and the process that exits for a report
\* has published both (service.rs recovery, step).
ReportInOrder ==
    /\ ~sv.early
    /\ sv.stages \in {<<>>, <<1>>, <<1, 2>>}
    /\ sv.exit = "RecoveryRequested" <=> sv.stages = <<1, 2>>
    /\ sv.phase = "Recovering" => sv.stages = <<1>> /\ sv.left + sv.age >= REPORT_WAIT_MS

\* Once a property is rejected the process ends in that step, with the
\* connection closed: it never runs on with a world it could not inform
\* (service.rs failed, recovery, open).
RejectionEnds ==
    sv.rejected => sv.phase = "Finished" /\ sv.driver = 0

=============================================================================
