----------------------------- MODULE MCLiveness -----------------------------
(* TLC instance for what must eventually happen: in the radio runtime, in    *)
(* the modem service, in a multiplexer connection and its startup chat, in   *)
(* the Wi-Fi calling agent's data thread and in the fingerprint bridge.      *)
(* `part` is the one that runs.  The bounds are smaller than in the runs     *)
(* that check the same components for safety.                                *)
EXTENDS MuxSession, Sequences

VARIABLES
    part,
    q, stopped, wake, wakers, pc, hand, taken, core, conn, due, wait, signals, seen,
    chat, pipe, modem,
    pending, answers, radio, power, ready, next, trouble,
    relay,
    mem, job, disk, durable, told, real, saved, faults, crashes, resets,
    session, batch, worker, hal, binder, answered, mode, count

runtimeVars ==
    <<q, stopped, wake, wakers, pc, hand, taken, core, conn, due, wait, signals, seen>>
chatVars == <<chat, pipe, modem>>
serviceVars == <<pending, answers, radio, power, ready, next, trouble>>
lockoutVars == <<mem, job, disk, durable, told, real, saved, faults, crashes, resets>>
sessionVars == <<session, batch, worker, hal, binder, answered, mode, count>>

Runtime == INSTANCE RadioRuntime
    WITH SUBMISSION_CAPACITY <- 1, ACCEPTED_LIMIT <- 1, OUTPUT_CAPACITY <- 1,
         SUBMIT_TURN <- 1, MAX_BACKOFF <- 1, WakeFails <- FALSE, MaxId <- 1,
         MaxSignals <- 0, MaxResets <- 1, modem <- signals
Chat == INSTANCE MuxChat
    WITH READY_WAIT_MS <- 2, COMMAND_TIMEOUT_MS <- 3, SETTLE_MS <- 2,
         TOKEN_SETTLE_MS <- 1, MaxFrames <- 0, MaxNoise <- 0
Service == INSTANCE ModemService
    WITH Reads <- {"slots"}, SLOT_ATTEMPTS <- 3, MaxSerial <- 2, MaxTrouble <- 1
Relay == INSTANCE WfcaRelay WITH UlCap <- 1, DlCap <- 1, MaxMedia <- 1, s <- relay
Lockout == INSTANCE Lockout
    WITH TIMED <- 1, PERMANENT <- 2, LOCK_TICKS <- 1, MaxFaults <- 1, MaxCrashes <- 1, MaxResets <- 0
Session == INSTANCE FingerprintSession
    WITH Batches <- {<<1, 2>>}, Fingers <- 1 .. 2, MaxStarts <- 1, MaxListed <- 0,
         s <- session, told <- answered

vars == <<part, runtimeVars, m, chatVars, serviceVars, relay, lockoutVars, sessionVars>>

MCInit ==
    /\ part \in {"runtime", "mux", "chat", "service", "relay", "lockout", "session"}
    /\ Runtime!Init /\ Init /\ Chat!Init /\ Service!Init
    /\ Relay!Init /\ Lockout!Init /\ Session!Init
    /\ part # "chat" => ~chat.pin
    /\ session.active

\* A step of one part leaves the others alone.
OfRuntime(A) ==
    part = "runtime" /\ A
    /\ UNCHANGED <<part, m, chatVars, serviceVars, relay, lockoutVars, sessionVars>>
OfMux(A) ==
    part = "mux" /\ A
    /\ UNCHANGED <<part, runtimeVars, chatVars, serviceVars, relay, lockoutVars, sessionVars>>
OfChat(A) ==
    part = "chat" /\ A
    /\ UNCHANGED <<part, runtimeVars, m, serviceVars, relay, lockoutVars, sessionVars>>
OfService(A) ==
    part = "service" /\ A
    /\ UNCHANGED <<part, runtimeVars, m, chatVars, relay, lockoutVars, sessionVars>>
OfRelay(A) ==
    part = "relay" /\ A
    /\ UNCHANGED <<part, runtimeVars, m, chatVars, serviceVars, lockoutVars, sessionVars>>
OfLockout(A) ==
    part = "lockout" /\ A
    /\ UNCHANGED <<part, runtimeVars, m, chatVars, serviceVars, relay, sessionVars>>
OfSession(A) ==
    part = "session" /\ A
    /\ UNCHANGED <<part, runtimeVars, m, chatVars, serviceVars, relay, lockoutVars>>

MCNext ==
    \/ OfRuntime(Runtime!Next) \/ OfMux(Next) \/ OfChat(Chat!Next) \/ OfService(Service!Next)
    \/ OfRelay(Relay!Next) \/ OfLockout(Lockout!Next) \/ OfSession(Session!Next)

\* The runtime's threads run, also the one that calls wake() after an unlock.
\* The daemon turns in a loop while a connection is active (Service::step), time
\* passes, and an application reads its terminal.  A modem that is up answers the
\* chat, and the engine completes each command it took (module AtEngine).
\* The agent's data thread runs.  init restarts the fingerprint service, the kernel
\* ends a write, time passes and the worker of the tracker wakes up at the deadline;
\* the worker of a removal runs, and the library ends each remove() and each removal
\* it accepted.
MCSpec ==
    /\ MCInit /\ [][MCNext]_vars
    /\ WF_vars(OfRuntime(Runtime!ClientWake)) /\ WF_vars(OfRuntime(Runtime!OtherWake))
    /\ WF_vars(OfRuntime(Runtime!NextBatch)) /\ WF_vars(OfRuntime(Runtime!ReactorStep))
    /\ WF_vars(OfRuntime(Runtime!Elapse))
    /\ WF_vars(OfMux(\E f \in BOOLEAN : Quiet(f))) /\ WF_vars(OfMux(Tick))
    /\ WF_vars(OfMux(\E f \in BOOLEAN : TerminalWritable(1, "takes", f)))
    /\ WF_vars(OfChat(Chat!Tick)) /\ WF_vars(OfChat(Chat!ModemAnswers))
    /\ WF_vars(OfChat(\E read \in 0 .. Len(pipe) : Chat!Turn(read, FALSE)))
    /\ WF_vars(OfService(\E k \in 1 .. 2 :
          \E result \in {"value", "empty", "busy", "refused"} : Service!Completed(k, result)))
    /\ WF_vars(OfRelay(Relay!DataThread))
    /\ WF_vars(OfLockout(Lockout!Start(TRUE))) /\ WF_vars(OfLockout(Lockout!Write))
    /\ WF_vars(OfLockout(Lockout!Tick)) /\ WF_vars(OfLockout(Lockout!Expire))
    /\ WF_vars(OfSession(Session!Wake)) /\ WF_vars(OfSession(Session!Dispatch))
    /\ WF_vars(OfSession(Session!Complete)) /\ WF_vars(OfSession(Session!Cancel))
    /\ WF_vars(OfSession(\E b \in BOOLEAN : Session!Removed(b)))
    /\ WF_vars(OfSession(Session!LibraryReports))

\* Every accepted request reaches the consumer and a stopped runtime ends: no
\* wake-up is lost (runtime/lib.rs submit, next_batch_wait, stop); and the modem
\* service answers every request, the retries of a busy SIM included.
EveryRequestAnswered ==
    /\ Runtime!EveryRequestAnswered /\ Runtime!StopsInTheEnd
    /\ part = "service" => Service!ModemAnswers

\* Setup and closing of a multiplexer connection end by their deadlines, and the
\* startup chat ends in a connection or in a failure (runtime.rs run_turn,
\* chat.rs tick).
BringUpEnds ==
    /\ part = "mux" => SetupEnds /\ ClosingEnds
    /\ part = "chat" => Chat!ChatEnds

=============================================================================
