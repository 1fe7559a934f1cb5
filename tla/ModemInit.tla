----------------------------- MODULE ModemInit -----------------------------
(***************************************************************************)
(* The modem's boot daemon (modem/ccci-userspace/mdinit/ccci_mdinit.c):    *)
(* it starts the modem, waits for it, and then answers the kernel's        *)
(* monitor messages one after the other, restarting the modem with a       *)
(* growing delay when it fails.  Other daemons follow the modem by the     *)
(* status property it sets.                                                *)
(***************************************************************************)
EXTENDS Integers, Sequences, FiniteSets

CONSTANTS Retries,       \* NVRAM_READY_MAX_RETRY
          PollTurns,     \* reads of the state in poll_md_state_until_ready
          GiveUp,        \* RESTART_GIVEUP_COUNT
          BaseMs, MaxMs, \* RESTART_BACKOFF_BASE_MS and _MAX_MS, in the same unit
          MaxEvents      \* what the modem and its users do in the model

VARIABLE s

\* at: what the daemon is doing; n, its turns of waiting.  md, the modem as
\* the kernel sees it; queue, messages of the monitor; cause,
\* why the last start was asked for, and whether that was in flight mode.
Init == s = [at |-> "open", n |-> 0, status |-> "none", flight |-> FALSE, failures |-> 0,
             md |-> "off", queue |-> <<>>, sbp |-> 0, held |-> FALSE,
             delay |-> 0, cause |-> <<"none", FALSE>>, failedStarts |-> 0, events |-> 0]

SetStatus(t, v) == [t EXCEPT !.status = v]

\* main(): the two ports it cannot do without, then what it reports to the
\* kernel, none of which stops the boot.
OpenPorts(ok) ==
  /\ s.at = "open"
  /\ s' = [SetStatus(s, "invalid") EXCEPT !.at = IF ok THEN "nvram" ELSE "exit", !.held = ok]

\* nvram_sync_step: a bounded wait for the other daemon's property; without
\* it, or without the file, the modem boots with code 0.
NvramWait(ready, code) ==
  /\ s.at = "nvram"
  /\ s' = IF ready THEN [s EXCEPT !.at = "type", !.n = 0, !.sbp = code]
          ELSE IF s.n + 1 < Retries THEN [s EXCEPT !.n = @ + 1]
          ELSE [s EXCEPT !.at = "type", !.n = 0]

\* store_md_type, log_md_info, time_srv_init and set_boot_data: each may fail
\* and none of them stops the boot.
BootData == /\ s.at = "type" /\ s' = [s EXCEPT !.at = "start"]

\* do_start_md and do_stop_md: the kernel may refuse either, and refuses a start
\* while the modem runs.
Accepts(t, ok) == ok /\ t.md \notin {"booting", "ready"}
Started(t, ok, cause) == [t EXCEPT !.md = IF Accepts(t, ok) THEN "booting" ELSE @, !.cause = <<cause, t.flight>>]
Stopped(t, ok) == IF ok THEN [t EXCEPT !.md = "off"] ELSE t

FirstStart(ok) ==
  /\ s.at = "start"
  /\ s' = [Started(s, ok, "boot") EXCEPT !.at = IF ok THEN "poll" ELSE "loop"]

PollState ==
  /\ s.at = "poll"
  /\ s' = CASE s.md = "ready" -> [SetStatus(s, "ready") EXCEPT !.at = "loop", !.n = 0]
            [] s.md = "exception" -> [SetStatus(s, "exception") EXCEPT !.at = "loop", !.n = 0]
            [] OTHER -> IF s.n + 1 < PollTurns THEN [s EXCEPT !.n = @ + 1]
                        ELSE [s EXCEPT !.at = "loop", !.n = 0]

\* Twice as long for every start that failed in a row, within a limit.
Backoff(failures) ==
  LET d == BaseMs * 2 ^ failures IN IF d > MaxMs THEN MaxMs ELSE d

\* restart_md_with_backoff up to its sleep; after too many failures the modem
\* is left as it is.
Restart(t, ok) ==
  IF t.failures >= GiveUp THEN SetStatus(t, "reset")
  ELSE [Stopped(SetStatus(t, "reset"), ok) EXCEPT !.at = "sleep", !.delay = Backoff(t.failures)]

\* Mutant of Sleeps: the modem is started in flight mode too.
SleepsAnyway(ok) ==
  /\ s.at = "sleep"
  /\ LET t == [Started(s, ok, "restart") EXCEPT !.at = "loop", !.delay = 0]
     IN s' = IF ok THEN [SetStatus(t, "invalid") EXCEPT !.failures = 0, !.failedStarts = 0]
             ELSE [t EXCEPT !.failures = @ + 1, !.failedStarts = @ + 1]

\* The rest of it, after the sleep.
Sleeps(ok) ==
  /\ s.at = "sleep"
  /\ LET t == [s EXCEPT !.at = "loop", !.delay = 0]
         u == Started(t, ok, "restart")
     IN s' = IF s.flight THEN t
             ELSE IF Accepts(t, ok) THEN [SetStatus(u, "invalid") EXCEPT !.failures = 0, !.failedStarts = 0]
             ELSE [u EXCEPT !.failures = @ + 1, !.failedStarts = @ + 1]

\* A start that another asked for, FORCE_START or the end of flight mode.
StartNow(t, ok, cause) ==
  LET u == Started(t, ok, cause) IN IF Accepts(t, ok) THEN SetStatus(u, "invalid") ELSE u

\* handle_monitor_message: battery, type, pattern and unknown messages change
\* nothing.
Handle(msg, ok) ==
  /\ s.at = "loop" /\ s.queue # <<>> /\ Head(s.queue) = msg
  /\ LET t == [s EXCEPT !.queue = Tail(@)]
     IN s' = CASE msg = "reset_request" -> Restart(t, ok)
               [] msg = "exception" -> Restart(SetStatus(t, "exception"), ok)
               [] msg = "force_stop" -> SetStatus(Stopped(t, ok), "reset")
               [] msg = "force_start" -> StartNow(t, ok, "force")
               [] msg = "flight_stop" -> SetStatus(Stopped([t EXCEPT !.flight = TRUE], ok), "reset")
               [] msg = "flight_start" -> StartNow([t EXCEPT !.flight = FALSE], ok, "flight")
               [] OTHER -> t

\* SIGTERM, or a monitor that cannot be read, ends the loop; closing the monitor
\* makes the kernel stop the modem.
Terminate ==
  /\ s.at = "loop"
  /\ s' = [Stopped(s, TRUE) EXCEPT !.at = "exit", !.held = FALSE]

-----------------------------------------------------------------------------
\* The modem and those that ask the kernel for something (external).
Send(t, msg) == [t EXCEPT !.queue = Append(@, msg)]
Event(t) == [t EXCEPT !.events = @ + 1]

ModemReady == /\ s.md = "booting" /\ s' = [s EXCEPT !.md = "ready"]
ModemFails == /\ s.md \in {"booting", "ready"} /\ s.events < MaxEvents
              /\ s' = Event(Send([s EXCEPT !.md = "exception"], "exception"))
Asked(msg) == /\ s.held /\ s.events < MaxEvents
              /\ s' = Event(Send(s, msg))

Messages == {"reset_request", "exception", "force_stop", "force_start", "flight_stop", "flight_start", "other"}

Daemon ==
  \/ \E ok \in BOOLEAN : OpenPorts(ok) \/ FirstStart(ok) \/ Sleeps(ok)
  \/ \E ready \in BOOLEAN, code \in {0, 1} : NvramWait(ready, code)
  \/ PollState \/ BootData
  \/ \E msg \in Messages, ok \in BOOLEAN : Handle(msg, ok)

Next ==
  \/ Daemon \/ Terminate \/ ModemReady \/ ModemFails
  \/ \E msg \in Messages \ {"exception"} : Asked(msg)

\* The daemon goes on as long as there is something for it to do.
Spec == Init /\ [][Next]_s /\ WF_s(Daemon)

-----------------------------------------------------------------------------
\* A modem the property calls ready is, or the message that will say
\* otherwise is in the queue: none is lost while the daemon boots, sleeps
\* between a stop and a start, or is on the way to setting the property.
StatusHonest ==
  s.status = "ready" /\ s.md # "ready" => s.queue # <<>> \/ s.at = "exit"

\* The daemon starts the modem by itself only outside flight mode, and after
\* GiveUp starts in a row that failed it does so no more; it never sleeps
\* for longer than the limit.
RestartsBounded ==
  /\ s.failedStarts <= GiveUp
  /\ s.delay <= MaxMs
  /\ s.cause # <<"restart", TRUE>>

\* The comments at set_md_status_prop and in restart_md_with_backoff: a boot leaves
\* the status property at "invalid" until the READY transition.  A modem that is
\* ready and stays so is in the end called ready.
ReadyReported == <>[](s.md = "ready" /\ s.at = "loop" /\ s.queue = <<>>) => <>[](s.status = "ready")
=============================================================================
