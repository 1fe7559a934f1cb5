----------------------------- MODULE LegacyMux -----------------------------
(***************************************************************************)
(* The multiplexer in C (modem/mux/mindone_mux.c): channels of the modem's *)
(* AT port as pseudo-terminals, their set-up, flow control, recovery and   *)
(* the rebuilding of the session.  Frames are atoms: the framing on the    *)
(* wire and the poll/final bit are left out.                               *)
(***************************************************************************)
EXTENDS Integers, Sequences, FiniteSets

LOCAL INSTANCE SequencesExt

CONSTANTS Chans,            \* the channels but the control channel
          REOPEN_ATTEMPTS,
          TxCap,            \* frames the transmit queue holds
          UpCap,            \* frames on their way from the modem
          MaxSessions

VARIABLE s

All == Chans \cup {"ctl"}

\* struct chan: due, a recovery is scheduled; tries, reopen_attempts; lfc and pfc,
\* we paused the modem and it paused us; pend, bytes wait for the application.
Fresh == [open |-> FALSE, sabm |-> FALSE, disc |-> FALSE, refused |-> FALSE, pfc |-> FALSE, lfc |-> FALSE,
          pend |-> FALSE, tries |-> 0, due |-> FALSE]

\* at: where main is; step: how far the handshake is; state: mux_state; ril: what the RIL was told; dlc and view:
\* the modem's channels and whether it takes each as paused; lost: a frame was dropped.
Init == s = [at |-> "handshake", state |-> "setup", done |-> FALSE, unresolved |-> 0, ch |-> [c \in All |-> Fresh],
             tx |-> <<>>, up |-> <<>>, dlc |-> [c \in All |-> "closed"], view |-> [c \in All |-> FALSE],
             lost |-> FALSE, started |-> FALSE, ril |-> 0, built |-> 0, report |-> 0, sessions |-> 0,
             step |-> "eind"]

\* tx_frame drops what the queue has no room for.
TxFrame(t, f) == IF Len(t.tx) < TxCap THEN [t EXCEPT !.tx = Append(@, f)] ELSE [t EXCEPT !.lost = TRUE]

SendMsc(t, c, fc) == TxFrame(t, <<c, IF fc THEN "pause" ELSE "resume">>)

\* close_all_ptys and close_serial.
CloseAll(t) ==
  [t EXCEPT !.ch = [c \in All |-> Fresh], !.tx = <<>>, !.up = <<>>, !.dlc = [c \in All |-> "closed"],
            !.view = [c \in All |-> FALSE], !.lost = FALSE]

\* report_and_exit up to its wait; the second report follows unless a signal came.
ReportAndExit(t) == [CloseAll(t) EXCEPT !.at = "reporting", !.report = 1]

Reported(signal) ==
  /\ s.at = "reporting"
  /\ s' = [s EXCEPT !.at = "exited", !.report = IF signal THEN @ ELSE 2]

\* A modem in exception, or a signal: nothing is reported.
Exit(t) == [CloseAll(t) EXCEPT !.at = "exited"]

\* modem_handshake: the modem's report is waited for and done without; the first
\* command has a second try; a PIN is sent if one was given.
AfterStep(step, pin) ==
  CASE step \in {"at", "at_again"} -> "atz"
    [] step = "atz" -> "ate0"
    [] step = "ate0" -> IF pin THEN "cpin" ELSE "cmux"
    [] OTHER -> "cmux"

WaitModemReady == /\ s.at = "handshake" /\ s.step = "eind" /\ s' = [s EXCEPT !.step = "at"]

Chat(ok, pin) ==
  /\ s.at = "handshake" /\ s.step \notin {"eind", "cmux"}
  /\ s' = IF ok THEN [s EXCEPT !.step = AfterStep(@, pin)]
          ELSE IF s.step = "at" THEN [s EXCEPT !.step = "at_again"] ELSE ReportAndExit(s)

\* mux_open: every channel is asked for at once.
MuxOpen ==
  LET opened == [c \in All |-> [Fresh EXCEPT !.sabm = TRUE]]
      asked == <<"ctl">> \o SetToSeq(Chans)
  IN [s EXCEPT !.at = "run", !.state = "setup", !.done = FALSE, !.unresolved = Cardinality(All), !.ch = opened,
               !.tx = [i \in DOMAIN asked |-> <<asked[i], "sabm">>], !.sessions = @ + 1]

ChatRefused == /\ s.at = "handshake" /\ s.step # "eind" /\ s' = Exit(s)

ChatCmux(ok) ==
  /\ s.at = "handshake" /\ s.step = "cmux"
  /\ s' = IF ok THEN MuxOpen ELSE ReportAndExit(s)

\* setup_complete.
SetupComplete(t) ==
  [t EXCEPT !.done = TRUE, !.state = "run", !.started = TRUE, !.built = @ + 1,
            !.ril = IF t.started THEN @ + 1 ELSE 1]

Resolve(t) ==
  LET u == [t EXCEPT !.unresolved = @ - 1]
  IN IF t.unresolved <= 0 THEN t ELSE IF u.unresolved = 0 /\ ~t.done THEN SetupComplete(u) ELSE u

\* chan_close_pty and chan_open_pty: what was on the way is forgotten.
NewPty(t, c) == [t EXCEPT !.ch[c].pend = FALSE, !.ch[c].pfc = FALSE, !.ch[c].lfc = FALSE]

\* chan_reopen: a new pseudo-terminal, and the modem released if it was paused.
ChanReopen(t, c) ==
  IF t.ch[c].lfc THEN SendMsc(NewPty(t, c), c, FALSE) ELSE NewPty(t, c)

\* Mutant of ChanRecover: nothing will open the channel again.
ChanRecoverIdle(t, c) ==
  [NewPty(t, c) EXCEPT !.ch[c] = [@ EXCEPT !.refused = FALSE, !.sabm = FALSE, !.disc = FALSE]]

ChanRecover(t, c) ==
  [NewPty(t, c) EXCEPT !.ch[c] = [@ EXCEPT !.refused = FALSE, !.sabm = FALSE, !.disc = FALSE, !.due = TRUE]]

\* recovery_timeout for a channel whose time has come: another try, the session
\* given up if the last such time is long enough ago, or a wait until it is.
RecoveryDue(c, late) ==
  LET k == s.ch[c]
      tried == TxFrame([s EXCEPT !.ch[c].tries = @ + 1], <<c, "sabm">>)
  IN /\ s.at = "run" /\ s.state \in {"setup", "run"} /\ k.due
     /\ s' = IF k.tries < REOPEN_ATTEMPTS
             THEN [tried EXCEPT !.ch[c].sabm = @ \/ Len(s.tx) < TxCap]
             ELSE [s EXCEPT !.ch[c].sabm = FALSE, !.state = IF late THEN "closing" ELSE @]

-----------------------------------------------------------------------------
\* What the modem sends: handle_frame, one frame of up at a time.

OnUa(t, c) ==
  LET k == t.ch[c]
      opened == [t EXCEPT !.ch[c].sabm = FALSE, !.ch[c].open = TRUE, !.ch[c].due = FALSE]
  IN CASE k.open -> IF k.disc THEN [t EXCEPT !.ch[c].disc = FALSE, !.ch[c].open = FALSE] ELSE t
       [] ~k.open /\ k.sabm -> IF k.tries = 0 THEN Resolve(opened) ELSE opened
       [] OTHER -> [t EXCEPT !.ch[c].disc = FALSE]

OnDm(t, c) ==
  LET k == t.ch[c]
      shut == [t EXCEPT !.ch[c].open = FALSE, !.ch[c].disc = FALSE]
      unasked == [t EXCEPT !.ch[c].sabm = FALSE]
  IN CASE k.open -> IF c = "ctl" THEN [shut EXCEPT !.state = "peer_closing"] ELSE ChanRecover(shut, c)
       [] ~k.open /\ c = "ctl" -> [t EXCEPT !.state = "closing"]
       [] ~k.open /\ c # "ctl" /\ k.sabm ->
            IF k.tries > 0 THEN unasked ELSE Resolve([unasked EXCEPT !.ch[c].refused = TRUE])
       [] OTHER -> t

OnDisc(t, c) ==
  LET shut == TxFrame([t EXCEPT !.ch[c].open = FALSE], <<c, "ua">>)
  IN IF ~t.ch[c].open THEN TxFrame(t, <<c, "dm">>)
     ELSE IF c = "ctl" THEN [shut EXCEPT !.state = "peer_closing"] ELSE ChanRecover(shut, c)

OnSabm(t, c) ==
  LET u == [t EXCEPT !.ch[c] = [@ EXCEPT !.open = TRUE, !.disc = FALSE, !.refused = FALSE, !.due = FALSE, !.sabm = FALSE]]
  IN TxFrame(IF t.ch[c].sabm /\ t.ch[c].tries = 0 THEN Resolve(u) ELSE u, <<c, "ua">>)

\* deliver: bytes the application is too slow for are kept and the modem paused;
\* a broken terminal is made anew.
Deliver(t, c, app) ==
  IF ~t.ch[c].open \/ t.ch[c].pend THEN t
  ELSE CASE app = "takes" -> t
         [] app = "gone" -> ChanReopen(t, c)
         [] app = "slow" -> LET u == [t EXCEPT !.ch[c].pend = TRUE, !.ch[c].lfc = TRUE]
                            IN IF t.ch[c].lfc THEN u ELSE SendMsc(u, c, TRUE)

\* control_command: the multiplexer closed, or a channel paused or resumed.
ControlCommand(t, c, cmd) ==
  LET u == CASE cmd = "cld" -> [t EXCEPT !.state = "peer_closing"]
             [] cmd # "cld" /\ t.ch[c].open -> [t EXCEPT !.ch[c].pfc = (cmd = "stop")]
             [] OTHER -> t
  IN TxFrame(u, <<"ctl", "reply">>)

HandleFrame(t, f, app) ==
  LET c == f[1]
  IN IF t.state \in {"closing", "peer_closing"} THEN IF f[2] = "ua" /\ t.ch[c].disc THEN OnUa(t, c) ELSE t
     ELSE CASE f[2] = "ua" -> OnUa(t, c)
            [] f[2] = "dm" -> OnDm(t, c)
            [] f[2] = "disc" -> OnDisc(t, c)
            [] f[2] = "sabm" -> OnSabm(t, c)
            [] f[2] = "data" -> Deliver(t, c, app)
            [] OTHER -> ControlCommand(t, c, f[2])

SerialRead(app) ==
  /\ s.at \in {"run", "closing"} /\ s.up # <<>>
  /\ s' = HandleFrame([s EXCEPT !.up = Tail(@)], Head(s.up), app)

-----------------------------------------------------------------------------
\* The rest of run and of main.

Polled(c) == ~s.ch[c].due /\ (s.ch[c].open \/ s.ch[c].refused \/ s.ch[c].tries = 0)

\* chan_drain: what waits is written in full, or the terminal is gone.
ChanDrain(c, gone) ==
  LET drained == [s EXCEPT !.ch[c].pend = FALSE, !.ch[c].lfc = FALSE]
  IN /\ s.at = "run" /\ s.state \in {"setup", "run"} /\ Polled(c) /\ s.ch[c].pend
     /\ s' = IF gone THEN ChanReopen(s, c) ELSE IF s.ch[c].lfc THEN SendMsc(drained, c, FALSE) ELSE drained

\* chan_read: the application wrote, or hung up.
ChanRead(c, gone) ==
  /\ s.at = "run" /\ s.state \in {"setup", "run"} /\ Polled(c)
  /\ gone \/ (s.done /\ (s.ch[c].open \/ s.ch[c].refused) /\ ~s.ch[c].pfc /\ Len(s.tx) < TxCap - 1)
  /\ s' = IF gone THEN ChanReopen(s, c) ELSE IF s.ch[c].refused THEN s ELSE TxFrame(s, <<c, "data">>)

\* tx_flush while the modem is in exception: what is queued is dropped.
TxRefused ==
  /\ s.at \in {"run", "closing"} /\ s.tx # <<>>
  /\ s' = [s EXCEPT !.tx = <<>>, !.lost = TRUE]

\* The set-up deadline, a failed read, write or poll.
Breaks ==
  /\ s.at = "run" /\ s.state \in {"setup", "run"}
  /\ s' = ReportAndExit(s)

\* run returns; close_mux asks for every open channel to be closed.
RunReturns ==
  LET opened == {c \in Chans : s.ch[c].open}
      asked == [s EXCEPT !.at = "closing", !.ch = [c \in All |-> [s.ch[c] EXCEPT !.disc = @ \/ c \in opened]]]
  IN /\ s.at = "run" /\ s.state \in {"closing", "peer_closing"}
     /\ s' = IF s.state = "closing" THEN FoldLeft(LAMBDA t, c : TxFrame(t, <<c, "disc">>), asked, SetToSeq(opened))
             ELSE [CloseAll(s) EXCEPT !.at = "wait"]

\* Every channel closed, or time is up.
Closed == /\ s.at = "closing" /\ s' = [CloseAll(s) EXCEPT !.at = "wait"]

StartsAgain ==
  /\ s.at = "wait" /\ s.sessions < MaxSessions
  /\ s' = [s EXCEPT !.at = "handshake", !.step = "eind"]

\* graceful_exit on a signal.
Signal ==
  /\ s.at \in {"handshake", "run", "wait"}
  /\ s' = Exit(s)

-----------------------------------------------------------------------------
\* External: the modem.

ModemTakes(refuses) ==
  LET f == Head(s.tx)
      c == f[1]
      t == [s EXCEPT !.tx = Tail(@)]
  IN /\ s.at \in {"run", "closing"} /\ s.tx # <<>> /\ Len(s.up) < UpCap
     /\ s' = CASE f[2] = "sabm" -> IF refuses THEN [t EXCEPT !.up = Append(@, <<c, "dm">>)]
                                   ELSE [t EXCEPT !.up = Append(@, <<c, "ua">>), !.dlc[c] = "open", !.view[c] = FALSE]
               [] f[2] = "disc" -> [t EXCEPT !.up = Append(@, <<c, "ua">>), !.dlc[c] = "closed", !.view[c] = FALSE]
               [] f[2] = "ua" -> [t EXCEPT !.dlc[c] = CASE @ = "opening" -> "open" [] @ = "closing" -> "closed" [] OTHER -> @]
               [] f[2] = "dm" -> [t EXCEPT !.dlc[c] = "closed"]
               [] f[2] \in {"pause", "resume"} -> [t EXCEPT !.view[c] = s.dlc[c] = "open" /\ f[2] = "pause"]
               [] OTHER -> t

\* It closes a channel it has open, opens one it has closed and nothing is said
\* about (each until our answer), sends data where it is not paused, pauses us,
\* and closes the multiplexer.
ModemSends(c, k) ==
  /\ s.at = "run" /\ Len(s.up) < UpCap
  /\ CASE k = "sabm" -> s.dlc[c] = "closed" /\ \A q \in {s.up, s.tx} : \A i \in DOMAIN q : q[i][1] # c
       [] k = "data" -> c # "ctl" /\ s.dlc[c] = "open" /\ ~s.view[c]
       [] k \in {"stop", "go"} -> c # "ctl" /\ s.dlc[c] = "open"
       [] k = "cld" -> c = "ctl" /\ s.dlc[c] = "open"
       [] OTHER -> s.dlc[c] = "open"
  /\ s' = [s EXCEPT !.up = Append(@, <<c, k>>),
                    !.dlc[c] = CASE k = "sabm" -> "opening" [] k = "disc" -> "closing" [] k = "dm" -> "closed" [] OTHER -> @,
                    !.view[c] = k \notin {"dm", "disc", "sabm"} /\ @]

Next ==
  \/ \E b \in BOOLEAN : Reported(b) \/ ChatCmux(b) \/ ModemTakes(b) \/ \E pin \in BOOLEAN : Chat(b, pin)
  \/ \E c \in Chans, b \in BOOLEAN : RecoveryDue(c, b) \/ ChanDrain(c, b) \/ ChanRead(c, b)
  \/ \E app \in {"takes", "slow", "gone"} : SerialRead(app)
  \/ WaitModemReady \/ ChatRefused \/ TxRefused \/ Breaks \/ RunReturns \/ Closed \/ StartsAgain \/ Signal
  \/ \E c \in All, k \in {"dm", "disc", "sabm", "data", "stop", "go", "cld"} : ModemSends(c, k)

-----------------------------------------------------------------------------
\* The channels of a session are accounted for: the count setup waits on is the
\* number of first requests unanswered, the RIL is told exactly once per completed
\* set-up, and no channel is left closed without a refusal, a request or a
\* recovery to come.
ChannelsAccounted ==
  /\ s.ril = s.built
  /\ s.at = "run" /\ s.state \in {"setup", "run"} =>
       /\ s.unresolved = Cardinality({c \in All : s.ch[c].sabm /\ s.ch[c].tries = 0})
       /\ s.done = (s.unresolved = 0)
       /\ \A c \in Chans : s.ch[c].open \/ s.ch[c].refused \/ s.ch[c].due \/ s.ch[c].sabm

\* While no frame was dropped, what the modem will believe of a channel's flow
\* once it has read our queue is what we want: paused exactly while bytes wait for
\* the application.
FlowFollows ==
  \A c \in Chans :
    LET said == SelectSeq(s.tx, LAMBDA f : f[1] = c /\ f[2] \in {"pause", "resume"})
        last == IF said = <<>> THEN s.view[c] ELSE said[Len(said)][2] = "pause"
        settled == s.ch[c].open /\ s.dlc[c] = "open" /\ ~\E i \in DOMAIN s.up : s.up[i][1] = c /\ s.up[i][2] \in {"dm", "disc", "sabm"}
    IN s.at = "run" /\ s.state \in {"setup", "run"} /\ ~s.lost /\ settled => (last <=> s.ch[c].lfc) /\ s.ch[c].lfc = s.ch[c].pend
=============================================================================
