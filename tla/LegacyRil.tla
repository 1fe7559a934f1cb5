----------------------------- MODULE LegacyRil -----------------------------
(***************************************************************************)
(* The minimal HIDL radio service (modem/ril/src): requests come one at a  *)
(* time (service.cpp: a thread pool of one) and become AT commands on one  *)
(* channel; its reader thread hands lines to the command that waits.  An   *)
(* answer may come after its command gave up, and the prompt for a message *)
(* is not a line.                                                          *)
(***************************************************************************)
EXTENDS Integers, Sequences

CONSTANTS MaxRequests, MaxCommands, MaxUrcs

VARIABLE s

\* at: where the calling thread is (idle, send, wait, prompt); plan: the commands its
\* request has still to send;
\* edrx: persist.vendor.mindone.edrx for a request that sets the power saving profile.
\* pend, type, done, ok, owner, lines: the pending command and its mPendingResult, with
\* the number of the command whose final line it is; awaiting and seen: the prompt;
\* buf: what was read after the last newline holds a prompt.  tx, wire, mode, cfun: the
\* modem's input and output, whether it takes a message text, and its radio.
Init == s = [boot |-> FALSE, asked |-> 0, at |-> "idle", edrx |-> "none",
             plan |-> <<>>, n |-> 0, clean |-> TRUE, pend |-> FALSE, type |-> "none", done |-> FALSE, ok |-> FALSE, owner |-> 0,
             lines |-> {}, awaiting |-> FALSE, seen |-> FALSE, buf |-> FALSE, eof |-> FALSE, last |-> <<0, 0, {}>>,
             power |-> FALSE, saving |-> FALSE, sure |-> TRUE, tx |-> <<>>, wire |-> <<>>, mode |-> "cmd", cfun |-> FALSE, urcs |-> 0]

\* The response goes to the newest interface that is bound, which is all that
\* decides it; it is not kept here.
Respond(t) == [t EXCEPT !.at = "idle", !.plan = <<>>, !.edrx = "none"]

\* A request, with the commands it sends.
Request(plan) ==
  /\ s.at = "idle" /\ s.asked < MaxRequests
  /\ s' = [s EXCEPT !.asked = @ + 1, !.at = "send", !.plan = plan]

\* applyPowerSavingProfileLocked, once: unless disabled, a query, the setting, a query.
PowerSaving(t) ==
  IF t.saving THEN t
  ELSE [t EXCEPT !.saving = TRUE, !.plan = IF t.edrx = "0" THEN <<>> ELSE <<"probe", "edrx", "query">>]

\* What a request does with the result of a command; a step of the profile that fails
\* ends it.  A failed first half of a data call does not stop the second.
Result(t, ok) ==
  LET c == Head(t.plan)
      u == [t EXCEPT !.plan = Tail(@), !.at = "send",
                     !.power = IF ok /\ c \in {"on", "off"} THEN c = "on" ELSE @,
                     !.clean = TRUE, !.sure = IF c \in {"on", "off"} THEN t.clean /\ t.owner = t.n /\ (@ \/ ok) ELSE @]
      v == IF c = "on" /\ t.edrx # "none" /\ ok THEN PowerSaving(u) ELSE u
  IN IF v.plan = <<>> \/ (c \in {"probe", "edrx"} /\ ~ok) THEN Respond(v) ELSE v

\* A stub answers REQUEST_NOT_SUPPORTED at once.
Unsupported == /\ s.at = "idle" /\ s.asked < MaxRequests /\ s' = Respond([s EXCEPT !.asked = @ + 1])

\* getIccCardStatus, getSignalStrength; the registration states and getOperator;
\* getCurrentCalls; then dial and hangup.
Status == Request(<<"query">>)
Registration == Request(<<"query">>)
CurrentCalls == Request(<<"query">>)
Call == Request(<<"plain">>)
AcceptCall == Request(<<"plain">>)
GetDeviceIdentity == Request(<<"numeric">>)
SendSms == Request(<<"sms">>)
SetupDataCall == Request(<<"plain", "plain">>)
DeactivateDataCall == Request(<<"plain">>)

\* setRadioPower, then its newer versions, which leave the power saving profile alone.
SetRadioPower(on, edrx) ==
  /\ s.at = "idle" /\ s.asked < MaxRequests
  /\ s' = [s EXCEPT !.asked = @ + 1, !.at = "send", !.plan = <<IF on THEN "on" ELSE "off">>, !.edrx = edrx]

\* setResponseFunctions: the boot commands (seven, one here) go out for the first client
\* only; for others only the interface changes.
SetResponseFunctions ==
  /\ s.at = "idle" /\ ~s.boot
  /\ s' = [s EXCEPT !.boot = TRUE, !.at = "send", !.plan = <<"plain">>]

-----------------------------------------------------------------------------
\* sendCommand and sendSmsCommand.

\* No answer of an earlier command is still to come.
Quiet == s.tx = <<>> /\ s.mode = "cmd" /\ ~s.buf /\ \A i \in DOMAIN s.wire : s.wire[i].k \notin {"final", "prompt"}

TypeOf(c) == IF c \in {"query", "probe"} THEN "prefix" ELSE IF c \in {"numeric", "sms"} THEN c ELSE "none"


\* Up to the wait.  A failed write ends a plain command; for a message it is not noticed.
Send(written) ==
  LET c == Head(s.plan)
      t == [s EXCEPT !.n = @ + 1, !.clean = Quiet, !.pend = TRUE, !.type = TypeOf(c), !.done = FALSE, !.ok = FALSE, !.owner = 0,
                     !.lines = {}, !.awaiting = c = "sms", !.seen = FALSE]
      u == IF written THEN [t EXCEPT !.tx = Append(@, [c |-> c, n |-> t.n])] ELSE t
  IN /\ s.at = "send" /\ s.n < MaxCommands
     /\ s' = IF c = "sms" THEN [u EXCEPT !.at = "prompt"]
             ELSE IF written THEN [u EXCEPT !.at = "wait"] ELSE Result([u EXCEPT !.pend = FALSE], FALSE)

\* The prompt was seen: the text goes out, and the wait is for the final line.
Prompted(written) ==
  /\ s.at = "prompt" /\ s.seen
  /\ s' = [s EXCEPT !.awaiting = FALSE, !.at = "wait", !.tx = IF written THEN Append(@, [c |-> "text", n |-> s.n]) ELSE @]

PromptTimeout == /\ s.at = "prompt" /\ ~s.seen /\ s' = Result([s EXCEPT !.awaiting = FALSE, !.pend = FALSE], FALSE)

\* The final line came, or not in time.
Completes ==
  /\ s.at = "wait" /\ s.done
  /\ s' = Result([s EXCEPT !.pend = FALSE, !.last = IF s.clean THEN <<s.n, s.owner, IF s.type = "prefix" THEN s.lines ELSE {}>> ELSE @], s.ok)

Timeout == /\ s.at = "wait" /\ ~s.done /\ s' = Result([s EXCEPT !.pend = FALSE], FALSE)

-----------------------------------------------------------------------------
\* readerLoop.

\* One complete line: a final line completes the pending command, others are kept if the
\* command wants them; without a command it is unsolicited and only logged.
Line(t, x) ==
  IF x.k = "prompt" /\ t.awaiting THEN [t EXCEPT !.seen = TRUE]
  ELSE IF ~t.pend THEN t
  ELSE IF x.k = "final" THEN [t EXCEPT !.done = TRUE, !.ok = x.ok, !.owner = x.n]
  ELSE IF t.type = "none" \/ (t.type \in {"prefix", "sms"} /\ x.k # "line") THEN t
  ELSE [t EXCEPT !.lines = @ \cup {x.n}]

\* A prompt has no newline: it waits in the buffer for the line that ends it.
Read ==
  LET x == Head(s.wire)
      t == [s EXCEPT !.wire = Tail(@)]
  IN /\ s.wire # <<>> /\ ~s.eof
     /\ s' = IF x.k = "prompt" THEN [t EXCEPT !.buf = TRUE]
             ELSE Line(IF s.buf THEN Line([t EXCEPT !.buf = FALSE], [k |-> "prompt", ok |-> FALSE, n |-> 0]) ELSE t, x)

\* The channel ended: the reader stops; nothing is told to those who wait.
ReaderEnds == /\ ~s.eof /\ s' = [s EXCEPT !.eof = TRUE]

-----------------------------------------------------------------------------
\* The modem (external): commands are taken in turn and answered; while it takes a message
\* everything up to the text is part of it, and it may give up.
Final(q, ok) == [k |-> "final", ok |-> ok, n |-> q.n]

ModemAnswers(ok) ==
  LET q == Head(s.tx)
      t == [s EXCEPT !.tx = Tail(@)]
      says(x) == [t EXCEPT !.wire = @ \o x]
  IN /\ s.tx # <<>>
     /\ s' = IF s.mode = "text"
             THEN IF q.c # "text" THEN t
                  ELSE [says(<<[k |-> "line", ok |-> ok, n |-> q.n], Final(q, ok)>>) EXCEPT !.mode = "cmd"]
             ELSE IF q.c = "sms" /\ ok THEN [says(<<[k |-> "prompt", ok |-> FALSE, n |-> q.n]>>) EXCEPT !.mode = "text"]
             ELSE IF q.c = "text" THEN says(<<Final(q, FALSE)>>)
             ELSE IF ok /\ q.c \in {"query", "probe", "numeric"} THEN says(<<[k |-> "line", ok |-> TRUE, n |-> q.n], Final(q, TRUE)>>)
             ELSE [says(<<Final(q, ok)>>) EXCEPT !.cfun = IF ok /\ q.c \in {"on", "off"} THEN q.c = "on" ELSE @]

ModemGivesUp == /\ s.mode = "text" /\ s' = [s EXCEPT !.mode = "cmd", !.wire = Append(@, [k |-> "final", ok |-> FALSE, n |-> s.n])]

ModemReports == /\ s.urcs < MaxUrcs /\ s' = [s EXCEPT !.urcs = @ + 1, !.wire = Append(@, [k |-> "urc", ok |-> FALSE, n |-> 0])]

Next ==
  \/ Status \/ Registration \/ CurrentCalls \/ Call \/ AcceptCall \/ GetDeviceIdentity \/ SendSms \/ SetupDataCall \/ DeactivateDataCall
  \/ Unsupported
  \/ \E on \in BOOLEAN, edrx \in {"none", "0", "2"} : SetRadioPower(on, edrx)
  \/ \E b \in BOOLEAN : Send(b) \/ Prompted(b) \/ ModemAnswers(b)
  \/ SetResponseFunctions
  \/ PromptTimeout
  \/ Completes
  \/ Timeout
  \/ Read
  \/ ReaderEnds
  \/ ModemGivesUp
  \/ ModemReports

-----------------------------------------------------------------------------
\* sendCommand and readerLoop: a command sent when no earlier answer was outstanding
\* completes with its own final line and keeps only its own lines, whatever gave up
\* before it; no command is left pending behind a request; and between requests the
\* service's idea of the radio is the modem's unless the last power command timed out or
\* shared the channel with a late answer.
RilAnswersBelong ==
  /\ s.last[1] = s.last[2] /\ s.last[3] \subseteq {s.last[1]}
  /\ s.at \in {"idle", "send"} => ~s.pend
  /\ s.at = "idle" /\ s.sure => s.power = s.cfun

=============================================================================
