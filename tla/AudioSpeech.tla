---------------------------- MODULE AudioSpeech ----------------------------
(***************************************************************************)
(* The speech channel of a call (audio-hf/audio_hw.c, /dev/ccci_aud): each *)
(* exchange drains what the modem sent earlier, sends one message and      *)
(* waits for its acknowledgement, answering the modem's own query on the   *)
(* way.  Acknowledgements carry only the kind of message, so a late one    *)
(* looks like the answer to a later request.                               *)
(***************************************************************************)
EXTENDS Integers, Sequences

CONSTANTS MaxRequests,  \* messages sent in a behaviour
          MaxQueries,   \* queries of the modem
          Room          \* messages held by the channel

VARIABLE s

\* at: idle, drain or wait; plan: the kinds still to send; on: SPEECH_ON was sent;
\* due: the requests the modem has not answered; rx: what it sent, each <<kind,
\* number>>; up: speech_on; asked and told: queries read and answered; polled: polls answered; last: the
\* request just acknowledged and the number of its acknowledgement.
Init == s = [fd |-> FALSE, up |-> FALSE, at |-> "idle", plan |-> <<>>, on |-> FALSE, n |-> 0,
             due |-> {}, rx |-> <<>>, queries |-> 0, asked |-> 0, told |-> 0, polled |-> 0, last |-> <<0, 0>>]

Close(t) == [t EXCEPT !.fd = FALSE, !.up = FALSE, !.at = "idle", !.plan = <<>>, !.on = FALSE, !.rx = <<>>,
                      !.due = {}]

Start(t, plan) == [t EXCEPT !.at = "drain", !.plan = plan]

\* speech_ccci_on: the mode, then speech; a Bluetooth call also sets its mute.
SpeechOn(bt) ==
  /\ ~s.fd /\ s.n < MaxRequests
  /\ s' = Start([s EXCEPT !.fd = TRUE], IF bt THEN <<"mode", "on", "mute">> ELSE <<"mode", "on">>)

\* speech_modem_mute, speech_ccci_set_mode and speech_ccci_off in a call.
Ask(kind) == /\ s.up /\ s.at = "idle" /\ s.n < MaxRequests /\ s' = Start(s, <<kind>>)

\* ccci_send_mailbox and ccci_send_payload.
Sent(t, k) == [t EXCEPT !.n = @ + 1, !.due = @ \cup {<<k, t.n + 1>>}]

\* mindone_audio_speech_gain sends and does not wait.
SpeechGain ==
  /\ s.up /\ s.at = "idle" /\ s.n < MaxRequests
  /\ s' = Sent(s, "gain")

\* Every failure ends in speech_ccci_off if speech was asked for, and the
\* channel is closed whether or not that is acknowledged.
Fails(t) ==
  IF Head(t.plan) = "off" THEN Close(t)
  ELSE IF t.on \/ t.up THEN Start(t, <<"off">>)
  ELSE Close(t)

\* One message is read.
Taken(t) == [t EXCEPT !.rx = Tail(@)]

\* ccci_receive answers a query at once, on either side of the request.
Answer(t) ==
  IF Head(t.rx)[1] = "query" THEN [Taken(t) EXCEPT !.asked = @ + 1, !.told = @ + 1] ELSE Taken(t)

\* An answer that cannot be sent fails the exchange.
DrainOne(sent) ==
  /\ s.at = "drain" /\ s.rx # <<>> /\ (sent \/ Head(s.rx)[1] = "query")
  /\ s' = IF sent THEN Answer(s) ELSE Fails(Taken(s))

\* ccci_receive(stale): the channel stayed quiet for 50 ms, or the modem never
\* stopped for 200 ms, which fails.  The message is then sent; speech_ccci_off
\* sends it in either case, and waits only if the channel was quiet.
DrainEnds(quiet, sent) ==
  LET k == Head(s.plan)
      next == [Sent(s, k) EXCEPT !.at = "wait", !.on = @ \/ k = "on"]
  IN /\ s.at = "drain" /\ (quiet => s.rx = <<>>)
     /\ s' = IF ~quiet \/ ~sent THEN Fails([s EXCEPT !.on = @ \/ (quiet /\ k = "on")]) ELSE next

\* The acknowledgement is told by its kind.
WaitOne(sent) ==
  LET k == Head(s.plan)
      x == Head(s.rx)
      rest == Tail(s.plan)
      t == [Answer(s) EXCEPT !.last = <<s.n, x[2]>>]
  IN /\ s.at = "wait" /\ s.rx # <<>> /\ (sent \/ x[1] = "query")
     /\ s' = IF ~sent THEN Fails(Taken(s))
             ELSE IF x[1] # k THEN Answer(s)
             ELSE IF k = "off" THEN Close(t)
             ELSE IF rest = <<>> THEN [t EXCEPT !.plan = rest, !.at = "idle", !.up = TRUE]
             ELSE Start(t, rest)

WaitExpires == /\ s.at = "wait" /\ s' = Fails(s)

\* speech_rx_pump, one message: polls are answered, a query is not.
Pump(sent) ==
  /\ s.up /\ s.at = "idle" /\ s.rx # <<>>
  /\ s' = IF sent /\ Head(s.rx)[1] = "poll" THEN [Taken(s) EXCEPT !.polled = @ + 1] ELSE Taken(s)

\* External: the modem acknowledges a request, soon, late or never, and asks.
ModemAcks == \E r \in s.due :
  /\ s.fd /\ Len(s.rx) < Room
  /\ s' = [s EXCEPT !.due = @ \ {r}, !.rx = Append(@, r)]

ModemAsks(k) ==
  /\ s.fd /\ Len(s.rx) < Room /\ s.queries < MaxQueries
  /\ s' = [s EXCEPT !.queries = @ + 1, !.rx = Append(@, <<k, 0>>)]

Next ==
  \/ SpeechGain \/ WaitExpires \/ ModemAcks
  \/ \E k \in {"query", "poll"} : ModemAsks(k)
  \/ \E b \in BOOLEAN : SpeechOn(b) \/ DrainOne(b) \/ WaitOne(b) \/ Pump(b) \/ (\E c \in BOOLEAN : DrainEnds(b, c))
  \/ \E k \in {"mute", "mode", "off"} : Ask(k)

-----------------------------------------------------------------------------
\* An acknowledgement taken by ccci_receive is the answer to the request it
\* ended, however late the modem answers an earlier one of the same kind; every
\* query read during an exchange that went on was answered; and speech is up only on an open
\* channel.
AckBelongs ==
  /\ s.last[1] = s.last[2]
  /\ s.asked = s.told
  /\ s.up => s.fd
=============================================================================
