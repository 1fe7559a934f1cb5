------------------------------- MODULE MuxChat -------------------------------
(***************************************************************************)
(* The start of a multiplexer connection: Controller (chat.rs) sends AT,   *)
(* ATZ, ATE0, the PIN and AT+CMUX one after the other, run by the startup  *)
(* half of Runtime::run_turn, and hands the bytes that follow the last     *)
(* answer to the frame decoder.                                            *)
(*                                                                         *)
(* The bytes of the serial port are pieces: a whole result code, a line    *)
(* end, other printable text, or a byte of a multiplexer frame.  A read    *)
(* returns any prefix of what has arrived.  The modem is external: before  *)
(* it is up it answers nothing but keeps what it is sent; once up it       *)
(* answers within a tick, and after AT+CMUX it sends frames.               *)
(***************************************************************************)
EXTENDS Integers, Sequences

CONSTANTS
    READY_WAIT_MS, COMMAND_TIMEOUT_MS, SETTLE_MS, TOKEN_SETTLE_MS,
    MaxFrames,       \* frame bytes the modem sends
    MaxNoise         \* unsolicited lines it sends before

ASSUME ChatAssumption ==
    /\ {READY_WAIT_MS, COMMAND_TIMEOUT_MS, SETTLE_MS, TOKEN_SETTLE_MS} \subseteq Nat \ {0}
    /\ {MaxFrames, MaxNoise} \subseteq Nat

VARIABLES
    chat,    \* the controller, the bytes it handed on and (history) the OKs it took
    pipe,    \* pieces from the modem, not read yet
    modem    \* external, with the OKs and frame bytes it has sent

vars == <<chat, pipe, modem>>

Printable == {"OK", "ERROR", "EIND", "READY", "text"}
Handed == {"Settling", "Ready"}
Over == {"Ready", "Failed"}

\* Controller::new, with or without a PIN in the configuration.
Init ==
    /\ \E pin \in BOOLEAN :
       chat = [phase |-> "WaitingReady", command |-> "none", left |-> READY_WAIT_MS,
               token |-> 0, record |-> <<>>, lineEnd |-> FALSE, cmuxReady |-> FALSE,
               pin |-> pin, tail |-> <<>>, oks |-> 0]
    /\ pipe = <<>>
    /\ modem = [up |-> FALSE, mux |-> FALSE, inbox |-> <<>>, oks |-> 0,
                frames |-> 0, noise |-> 0]

-----------------------------------------------------------------------------
Fail(c) == [c EXCEPT !.phase = "Failed", !.token = 0, !.record = <<>>, !.pin = FALSE]

\* start: a pending PIN is used up by its command.
Start(c, command) ==
    [c EXCEPT !.phase = "Writing", !.command = command, !.left = COMMAND_TIMEOUT_MS,
              !.record = <<>>, !.pin = @ /\ command # "Pin"]

After(c) ==
    CASE c.command \in {"At", "AtRetry"} -> "Reset"
      [] c.command = "Reset" -> "EchoOff"
      [] c.command = "EchoOff" /\ c.pin -> "Pin"
      [] OTHER -> "Cmux"

\* record, on OK
Answer(c) ==
    IF c.command # "Cmux" THEN Start(c, After(c))
    ELSE IF c.cmuxReady THEN [c EXCEPT !.phase = "Ready"]
    ELSE [c EXCEPT !.phase = "Settling", !.left = SETTLE_MS]

\* record: a complete line, or result code of AT+CMUX.
Record(c) ==
    LET line == c.record
        r == [c EXCEPT !.record = <<>>]
    IN IF r.phase = "WaitingReady" /\ line = <<"EIND">> THEN Start(r, "At")
       ELSE IF r.phase # "Reading" THEN r
       ELSE IF line = <<"READY">> /\ r.command = "Cmux" THEN [r EXCEPT !.cmuxReady = TRUE]
       ELSE IF line = <<"ERROR">> THEN IF r.command = "At" THEN Start(r, "AtRetry") ELSE Fail(r)
       ELSE IF line = <<"OK">> THEN Answer([r EXCEPT !.oks = @ + 1])
       ELSE r

\* complete: after the last answer, the line ends that follow are skipped.
Complete(c) ==
    LET r == Record(c) IN [r EXCEPT !.lineEnd = @ \/ r.phase \in Handed]

\* tick: a result code waits TOKEN_SETTLE_MS for the byte that follows it;
\* otherwise the deadline of the phase decides.
ChatTick(c) ==
    IF c.phase \in Over THEN c
    ELSE IF c.token > 1 THEN c
    ELSE IF c.token = 1 THEN Complete([c EXCEPT !.token = 0])
    ELSE IF c.left > 0 THEN c
    ELSE CASE c.phase = "WaitingReady" -> Start(c, "At")
           [] c.phase = "Reading" /\ c.command = "At" -> Start(c, "AtRetry")
           [] c.phase = "Settling" -> [c EXCEPT !.phase = "Ready"]
           [] OTHER -> Fail(c)

\* token_boundary
Boundary(record, next) ==
    next \notin Printable \/ (record = <<"READY">> /\ next \in {"OK", "ERROR"})

Unframed(c) ==
    /\ c.phase = "Reading" /\ c.command = "Cmux"
    /\ c.record \in {<<"OK">>, <<"ERROR">>, <<"READY">>}

LineEnds(input) ==
    LET other == {i \in DOMAIN input : input[i] # "NL"}
    IN IF other = {} THEN Len(input) ELSE (CHOOSE i \in other : \A j \in other : i <= j) - 1

\* hand_off, with the tail the runtime keeps for the decoder.
HandOff(c, rest) ==
    LET skipped == IF c.lineEnd THEN LineEnds(rest) ELSE 0
    IN [c EXCEPT !.lineEnd = @ /\ skipped = Len(rest),
                 !.tail = @ \o SubSeq(rest, skipped + 1, Len(rest))]

\* One piece of the input of feed, at position i.
FeedPiece(c, input, i) ==
    LET piece == input[i]
        added == [c EXCEPT !.record = Append(@, piece)]
        last == i = Len(input)
    IN IF piece = "NL" THEN IF c.record = <<>> THEN c ELSE Complete(c)
       ELSE IF piece = "frame" THEN c
       ELSE IF ~Unframed(added) THEN added
       ELSE IF last THEN [added EXCEPT !.token = TOKEN_SETTLE_MS + 1]
       ELSE IF Boundary(added.record, input[i + 1]) THEN Complete(added)
       ELSE added

\* The loop of feed: it ends with the last answer, which hands on the rest.
FeedAll(c, input) ==
    LET after[i \in 0..Len(input)] ==
            IF i = 0 THEN c
            ELSE LET p == after[i - 1]
                     r == FeedPiece(p, input, i)
                 IN IF p.phase \in Handed \cup Over THEN p
                    ELSE IF r.phase \in Handed THEN HandOff(r, SubSeq(input, i + 1, Len(input)))
                    ELSE r
    IN after[Len(input)]

\* Mutant of Feed: the read that ends the wait of the last answer is lost.
FeedDropsRead(c, input) ==
    LET first == [c EXCEPT !.token = 0]
        taken == IF c.token # 0 /\ Boundary(c.record, input[1]) THEN Complete(first) ELSE first
    IN IF c.token # 0 /\ taken.phase \in Handed THEN taken
       ELSE IF ChatTick(taken).phase \in Handed THEN HandOff(ChatTick(taken), input)
       ELSE FeedAll(ChatTick(taken), input)

\* feed: what a read returned; its first piece ends the wait of a result code.
Feed(c, input) ==
    LET first == [c EXCEPT !.token = 0]
        taken == IF c.token # 0 /\ Boundary(c.record, input[1]) THEN Complete(first) ELSE first
        ticked == ChatTick(taken)
    IN IF c.token # 0 /\ taken.phase \in Handed THEN HandOff(taken, input)
       ELSE IF ticked.phase \in Handed THEN HandOff(ticked, input)
       ELSE FeedAll(ticked, input)

-----------------------------------------------------------------------------
\* write_startup: the command is written whole, or the port is busy; a write
\* that ends after the deadline is an error.
Written(c, taken) ==
    IF c.phase # "Writing" THEN c
    ELSE IF ~taken THEN ChatTick(c)
    ELSE IF c.left = 0 THEN Fail(c)
    ELSE [c EXCEPT !.phase = "Reading", !.record = <<>>]

\* The startup half of run_turn: the tick waits while an answer's next byte
\* is there to be read.
Turn(read, taken) ==
    LET readable == read > 0
        ticked == IF chat.token # 0 /\ readable THEN chat ELSE ChatTick(chat)
        reads == readable /\ ticked.phase \notin {"Writing", "Failed"}
        fed == IF ~reads THEN ticked
               ELSE IF ticked.phase = "Ready"
               THEN [ticked EXCEPT !.tail = @ \o SubSeq(pipe, 1, read)]
               ELSE Feed(ticked, SubSeq(pipe, 1, read))
    IN /\ chat.phase \notin Over
       /\ IF chat.phase = "Writing" \/ pipe = <<>> THEN ~readable ELSE readable
       /\ chat' = Written(fed, taken)
       /\ pipe' = IF reads THEN SubSeq(pipe, read + 1, Len(pipe)) ELSE pipe
       /\ modem' = IF fed.phase = "Writing" /\ taken
                   THEN [modem EXCEPT !.inbox = Append(@, fed.command)] ELSE modem

\* After the hand-off the runtime reads into the decoder.
ReadFrames ==
    /\ chat.phase = "Ready" /\ pipe # <<>>
    /\ chat' = [chat EXCEPT !.tail = @ \o pipe]
    /\ pipe' = <<>>
    /\ UNCHANGED modem

Faulted ==
    /\ chat.phase \notin Over
    /\ chat' = Fail(chat)
    /\ UNCHANGED <<pipe, modem>>

ModemUp ==
    /\ ~modem.up
    /\ modem' = [modem EXCEPT !.up = TRUE]
    /\ pipe' \in {pipe, pipe \o <<"NL", "EIND", "NL">>}
    /\ UNCHANGED chat

Answers(command) ==
    IF command # "Cmux" THEN {<<"NL", "OK", "NL">>, <<"ERROR", "NL">>}
    ELSE {<<"OK">>, <<"NL", "OK", "NL">>, <<"READY", "OK">>, <<"READY", "NL", "OK", "NL">>,
          <<"text", "OK", "NL", "OK">>}

ModemAnswers ==
    /\ modem.up /\ modem.inbox # <<>> /\ ~modem.mux
    /\ \E a \in Answers(Head(modem.inbox)) :
         /\ pipe' = pipe \o a
         /\ modem' = [modem EXCEPT !.inbox = Tail(@), !.mux = Head(modem.inbox) = "Cmux",
                                   !.oks = IF "OK" \in {a[i] : i \in DOMAIN a} THEN @ + 1 ELSE @]
    /\ UNCHANGED chat

ModemSpeaks ==
    /\ modem.up /\ modem.inbox = <<>>
    /\ \/ /\ modem.mux /\ modem.frames < MaxFrames
          /\ pipe' = Append(pipe, "frame")
          /\ modem' = [modem EXCEPT !.frames = @ + 1]
       \/ /\ ~modem.mux /\ modem.noise < MaxNoise
          /\ pipe' \in {pipe \o <<"NL", "text", "NL">>, pipe \o <<"OK", "text", "NL">>}
          /\ modem' = [modem EXCEPT !.noise = @ + 1]
    /\ UNCHANGED chat

\* A modem that is up answers before time goes on, and the reactor runs the
\* turn a deadline asks for.
Tick ==
    /\ chat.phase \notin Over
    /\ modem.up => modem.inbox = <<>> \/ modem.mux
    /\ chat.left > 0 \/ chat.token > 1
    /\ chat.token # 1
    /\ chat' = [chat EXCEPT !.left = IF @ > 0 THEN @ - 1 ELSE 0,
                            !.token = IF @ > 1 THEN @ - 1 ELSE @]
    /\ UNCHANGED <<pipe, modem>>

Done == chat.phase \in Over /\ UNCHANGED vars

Next ==
    \/ \E read \in 0..Len(pipe), taken \in BOOLEAN : Turn(read, taken)
    \/ ReadFrames \/ Faulted \/ ModemUp \/ ModemAnswers \/ ModemSpeaks \/ Tick \/ Done

Spec == Init /\ [][Next]_vars

-----------------------------------------------------------------------------
Frames(s) == Len(SelectSeq(s, LAMBDA p : p = "frame"))

\* However the stream is cut into reads, the chat takes its answers and leaves
\* the frames: every frame byte the modem sends reaches the decoder or is still
\* unread, and the controller goes on only for a result code the modem sent,
\* never for a line that begins with the letters of one (chat.rs feed, hand_off,
\* token_boundary; runtime.rs held_tail).
StreamSplitRight ==
    /\ chat.phase # "Failed" => Frames(chat.tail) + Frames(pipe) = modem.frames
    /\ chat.oks <= modem.oks

\* The connection starts only after the modem took AT+CMUX, even when a late
\* answer to an AT that was sent twice shifts every later answer by one
\* (chat.rs record: the settling time).
ReadyMeansMux == chat.phase = "Ready" => modem.mux

\* Startup ends: the connection starts or fails (chat.rs tick and start).
ChatEnds == <>(chat.phase \in Over)
=============================================================================
