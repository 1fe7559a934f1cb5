------------------------------ MODULE AtEngine ------------------------------
(***************************************************************************)
(* The AT transaction engine of the open radio HAL (modem/radio/at).       *)
(*                                                                         *)
(* One engine drives one modem channel: commands wait in a bounded queue,  *)
(* one of them is written and waits for its final result line, and any     *)
(* surprise (deadline, stray final, oversized input) throws the engine     *)
(* into quarantine, from which it comes back only after a silence window   *)
(* and a matched answer to the probe "AT+CMEE?".                           *)
(*                                                                         *)
(* The engine is a record `eng`; every handler of the code is an operator  *)
(* on that record, composed exactly as the code composes its calls, so an  *)
(* action is the whole handler.  Abstractions:                             *)
(*   - clocks are kept as what is left of them: ttl[i] is deadline - now,  *)
(*     quiet is now - quiet_since (saturating), rttl is resync_deadline -  *)
(*     now.  "now >= deadline" is "ttl = 0";                               *)
(*   - the queue is the set of queued ids: ids grow and expire() rotates   *)
(*     the whole queue, so queue order is id order;                        *)
(*   - a line is one of the classes record() tells apart, and arrives as   *)
(*     a first piece and a last piece (with its terminator).               *)
(***************************************************************************)
EXTENDS Naturals, FiniteSets

CONSTANTS
    QUEUE_COMMANDS,     \* commands that may wait (64 in the code)
    SILENCE_MS,         \* silence required before a probe (300)
    RESYNC_TIMEOUT_MS,  \* time allowed to a probe (5000)
    RESYNC_ATTEMPTS,    \* probes before giving up (3)
    TRANSACTION_BYTES,  \* input pieces one transaction may take
    MAX_LINES,          \* intermediate lines a command accepts
    WRITE_BYTES,        \* pieces a command or a probe is written in
    Timeouts,           \* deadlines a caller asks for, relative to now
    MaxId               \* bound: commands enqueued in one behaviour

ASSUME EngineConstants ==
    /\ QUEUE_COMMANDS \in Nat \ {0}
    /\ SILENCE_MS \in Nat \ {0}
    /\ RESYNC_TIMEOUT_MS \in Nat \ {0}
    /\ RESYNC_ATTEMPTS \in Nat
    /\ TRANSACTION_BYTES \in Nat
    /\ MAX_LINES \in Nat
    /\ WRITE_BYTES \in Nat \ {0}
    /\ Timeouts \subseteq Nat
    /\ MaxId \in Nat

VARIABLE eng

Ids == 1 .. MaxId
None == 0

Errors == {"ClockRegression", "StaleProgress", "InvalidProgress",
           "UnexpectedFinal", "Timeout", "LineTooLarge",
           "TransactionTooLarge", "TooManyLines", "ResyncFailed"}

\* The classes of lines record() distinguishes: the final OK, any other
\* standard final, the final a command declared as an extra, a line with the
\* command's expected prefix, an answer to the probe, everything else.
Lines == {"OK", "ERROR", "EXTRA", "PREFIX", "CMEE", "OTHER"}

Quarantine == {"Silence", "ProbeWriting", "ProbeReading"}
Phases == {"Idle", "Writing", "Reading", "Failed"} \cup Quarantine

\* The engine's flags: late_finals holds the declared finals of the command
\* it gave up on, a probe's "+CMEE:" line was seen, and (for the host) a token
\* was withdrawn before its bytes were all written.
Flags == {"late_finals", "resync_intermediate", "withdrawn"}

EngineType ==
    [phase: Phases, next_id: 0 .. MaxId, queue: SUBSET Ids,
     active: Ids \cup {None}, ttl: [Ids -> Nat], extra: SUBSET Ids,
     flags: SUBSET Flags, framer: {"empty", "part", "dropping"},
     unsent: 0 .. WRITE_BYTES,
     quiet: 0 .. SILENCE_MS, rttl: 0 .. RESYNC_TIMEOUT_MS,
     attempts: 0 .. RESYNC_ATTEMPTS,
     lines: 0 .. MAX_LINES, received: 0 .. TRANSACTION_BYTES + 1,
     completions: [Ids -> Nat], result: [Ids -> {"none", "Ok"} \cup Errors]]

Init ==
    eng = [phase |-> "Idle", next_id |-> 0, queue |-> {}, active |-> None,
           ttl |-> [i \in Ids |-> 0], extra |-> {}, flags |-> {},
           framer |-> "empty", unsent |-> 0, quiet |-> 0, rttl |-> 0,
           attempts |-> 0, lines |-> 0, received |-> 0,
           completions |-> [i \in Ids |-> 0],
           result |-> [i \in Ids |-> "none"]]

-----------------------------------------------------------------------------
(* The private operations of Engine, as operators on the engine record.    *)

IsQuarantined(e) == e.phase \in Quarantine
Waiting(e) == e.queue \cup ({e.active} \ {None})

\* complete(): the Completed event of every command in ids.
Complete(e, ids, res) ==
    [e EXCEPT !.completions = [i \in Ids |-> @[i] + IF i \in ids THEN 1 ELSE 0],
              !.result = [i \in Ids |-> IF i \in ids THEN res ELSE @[i]],
              !.ttl = [i \in Ids |-> IF i \in ids THEN 0 ELSE @[i]],
              !.extra = @ \ ids,
              !.queue = @ \ ids,
              !.active = IF @ \in ids THEN None ELSE @]

ClearWrite(e) ==
    [e EXCEPT !.unsent = 0,
              !.flags = IF e.unsent > 0 THEN @ \cup {"withdrawn"} ELSE @]

\* Mutant of Fail: only the active command is answered.
FailKeepsQueue(e, error) ==
    LET c == ClearWrite(Complete(e, {e.active} \ {None}, error))
    IN  [c EXCEPT !.phase = "Failed", !.framer = "empty"]

Fail(e, error) ==
    LET c == ClearWrite(Complete(e, Waiting(e), error))
    IN  [c EXCEPT !.phase = "Failed", !.framer = "empty"]

\* Mutant of EnterSilence: the outstanding write is not withdrawn.
SilenceKeepsWrite(e) ==
    [e EXCEPT !.phase = "Silence", !.quiet = 0,
              !.flags = @ \ {"resync_intermediate"}]

EnterSilence(e) ==
    [ClearWrite(e) EXCEPT !.phase = "Silence", !.quiet = 0,
                          !.flags = @ \ {"resync_intermediate"}]

EnterQuarantine(e, error) ==
    LET c == EnterSilence(Complete(e, {e.active} \ {None}, error))
    IN  [c EXCEPT !.attempts = 0,
                  !.flags = CASE e.active = None -> @
                              [] e.active \in e.extra -> @ \cup {"late_finals"}
                              [] OTHER -> @ \ {"late_finals"}]

\* Mutant of Expire: a command that is still being written never times out.
ExpireReadingOnly(e) ==
    LET a == IF e.active # None /\ e.phase = "Reading" /\ e.ttl[e.active] = 0
             THEN EnterQuarantine(e, "Timeout") ELSE e
    IN  IF a.phase \in {"ProbeWriting", "ProbeReading"} /\ a.rttl = 0
        THEN Fail(a, "ResyncFailed")
        ELSE Complete(a, {i \in a.queue : a.ttl[i] = 0}, "Timeout")

\* expire(): the active deadline, then the probe's, then the queue's.
Expire(e) ==
    LET a == IF e.active # None /\ e.ttl[e.active] = 0
             THEN EnterQuarantine(e, "Timeout") ELSE e
    IN  IF a.phase \in {"ProbeWriting", "ProbeReading"} /\ a.rttl = 0
        THEN Fail(a, "ResyncFailed")
        ELSE Complete(a, {i \in a.queue : a.ttl[i] = 0}, "Timeout")

\* write(): a new token over the whole text.
Write(e, phase) == [e EXCEPT !.phase = phase, !.unsent = WRITE_BYTES]

StartProbe(e) ==
    Write([e EXCEPT !.rttl = RESYNC_TIMEOUT_MS, !.attempts = @ + 1,
                    !.flags = @ \ {"resync_intermediate"}, !.framer = "empty"],
          "ProbeWriting")

StartCommand(e) ==
    LET next == CHOOSE i \in e.queue : \A j \in e.queue : i <= j
    IN  Write([e EXCEPT !.active = next, !.queue = @ \ {next},
                        !.lines = 0, !.received = 0], "Writing")

-----------------------------------------------------------------------------
(* record(): what a complete line does.                                    *)

StandardFinal(line) == line \in {"OK", "ERROR"}
QueuedFinal(e, line) == line = "EXTRA" /\ e.queue \cap e.extra # {}

\* Mutant of RecordQuarantined: any OK answers the probe.
RecordAnyOk(e, line) ==
    LET terminal == \/ StandardFinal(line)
                    \/ line = "EXTRA" /\ "late_finals" \in e.flags
                    \/ QueuedFinal(e, line)
        matched == e.phase = "ProbeReading" /\ line = "OK"
    IN  CASE terminal /\ matched ->
               [e EXCEPT !.phase = "Idle",
                         !.flags = @ \ {"late_finals", "resync_intermediate"}]
          [] terminal /\ ~matched -> EnterSilence(e)
          [] OTHER -> e

RecordQuarantined(e, line) ==
    LET terminal == \/ StandardFinal(line)
                    \/ line = "EXTRA" /\ "late_finals" \in e.flags
                    \/ QueuedFinal(e, line)
        matched == /\ e.phase = "ProbeReading"
                   /\ "resync_intermediate" \in e.flags
                   /\ line = "OK"
    IN  CASE terminal /\ matched ->
               [e EXCEPT !.phase = "Idle",
                         !.flags = @ \ {"late_finals", "resync_intermediate"}]
          [] terminal /\ ~matched -> EnterSilence(e)
          [] ~terminal /\ e.phase = "ProbeReading" /\ line = "CMEE" ->
               [e EXCEPT !.flags = @ \cup {"resync_intermediate"}]
          [] OTHER -> e

RecordActive(e, line) ==
    LET terminal == StandardFinal(line) \/ (line = "EXTRA" /\ e.active \in e.extra)
        reading == e.phase = "Reading"
    IN  CASE terminal /\ ~reading -> EnterQuarantine(e, "UnexpectedFinal")
          [] terminal /\ reading ->
               [Complete(e, {e.active}, "Ok") EXCEPT !.phase = "Idle"]
          [] line = "PREFIX" /\ reading /\ e.lines = MAX_LINES ->
               EnterQuarantine(e, "TooManyLines")
          [] line = "PREFIX" /\ reading /\ e.lines < MAX_LINES ->
               [e EXCEPT !.lines = @ + 1]
          [] OTHER -> e

\* Mutant of Record: a final nobody waits for is credited to the next command.
RecordCredited(e, line) ==
    CASE IsQuarantined(e) -> RecordQuarantined(e, line)
      [] ~IsQuarantined(e) /\ e.active # None -> RecordActive(e, line)
      [] OTHER -> IF StandardFinal(line) /\ e.queue # {}
                  THEN Complete(e, {CHOOSE i \in e.queue : \A j \in e.queue : i <= j}, "Ok") ELSE e

Record(e, line) ==
    CASE IsQuarantined(e) -> RecordQuarantined(e, line)
      [] ~IsQuarantined(e) /\ e.active # None -> RecordActive(e, line)
      [] OTHER -> IF StandardFinal(line) \/ QueuedFinal(e, line)
                  THEN EnterQuarantine(e, "UnexpectedFinal") ELSE e

\* The bookkeeping feed() does for every byte before the framer sees it.
CountInput(e) ==
    LET q == IF IsQuarantined(e) THEN [e EXCEPT !.quiet = 0] ELSE e
        c == IF q.active # None THEN [q EXCEPT !.received = @ + 1] ELSE q
    IN  IF c.active # None /\ c.received > TRANSACTION_BYTES
        THEN EnterQuarantine(c, "TransactionTooLarge") ELSE c

\* Framer::push on the first piece of a line; a line longer than LINE_BYTES
\* overflows the framer on its first piece.
PushFirst(e, large) ==
    CASE e.framer = "dropping" -> e
      [] e.framer # "dropping" /\ large ->
           EnterQuarantine([e EXCEPT !.framer = "dropping"], "LineTooLarge")
      [] OTHER -> [e EXCEPT !.framer = "part"]

\* Framer::push on the last piece: the line is whole only if the framer still
\* holds its first piece, otherwise what is left of it is no line of the peer.
PushLast(e, line) ==
    LET clear == [e EXCEPT !.framer = "empty"]
    IN  CASE e.framer = "dropping" -> clear
          [] e.framer = "part" -> Record(clear, line)
          [] OTHER -> Record(clear, "OTHER")

-----------------------------------------------------------------------------
(* The public handlers: clock() and expire() first, then the handler.      *)

Running == eng.phase # "Failed"
Expired == Expire(eng)

\* A handler stops where expire() failed the engine.
Continue(next) == eng' = IF Expired.phase = "Failed" THEN Expired ELSE next

Enqueue(timeout, extra) ==
    /\ Running
    /\ Cardinality(eng.queue) < QUEUE_COMMANDS
    /\ eng.next_id < MaxId
    /\ LET id == eng.next_id + 1 IN
       eng' = [eng EXCEPT !.next_id = id, !.queue = @ \cup {id},
                          !.ttl[id] = timeout,
                          !.extra = IF extra THEN @ \cup {id} ELSE @]

TickHandler(e) ==
    CASE e.phase = "Silence" /\ e.quiet = SILENCE_MS ->
           IF e.attempts = RESYNC_ATTEMPTS THEN Fail(e, "ResyncFailed") ELSE StartProbe(e)
      [] e.phase = "Idle" /\ e.framer # "part" /\ e.queue # {} -> StartCommand(e)
      [] OTHER -> e

Tick == Running /\ Continue(TickHandler(Expired))

\* accept_written() with the token the engine handed out last.
WrittenHandler(e, bytes) ==
    CASE bytes = 0 \/ bytes > e.unsent -> Fail(e, "InvalidProgress")
      [] bytes > 0 /\ bytes < e.unsent -> [e EXCEPT !.unsent = @ - bytes]
      [] OTHER -> [e EXCEPT !.unsent = 0,
                            !.phase = IF @ = "Writing" THEN "Reading" ELSE "ProbeReading"]

AcceptWritten(bytes) ==
    /\ Running
    /\ eng.unsent > 0
    /\ IF eng.active # None /\ eng.ttl[eng.active] = 0
       THEN eng' = Expire(eng)
       ELSE Continue(WrittenHandler(Expired, bytes))

\* accept_written() with a token withdrawn by an earlier clear_write().
AcceptStale ==
    /\ Running
    /\ "withdrawn" \in eng.flags
    /\ Continue(Fail(Expired, "StaleProgress"))

FeedFirst(large) ==
    Running /\ Continue(PushFirst(CountInput(Expired), large))

FeedLast(line) ==
    Running /\ Continue(PushLast(CountInput(Expired), line))

\* Any call with a clock behind the previous call's.
ClockRegression == Running /\ eng' = Fail(eng, "ClockRegression")

\* Time passes between two calls.
Elapse ==
    /\ Running
    /\ eng' = [eng EXCEPT !.ttl = [i \in Ids |-> IF @[i] = 0 THEN 0 ELSE @[i] - 1],
                          !.quiet = IF @ < SILENCE_MS THEN @ + 1 ELSE @,
                          !.rttl = IF @ = 0 THEN 0 ELSE @ - 1]

Next ==
    \/ \E t \in Timeouts, x \in BOOLEAN : Enqueue(t, x)
    \/ Tick
    \/ \E n \in 0 .. WRITE_BYTES : AcceptWritten(n)
    \/ AcceptStale
    \/ \E large \in BOOLEAN : FeedFirst(large)
    \/ \E line \in Lines : FeedLast(line)
    \/ ClockRegression
    \/ Elapse

Spec == Init /\ [][Next]_eng

\* The host calls tick() again and again and time passes; nothing is assumed
\* of what the modem sends.
FairSpec == Spec /\ WF_eng(Tick) /\ WF_eng(Elapse)

-----------------------------------------------------------------------------
(* Properties.                                                             *)

\* Every field of the engine stays in its range, the counters bounded by
\* RESYNC_ATTEMPTS, max_lines and TRANSACTION_BYTES included.
TypeOK == eng \in EngineType

Accounted(e) ==
    /\ e.active \notin e.queue
    /\ \A i \in Ids :
         /\ e.completions[i] =
              IF i <= e.next_id /\ i \notin Waiting(e) THEN 1 ELSE 0
         /\ i \in Waiting(e) => i <= e.next_id

\* Every id enqueue() returned is answered by exactly one Completed event:
\* it is queued, or active, or completed once, whichever of the six ways of
\* ending a command (final, deadline active or queued, quarantine, overflow,
\* failure) came first; an id not yet given out is none of these, and a
\* failed engine holds no command back.
CompletedOnce == Accounted(eng) /\ (eng.phase = "Failed" => eng.queue = {})

Coherent(e) ==
    /\ e.active # None <=> e.phase \in {"Writing", "Reading"}
    /\ e.unsent > 0 <=> e.phase \in {"Writing", "ProbeWriting"}

\* The phase, the active command and the outstanding write agree: a command
\* is active exactly while it is written or read, and a token is outstanding
\* exactly while a command or a probe is being written, so the last arm of
\* accept_written() (InvalidProgress for any other phase) is unreachable.
WriteCoherent == Coherent(eng)

\* Every command handed to enqueue() is completed, whatever the modem sends or
\* does not send: its deadline is acted on while it is queued, written and read
\* (expire).
EveryCommandEnds == \A i \in Ids : i \in Waiting(eng) ~> eng.completions[i] = 1

Requests == INSTANCE RequestService
            WITH given <- eng.next_id, open <- Waiting(eng), serving <- eng.active,
                 answer <- eng.result

\* The engine implements the request service: commands are started in the order
\* enqueue() took them, one at a time; a command is answered Ok only while it is
\* the active one, so a late or stray final is never credited to a command still
\* queued (record, expire, quarantine); and a result once reported stays.
ServesRequests == Requests!Spec

=============================================================================
