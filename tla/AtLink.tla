------------------------------- MODULE AtLink -------------------------------
(***************************************************************************)
(* The AT engine joined to the modem behind its channel.                   *)
(*                                                                         *)
(* The engine is AtEngine's; the host calls it as Core and Reactor do      *)
(* (enqueue, tick, write what is pending and report it, feed what was      *)
(* read).  The modem is external: it works through the command lines it    *)
(* received in order, answers late or never, and sends lines of its own.   *)
(* Every line carries the command it answers, which the engine never       *)
(* sees; `from` records whose final line completed each command.           *)
(***************************************************************************)
EXTENDS AtEngine, Sequences

CONSTANTS
    ExtraIds,       \* commands that declare an extra final
    Prompt,         \* TRUE: lines are read at once and probes answered soon
    ProbeLatency,   \* the pause the modem may then make before a probe's answer
    NoiseLines,     \* lines the modem may send unasked
    MaxNoise,       \* bound: unasked lines in one behaviour
    MaxInbox        \* bound: command lines the modem's input buffer holds

VARIABLES
    inbox,  \* command lines the modem has yet to answer, by owner
    dirty,  \* its line buffer holds the start of a withdrawn command
    wire,   \* answer lines on their way to the engine
    cut,    \* the first piece of the first of them was already read
    age,    \* time the modem has paused before a probe's answer
    noise,  \* unasked lines still allowed
    from    \* whose final completed each command

link == <<inbox, dirty, wire, cut, age, noise, from>>

\* Owners of a line that are no command of the host.
Probe == MaxId + 1
Garbled == MaxId + 2
Unasked == MaxId + 3

LinkInit ==
    /\ Init
    /\ inbox = <<>> /\ dirty = FALSE /\ wire = <<>> /\ cut = FALSE
    /\ age = 0 /\ noise = MaxNoise
    /\ from = [i \in Ids |-> None]

-----------------------------------------------------------------------------
(* The host.                                                               *)

\* A text of which a part was written is given up: the modem keeps that part.
KeepsPart == dirty' = (dirty \/ (eng.unsent \in 1 .. WRITE_BYTES - 1 /\ eng'.unsent # eng.unsent))

HostEnqueue ==
    /\ \E t \in Timeouts : Enqueue(t, eng.next_id + 1 \in ExtraIds)
    /\ UNCHANGED link

HostTick ==
    /\ Tick
    /\ KeepsPart
    /\ UNCHANGED <<inbox, wire, cut, age, noise, from>>

\* One write of the reactor: bytes leave, then the engine hears of them.  The
\* modem may miss a command line altogether.
HostWrite(bytes) ==
    /\ bytes <= eng.unsent
    /\ AcceptWritten(bytes)
    /\ IF bytes = eng.unsent
       THEN /\ Len(inbox) < MaxInbox
            /\ \/ UNCHANGED inbox
               \/ inbox' = Append(inbox, CASE dirty -> Garbled
                                           [] ~dirty /\ eng.active = None -> Probe
                                           [] OTHER -> eng.active)
            /\ dirty' = FALSE
       ELSE /\ dirty' = (dirty \/ eng'.phase # eng.phase)
            /\ UNCHANGED inbox
    /\ UNCHANGED <<wire, cut, age, noise, from>>

HostReadFirst ==
    /\ wire # <<>> /\ ~cut
    /\ FeedFirst(Head(wire).line = "LARGE")
    /\ cut' = TRUE
    /\ KeepsPart
    /\ UNCHANGED <<inbox, wire, age, noise, from>>

HostReadLast ==
    /\ cut
    /\ LET line == Head(wire) IN
       /\ FeedLast(IF line.line = "LARGE" THEN "OTHER" ELSE line.line)
       /\ from' = [i \in Ids |-> IF /\ i = eng.active
                                   /\ eng'.result[i] = "Ok"
                                 THEN line.owner ELSE from[i]]
    /\ wire' = Tail(wire) /\ cut' = FALSE
    /\ age' = IF Head(wire).owner = Unasked THEN age ELSE 0
    /\ KeepsPart
    /\ UNCHANGED <<inbox, noise>>

-----------------------------------------------------------------------------
(* The modem.                                                              *)

Answers(owner) ==
    CASE owner = Probe -> {<<"CMEE", "OK">>, <<"ERROR">>}
      [] owner = Garbled -> {<<"ERROR">>}
      [] owner \in ExtraIds -> {<<"OK">>, <<"PREFIX", "OK">>, <<"EXTRA">>}
      [] OTHER -> {<<"OK">>, <<"PREFIX", "OK">>, <<"ERROR">>}

ModemAnswer ==
    /\ inbox # <<>>
    /\ \E answer \in Answers(Head(inbox)) :
         wire' = wire \o [k \in 1 .. Len(answer) |-> [line |-> answer[k], owner |-> Head(inbox)]]
    /\ inbox' = Tail(inbox)
    /\ UNCHANGED <<eng, dirty, cut, age, noise, from>>

ModemSpeaks ==
    /\ noise > 0 /\ ~cut
    /\ \E line \in NoiseLines : wire' = <<[line |-> line, owner |-> Unasked]>> \o wire
    /\ noise' = noise - 1
    /\ UNCHANGED <<eng, inbox, dirty, cut, age, from>>

\* What the modem owes next is the answer to a probe.
ProbeDue ==
    LET asked == SelectSeq(wire, LAMBDA l : l.owner # Unasked)
    IN  \/ asked # <<>> /\ Head(asked).owner \in {Probe, Garbled}
        \/ asked = <<>> /\ inbox # <<>> /\ Head(inbox) \in {Probe, Garbled}

LinkElapse ==
    /\ Prompt => wire = <<>> /\ (ProbeDue => age < ProbeLatency)
    /\ Elapse
    /\ age' = IF Prompt /\ ProbeDue THEN age + 1 ELSE 0
    /\ UNCHANGED <<inbox, dirty, wire, cut, noise, from>>

LinkNext ==
    \/ HostEnqueue
    \/ HostTick
    \/ \E n \in 1 .. WRITE_BYTES : HostWrite(n)
    \/ HostReadFirst
    \/ HostReadLast
    \/ ModemAnswer
    \/ ModemSpeaks
    \/ LinkElapse

-----------------------------------------------------------------------------
(* Properties.                                                             *)

\* When tick() starts a command, the modem owes the channel nothing: no line of
\* an earlier command or probe is unanswered or on the wire.  So a command that
\* completes with Ok completes with the final line the modem sent for that very
\* command, never with a late answer: what the quarantine of engine.rs exists
\* for.  It takes a modem that does not pause as long as SILENCE_MS before a
\* probe's answer.
AttributionStep ==
    /\ eng.phase = "Idle" /\ eng'.phase = "Writing"
         => inbox = <<>> /\ \A k \in DOMAIN wire : wire[k].owner = Unasked
    /\ \A i \in Ids : eng'.result[i] = "Ok" => from'[i] = i

=============================================================================
