------------------------------ MODULE RadioCore ------------------------------
(***************************************************************************)
(* The core of the open radio HAL (modem/radio/core): it boots the modem   *)
(* with a sequence of AT commands, keeps the requests that arrive before   *)
(* the boot is over, hands the others to the network and modem services,   *)
(* owns the state model (modem/radio/state/model.rs), turns its changes    *)
(* into indications and answers everything when the modem is lost.         *)
(*                                                                         *)
(* The services are what the core sees of them: ids they hold, answers and *)
(* model updates they hand back.  Ages stand for deadlines: a deadline is  *)
(* due when the age reaches its timeout.                                   *)
(***************************************************************************)
EXTENDS Naturals, Sequences, SequencesExt, FiniteSets

CONSTANTS
    COMMAND_TIMEOUT_MS, BOOT_TIMEOUT_MS, REQUEST_LIMIT,
    Lateness,       \* how late the reactor may call after a deadline
    MaxId,          \* bound: requests in one behaviour
    MaxResets       \* bound: resets of the modem

VARIABLES
    core,       \* struct Core
    total,      \* time since each request was submitted
    late,       \* time since a deadline passed without a call of tick()
    next        \* requests submitted so far

vars == <<core, total, late, next>>

Ids == 1 .. MaxId
Services == {"network", "modem"}

\* Two required commands, an optional one and the one with a simpler form
\* stand for the eleven of the boot sequence.
BootSteps == <<"CMER", "ICCID", "EGREG=3,1", "ECSQ">>
Required(step) == step # "ICCID"

Registrations == {[state |-> 1, cell |-> 1], [state |-> 1, cell |-> 2], [state |-> 2, cell |-> 1]}
Unknown == [state |-> 0, cell |-> 0]
Fresh == [radio |-> "unavailable", reg |-> Unknown]

\* begin_boot and advance_boot on a new sequence: the first command is queued.
BeginBoot(c) ==
    [c EXCEPT !.boot = Tail(BootSteps), !.active = Head(BootSteps), !.bootAge = 0, !.stepAge = 0]

Init ==
    /\ core = BeginBoot([available |-> TRUE, ready |-> FALSE, generation |-> 0,
                boot |-> <<>>, active |-> "none", bootAge |-> 0, stepAge |-> 0,
                state |-> [i \in Ids |-> "none"], age |-> [i \in Ids |-> 0],
                held |-> {}, answers |-> [i \in Ids |-> 0],
                model |-> Fresh, told |-> Fresh, filter |-> FALSE])
    /\ total = [i \in Ids |-> 0] /\ late = 0 /\ next = 0

Live(c) == {i \in Ids : c.state[i] # "none"}

\* finish(): answers a request the core still knows.
Finish(c, ids) ==
    LET known == ids \cap Live(c)
    IN  [c EXCEPT !.state = [i \in Ids |-> IF i \in known THEN "none" ELSE @[i]],
                  !.age = [i \in Ids |-> IF i \in known THEN 0 ELSE @[i]],
                  !.answers = [i \in Ids |-> @[i] + IF i \in known THEN 1 ELSE 0],
                  !.held = @ \ ids]

-----------------------------------------------------------------------------
(* The model and its indications.                                          *)

\* apply() of a registration: an essential change is always indicated, another
\* only with the filter on.
ApplyRegistration(c, reg) ==
    LET changed == reg # c.model.reg
        essential == c.model.reg = Unknown \/ reg.state # c.model.reg.state
    IN  [c EXCEPT !.model.reg = reg,
                  !.told.reg = IF changed /\ (essential \/ c.filter) THEN reg ELSE @]

\* apply() of a radio state.
ApplyRadio(c, radio) ==
    [c EXCEPT !.model.radio = radio,
              !.told.radio = IF radio # c.model.radio THEN radio ELSE @]

-----------------------------------------------------------------------------
(* Requests, boot and reset.                                               *)

\* execute(): the service answers at once or holds the id.
Execute(c, i, service, atOnce) ==
    LET given == [c EXCEPT !.state[i] = service, !.age[i] = 0, !.held = @ \cup {i}]
    IN  IF atOnce THEN Finish(given, {i}) ELSE given

\* advance_boot(): the next command, or the requests that waited are executed
\* in the order of their ids; `atOnce` are answered there and then.
AdvanceBoot(c, atOnce) ==
    IF c.boot # <<>>
    THEN [c EXCEPT !.boot = Tail(@), !.active = Head(c.boot), !.stepAge = 0]
    ELSE LET up == ApplyRadio([c EXCEPT !.active = "none", !.ready = TRUE,
                                        !.bootAge = 0, !.stepAge = 0], "off")
         IN  FoldLeft(LAMBDA b, i : IF b.state[i] = "waiting"
                                    THEN Execute(b, i, "network", i \in atOnce) ELSE b,
                      up, [i \in Ids |-> i])

\* Mutant of OnReset: requests that wait for the boot stay.
OnResetKeepsWaiting(c) ==
    IF ~c.available THEN c
    ELSE [Finish(c, {i \in Live(c) : c.state[i] # "waiting"}) EXCEPT
            !.available = FALSE, !.ready = FALSE, !.generation = @ + 1,
            !.held = {}, !.model = Fresh, !.told = Fresh,
            !.boot = <<>>, !.active = "none", !.bootAge = 0, !.stepAge = 0]

\* on_reset(): every request is answered, the services answer what they hold
\* (the core no longer knows those ids), the model starts afresh and the
\* clients are told.
OnReset(c) ==
    IF ~c.available THEN c
    ELSE [Finish(c, Live(c)) EXCEPT
            !.available = FALSE, !.ready = FALSE, !.generation = @ + 1,
            !.held = {}, !.model = Fresh, !.told = Fresh,
            !.boot = <<>>, !.active = "none", !.bootAge = 0, !.stepAge = 0]

-----------------------------------------------------------------------------
(* Engine events.                                                          *)

\* The events the engines can emit now.
Events ==
    [kind : {"error"}] \cup [kind : {"urc"}, reg : Registrations]
      \cup (IF core.active = "none" THEN {}
            ELSE [kind : {"boot"}, result : {"OK", "ERROR", "CME"}])
      \cup [kind : {"done"}, id : core.held, radio : {"same"}]
      \cup [kind : {"done"}, id : {i \in core.held : core.state[i] = "modem"}, radio : {"on", "off"}]

\* dispatch(): dropped when the modem is lost; a URC updates the model; a
\* service completes a request, with the new radio state if it was for power;
\* the active boot command completes.
Dispatch(c, event, atOnce) ==
    CASE ~c.available -> c
      [] c.available /\ event.kind = "urc" -> ApplyRegistration(c, event.reg)
      [] c.available /\ event.kind = "done" /\ event.id \in c.held ->
           Finish(IF event.radio = "same" THEN c ELSE ApplyRadio(c, event.radio), {event.id})
      [] c.available /\ event.kind = "error" -> OnReset(c)
      [] c.available /\ event.kind = "boot" /\ c.active # "none" ->
           LET simpler == event.result = "ERROR" /\ c.active = "EGREG=3,1" IN
           IF event.result # "OK" /\ ~simpler /\ Required(c.active) THEN OnReset(c)
           ELSE AdvanceBoot([c EXCEPT !.boot = IF simpler THEN <<"EGREG=3">> \o @ ELSE @], atOnce)
      [] OTHER -> c

-----------------------------------------------------------------------------
(* Entry points.                                                           *)

\* next_deadline() has passed.
Due(c) ==
    /\ c.available
    /\ \/ c.bootAge >= BOOT_TIMEOUT_MS
       \/ c.active # "none" /\ c.stepAge >= COMMAND_TIMEOUT_MS
       \/ \E i \in Live(c) :
            c.age[i] >= IF c.state[i] = "waiting" THEN BOOT_TIMEOUT_MS ELSE COMMAND_TIMEOUT_MS

Expire(c) == IF Due(c) THEN OnReset(c) ELSE c

\* submit(): refused, kept for the end of the boot, or executed; then the
\* engines are ticked, where a command that is out of time fails: the active
\* one with an engine error, a queued one alone.
Submit(service) ==
    /\ next < MaxId
    /\ next' = next + 1
    /\ LET i == next' IN
       core' \in
         IF ~core.available \/ Cardinality(Live(core)) >= REQUEST_LIMIT
         THEN {[core EXCEPT !.answers[i] = @ + 1]}
         ELSE LET kept == IF core.ready
                          THEN {Execute(core, i, service, atOnce) : atOnce \in BOOLEAN}
                          ELSE {[core EXCEPT !.state[i] = "waiting"]}
                  timedOut(c) == {j \in c.held : c.age[j] >= COMMAND_TIMEOUT_MS}
              IN  UNION {{c} \cup (IF Due(c) THEN {OnReset(c)} ELSE {})
                           \cup {Finish(c, {j}) : j \in timedOut(c)} : c \in kept}
    /\ UNCHANGED <<total, late>>

\* SetIndicationFilter is remembered as soon as it is submitted.
SetFilter == core.ready /\ core' = [core EXCEPT !.filter = ~@] /\ UNCHANGED <<total, late, next>>

\* on_readable and on_written: what is due resets first; then the events the
\* input produced, and the engines' ticks.
OnReadable(events, atOnce) ==
    /\ core.available
    /\ core' = FoldLeft(LAMBDA c, e : Dispatch(c, e, atOnce), Expire(core), events)
    /\ UNCHANGED <<total, late, next>>

TickCore == core' = Expire(core) /\ late' = 0 /\ UNCHANGED <<total, next>>

\* The reactor lost an endpoint.
HangUp ==
    /\ core.available
    /\ core' = OnReset(core) /\ UNCHANGED <<total, late, next>>

OnReconnect ==
    /\ ~core.available /\ core.generation < MaxResets
    /\ core' = BeginBoot([core EXCEPT !.available = TRUE]) /\ UNCHANGED <<total, late, next>>

\* Time passes; the reactor ticks no later than Lateness after a deadline.
Elapse ==
    /\ core.available /\ (~core.ready \/ Live(core) # {})
    /\ Due(core) => late < Lateness
    /\ late' = IF Due(core) THEN late + 1 ELSE 0
    /\ core' = [core EXCEPT
                  !.bootAge = IF core.ready THEN 0 ELSE @ + 1,
                  !.stepAge = IF core.active = "none" THEN 0 ELSE @ + 1,
                  !.age = [i \in Ids |-> IF i \in Live(core) THEN @[i] + 1 ELSE 0]]
    /\ total' = [i \in Ids |-> IF i \in Live(core) THEN total[i] + 1 ELSE total[i]]
    /\ UNCHANGED next

Next ==
    \/ \E service \in Services : Submit(service)
    \/ SetFilter \/ TickCore \/ HangUp \/ OnReconnect \/ Elapse
    \/ \E e1 \in Events : \E atOnce \in SUBSET Live(core) : OnReadable(<<e1>>, atOnce)
    \/ \E e1, e2 \in Events : OnReadable(<<e1, e2>>, {})

Spec == Init /\ [][Next]_vars

-----------------------------------------------------------------------------
(* Properties.                                                             *)

\* Every request is answered exactly once: refused, by a service, or by the
\* reset that found it waiting, queued or under way.
CoreAnswersOnce ==
    \A i \in Ids : core.answers[i] = IF i <= next /\ i \notin Live(core) THEN 1 ELSE 0

\* A request waits for the boot only while a boot is under way, with one of its
\* commands queued; while the modem is lost nothing waits at all, since no
\* deadline would answer it; and the services hold exactly the requests the core
\* knows as handed to them.
NoneStranded ==
    /\ \A i \in Live(core) : core.available /\ (core.state[i] = "waiting" <=> ~core.ready)
    /\ core.available /\ ~core.ready <=> core.active # "none"
    /\ core.held = {i \in Live(core) : core.state[i] # "waiting"}

\* What clients were told is the model's radio state and the essential part of
\* its registration, across resets and batches of events cut short by one.
ClientsKnow ==
    /\ core.told.radio = core.model.radio
    /\ core.told.reg.state = core.model.reg.state
    /\ ~core.available => core.model = Fresh

\* No request takes longer than the boot and one command may.
AnsweredInTime ==
    \A i \in Ids : total[i] <= BOOT_TIMEOUT_MS + COMMAND_TIMEOUT_MS + 2 * Lateness

=============================================================================
