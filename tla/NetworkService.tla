---------------------------- MODULE NetworkService ----------------------------
(***************************************************************************)
(* The network service of the open radio HAL (modem/radio/network) and the *)
(* indication policy it drives (modem/radio/state/policy.rs): requests are *)
(* answered from the model, by a read of the modem that several requests   *)
(* may share, or by a queue of control jobs whose steps turn the modem's   *)
(* reporting up or down.                                                   *)
(*                                                                         *)
(* A step's id is abstracted to its control and its attempt (the command   *)
(* or the fallback).  `actual` is what the modem really reports, changed   *)
(* by the commands it confirms.  The core calls the service only while it  *)
(* is ready.  A reset answers everything and forgets what was applied; an  *)
(* engine error ends the active command, whose effect is then unknown, and *)
(* the core resets in the same call.                                       *)
(***************************************************************************)
EXTENDS Naturals, Sequences, SequencesExt

CONSTANTS
    Filters,        \* the indication filters a client sets
    FullChannels,   \* the channels whose command queue may be met full
    MaxSerial,      \* bound: requests in one behaviour
    MaxTrouble      \* bound: resets, and handlers that meet a full queue

VARIABLES
    net,        \* struct Network, with its Policy
    actual,     \* what each control is set to in the modem
    ready,      \* Core::ready: the boot sequence is over
    next,       \* requests submitted so far
    trouble     \* full queues and resets so far

vars == <<net, actual, ready, next, trouble>>

Serials == 1 .. MaxSerial
None == 0
Kinds == {"operator", "signal"}
Controls == <<"Signal", "Cs", "Ps", "Screen">>
ChannelOf(what) ==
    CASE what = "operator" -> 6 [] what = "Screen" -> 3 [] OTHER -> 1

\* What a filter asks of each control.
Wanted(filter, control) ==
    CASE control = "Signal" -> "signal" \in filter
      [] control \in {"Cs", "Ps"} -> "network" \in filter
      [] OTHER -> filter # {}

Step(control, enabled) == [control |-> control, enabled |-> enabled, try |-> 1]
HasFallback(step) == step.control \in {"Cs", "Ps"} /\ ~step.enabled /\ step.try = 1
Criteria == Step("Criteria", TRUE)
Idle == Step("none", FALSE)

Init ==
    /\ net = [reading |-> {}, readers |-> [k \in Kinds |-> {}], waiters |-> {},
              desired |-> {}, set |-> FALSE,
              applied |-> [k \in 1 .. 4 |-> {}], pending |-> <<>>,
              controls |-> <<>>, filters |-> <<>>,
              answers |-> [s \in Serials |-> 0],
              clean |-> TRUE]
    /\ actual = [k \in 1 .. 4 |-> {}]
    /\ ready = FALSE /\ next = 0 /\ trouble = 0

Respond(n, serials) ==
    [n EXCEPT !.answers = [s \in Serials |-> @[s] + IF s \in serials THEN 1 ELSE 0]]

-----------------------------------------------------------------------------
(* Policy.                                                                 *)

\* The steps that bring the modem to the filter; none while steps are pending.
Reconcile(n, filter) ==
    IF n.pending # <<>> THEN <<>>
    ELSE LET changed == SelectSeq(<<1, 2, 3, 4>>,
                          LAMBDA k : n.applied[k] # {Wanted(filter, Controls[k])})
         IN  [j \in 1 .. Len(changed) |->
                Step(Controls[changed[j]], Wanted(filter, Controls[changed[j]]))]

Index(control) == CHOOSE k \in 1 .. 4 : Controls[k] = control

\* complete(): the fallback replaces a refused step, else the step is over.
PolicyComplete(n, step, success) ==
    CASE n.pending = <<>> \/ Head(n.pending) # step -> n
      [] ~success /\ HasFallback(step) -> [n EXCEPT !.pending[1].try = 2]
      [] ~success /\ ~HasFallback(step) -> [n EXCEPT !.pending = Tail(@)]
      [] OTHER -> [n EXCEPT !.pending = Tail(@),
                            !.applied[Index(step.control)] = {step.enabled}]

-----------------------------------------------------------------------------
(* Network; `full` is the set of channels whose command queue is full.     *)

\* Mutant of Read: a request whose command finds no room is dropped.
ReadDrops(n, kind, serials, full) ==
    CASE kind \in n.reading -> [n EXCEPT !.readers[kind] = @ \cup serials]
      [] kind \notin n.reading /\ ChannelOf(kind) \in full -> n
      [] OTHER -> [n EXCEPT !.reading = @ \cup {kind}, !.readers[kind] = serials]

Read(n, kind, serials, full) ==
    CASE kind \in n.reading -> [n EXCEPT !.readers[kind] = @ \cup serials]
      [] kind \notin n.reading /\ ChannelOf(kind) \in full -> Respond(n, serials)
      [] OTHER -> [n EXCEPT !.reading = @ \cup {kind}, !.readers[kind] = serials]

\* The step of the first job ended, well or badly.
EndStep(n, step, success) ==
    LET p == IF step.control = "Criteria" THEN n ELSE PolicyComplete(n, step, success)
        refused == step.control # "Criteria" /\ ~success /\ HasFallback(step)
    IN  [p EXCEPT !.controls[1].active = Idle,
                  !.controls[1].steps = IF refused THEN <<[step EXCEPT !.try = 2]>> \o @ ELSE @,
                  !.controls[1].error = @ \/ (~success /\ ~refused)]

RECURSIVE StartControl(_, _)
StartControl(n, full) ==
    CASE n.controls = <<>> /\ n.filters = <<>> -> n
      [] n.controls = <<>> /\ n.filters # <<>> ->
           LET steps == Reconcile(n, Head(n.filters).filter)
               job == [serial |-> Head(n.filters).serial, steps |-> steps, active |-> Idle,
                       refresh |-> Contains(steps, Step("Signal", TRUE)), error |-> FALSE,
                       filter |-> TRUE]
           IN  StartControl([n EXCEPT !.filters = Tail(@), !.controls = <<job>>,
                                      !.pending = IF steps = <<>> THEN @ ELSE steps], full)
      [] n.controls # <<>> /\ n.controls[1].active # Idle -> n
      [] n.controls # <<>> /\ n.controls[1].active = Idle /\ n.controls[1].steps = <<>> ->
           LET job == n.controls[1]
               over == Respond([n EXCEPT !.controls = Tail(@),
                                         !.clean = IF job.filter THEN ~job.error ELSE @],
                               {job.serial} \ {None})
           IN  StartControl(IF job.refresh /\ ~job.error
                            THEN Read(over, "signal", {}, full) ELSE over, full)
      [] OTHER ->
           LET step == Head(n.controls[1].steps)
               taken == [n EXCEPT !.controls[1].steps = Tail(@)]
           IN  IF ChannelOf(step.control) \notin full
               THEN [taken EXCEPT !.controls[1].active = step]
               ELSE StartControl([EndStep(taken, step, FALSE) EXCEPT !.controls[1].error = TRUE], full)

\* reset(): everything that waits is answered, what was applied is forgotten.
Waiting(n) ==
    UNION {n.readers[k] : k \in n.reading} \cup n.waiters
      \cup {n.controls[k].serial : k \in DOMAIN n.controls}
      \cup {n.filters[k].serial : k \in DOMAIN n.filters}

ResetNetwork(n) ==
    [Respond(n, Waiting(n) \ {None})
       EXCEPT !.reading = {}, !.readers = [k \in Kinds |-> {}], !.waiters = {},
              !.controls = <<>>, !.filters = <<>>,
              !.applied = [k \in 1 .. 4 |-> {}], !.pending = <<>>]

-----------------------------------------------------------------------------
(* Actions.                                                                *)

\* A handler runs with some channels full.
With(Handler(_)) ==
    \E full \in SUBSET FullChannels :
      /\ full # {} => trouble < MaxTrouble
      /\ trouble' = trouble + IF full = {} THEN 0 ELSE 1
      /\ net' = Handler(full)

\* The next request, submitted while the core is ready.
Submitted == ready /\ next < MaxSerial /\ next' = next + 1 /\ UNCHANGED <<actual, ready>>

\* Answered from the model, or refused.
GetFromModel == Submitted /\ net' = Respond(net, {next'}) /\ UNCHANGED trouble

GetSelectionMode ==
    /\ Submitted
    /\ net' = IF "operator" \in net.reading
              THEN [net EXCEPT !.waiters = @ \cup {next'}] ELSE Respond(net, {next'})
    /\ UNCHANGED trouble

GetRead(kind) == Submitted /\ With(LAMBDA full : Read(net, kind, {next'}, full))

SetFilter(filter) ==
    /\ Submitted
    /\ With(LAMBDA full :
              StartControl([net EXCEPT !.desired = filter, !.set = TRUE,
                              !.filters = Append(@, [serial |-> next', filter |-> filter])], full))

SetCriteria(count) ==
    /\ Submitted
    /\ With(LAMBDA full :
              StartControl([net EXCEPT !.controls = Append(@,
                 [serial |-> next', steps |-> [k \in 1 .. count |-> Criteria], active |-> Idle,
                  refresh |-> FALSE, error |-> FALSE, filter |-> FALSE])], full))

\* A read is over: its sharers are answered, and after an operator read those
\* who asked for the selection mode.
Served(n, kind) ==
    LET served == n.readers[kind] \cup IF kind = "operator" THEN n.waiters ELSE {}
    IN  [Respond(n, served) EXCEPT !.reading = @ \ {kind}, !.readers[kind] = {},
                                   !.waiters = IF kind = "operator" THEN {} ELSE @]

\* on_event: the command of a read completed.
ReadCompleted(kind) ==
    /\ ready /\ kind \in net.reading
    /\ net' = Served(net, kind)
    /\ UNCHANGED <<actual, ready, next, trouble>>

\* on_event: the active control step completed; the modem obeys what it
\* confirms.
StepCompleted(success) ==
    /\ ready /\ net.controls # <<>> /\ net.controls[1].active # Idle
    /\ LET step == net.controls[1].active IN
       /\ With(LAMBDA full : StartControl(EndStep(net, step, success), full))
       /\ actual' = [k \in 1 .. 4 |->
                       IF success /\ step.control = Controls[k] THEN {step.enabled} ELSE actual[k]]
    /\ UNCHANGED <<ready, next>>

\* Core::on_reset on a deadline or a lost modem, or on an engine error, whose
\* Completed event for the active command the service handles first.
Failures ==
    {net} \cup {Served(net, kind) : kind \in net.reading}
      \cup IF net.controls = <<>> THEN {}
           ELSE {StartControl(EndStep(net, net.controls[1].active, FALSE), {})}

Reset ==
    /\ ready /\ trouble < MaxTrouble
    /\ ready' = FALSE /\ trouble' = trouble + 1
    /\ \E n \in Failures : net' = ResetNetwork(n)
    /\ actual' = [k \in 1 .. 4 |-> {}]
    /\ UNCHANGED next

\* The boot sequence ends: reporting was switched on, the last filter asked
\* for is applied again.
Restore ==
    /\ ~ready /\ ready' = TRUE
    /\ actual' = [k \in 1 .. 4 |-> IF k = 4 THEN {} ELSE {TRUE}]
    /\ With(LAMBDA full :
              IF net.set
              THEN StartControl([net EXCEPT !.filters =
                      Append(@, [serial |-> None, filter |-> net.desired])], full)
              ELSE net)
    /\ UNCHANGED next

Next ==
    \/ GetFromModel \/ GetSelectionMode \/ \E kind \in Kinds : GetRead(kind)
    \/ \E filter \in Filters : SetFilter(filter)
    \/ \E count \in 0 .. 1 : SetCriteria(count)
    \/ \E kind \in Kinds : ReadCompleted(kind)
    \/ \E success \in BOOLEAN : StepCompleted(success)
    \/ Reset \/ Restore

Spec == Init /\ [][Next]_vars

-----------------------------------------------------------------------------
(* Properties.                                                             *)

\* Every request is answered once or still waits in exactly one place: a
\* shared read, the queue of selection-mode requests, the jobs or the filters.
RequestsAccounted ==
    \A s \in Serials :
      net.answers[s] = IF s <= next /\ s \notin Waiting(net) THEN 1 ELSE 0

\* A request for the selection mode waits only while an operator read is
\* under way, whose completion answers it.
WaitersHaveReader == net.waiters # {} => "operator" \in net.reading

\* The policy's pending steps are the steps of the first job, in order, so
\* complete() is never called for another step and reconcile() never returns
\* nothing because an earlier job is unfinished; and what the policy believes
\* applied is what the modem last confirmed, since a command whose effect is
\* unknown ends in a reset.
PolicyInSync ==
    /\ net.pending =
         IF net.controls = <<>> THEN <<>>
         ELSE LET job == net.controls[1]
              IN  SelectSeq((IF job.active = Idle THEN <<>> ELSE <<job.active>>) \o job.steps,
                            LAMBDA s : s.control # "Criteria")
    /\ \A k \in 1 .. 4 : net.applied[k] # {} => net.applied[k] = actual[k]

\* When no job is left and the newest filter's job ended without an error, the
\* modem reports exactly what that filter asks for (with the screen off,
\* nothing): an older filter, queued, restored after a reset or overtaken by
\* criteria, never has the last word.
NewestFilterRules ==
    ready /\ net.set /\ net.controls = <<>> /\ net.clean =>
      \A k \in 1 .. 4 : actual[k] = {Wanted(net.desired, Controls[k])}

=============================================================================
