----------------------------- MODULE ModemService -----------------------------
(***************************************************************************)
(* The modem service of the open radio HAL (modem/radio/modem): requests   *)
(* about identity, SIM slots and radio power become AT commands; requests  *)
(* for the same thing share a command, some take several commands, a busy  *)
(* SIM is asked again.  `radio` is the radio state of the core's model;    *)
(* commands complete in the order they were queued on their channel.       *)
(***************************************************************************)
EXTENDS Naturals, Sequences, SequencesExt, FiniteSets

CONSTANTS
    Reads,          \* the read requests clients make
    SLOT_ATTEMPTS,  \* commands a slots request may take (30)
    MaxSerial,      \* bound: requests in one behaviour
    MaxTrouble      \* bound: resets, and handlers that meet a full queue

VARIABLES
    pending,    \* Modem::pending, oldest first
    answers,    \* responses each serial got
    radio,      \* Model::radio
    power,      \* the newest power request since the boot, and whether it failed
    ready,      \* Core::ready
    next,       \* requests submitted so far
    trouble     \* full queues and resets so far

vars == <<pending, answers, radio, power, ready, next, trouble>>

Serials == 1 .. MaxSerial
Power == {"on", "off"}
Off == [serial |-> 0, to |-> "off", failed |-> FALSE]
ChannelOf(op) ==
    CASE op \in {"card", "slots"} -> 6 [] op \in Power -> 8 [] OTHER -> 1

Init ==
    /\ pending = <<>> /\ answers = [s \in Serials |-> 0]
    /\ radio = "unavailable" /\ power = Off
    /\ ready = FALSE /\ next = 0 /\ trouble = 0

Answered(serials) == [s \in Serials |-> answers[s] + IF s \in serials THEN 1 ELSE 0]

\* A handler runs with the command queues full or not.
Room(full) ==
    /\ full => trouble < MaxTrouble
    /\ trouble' = trouble + IF full THEN 1 ELSE 0

\* start(): the command is queued behind `others`, or its requests refused.
Start(others, request, op, serials, attempts, full) ==
    IF full THEN pending' = others /\ answers' = Answered(serials)
    ELSE /\ pending' = Append(others, [request |-> request, op |-> op,
                                       serials |-> serials, attempts |-> attempts])
         /\ UNCHANGED answers

\* The next request.
Submitted == ready /\ next < MaxSerial /\ next' = next + 1 /\ UNCHANGED <<radio, ready>>

\* Answered at once: a setting kept here, a constant, an unsupported request.
SubmitLocal ==
    Submitted /\ answers' = Answered({next'}) /\ UNCHANGED <<pending, power, trouble>>

\* A read shares the command of an equal request.
SubmitRead(request) ==
    /\ Submitted /\ UNCHANGED power
    /\ \/ \E k \in DOMAIN pending :
            /\ pending[k].request = request
            /\ pending' = [pending EXCEPT ![k].serials = @ \cup {next'}]
            /\ UNCHANGED <<answers, trouble>>
       \/ /\ ~\E k \in DOMAIN pending : pending[k].request = request
          /\ \E full \in BOOLEAN :
               Room(full) /\ Start(pending, request, request, {next'}, 0, full)

\* Mutant of SubmitPower: power requests share a command like the reads.
SubmitPowerShares(request) ==
    /\ Submitted /\ power' = [serial |-> next', to |-> request, failed |-> FALSE]
    /\ \/ \E k \in DOMAIN pending :
            /\ pending[k].op \in Power
            /\ pending' = [pending EXCEPT ![k].serials = @ \cup {next'}]
            /\ UNCHANGED <<answers, trouble>>
       \/ /\ ~\E k \in DOMAIN pending : pending[k].op \in Power
          /\ \E full \in BOOLEAN :
               Room(full) /\ Start(pending, request, request, {next'}, 0, full)

\* Every power request gets a command of its own.
SubmitPower(request) ==
    /\ Submitted
    /\ \E full \in BOOLEAN :
         /\ Room(full) /\ Start(pending, request, request, {next'}, 0, full)
         /\ power' = [serial |-> next', to |-> request, failed |-> full]

\* The commands at the head of their channels, one of which completes next.
Active == {k \in DOMAIN pending : \A j \in 1 .. k - 1 :
                                    ChannelOf(pending[j].op) # ChannelOf(pending[k].op)}

\* The command that follows in place of an answer, if any.
FollowUp(p, result) ==
    CASE p.op = "baseband" /\ result = "empty" -> "baseband_raw"
      [] p.op = "imei" /\ result = "value" -> "svn"
      [] p.op = "slots" /\ result = "busy" /\ p.attempts < SLOT_ATTEMPTS - 1 -> "slots"
      [] OTHER -> "none"

\* on_event, Completed: with a good, an empty, a busy or a refused answer.
Completed(k, result) ==
    /\ ready /\ k \in Active
    /\ LET p == pending[k]
           rest == RemoveAt(pending, k)
           op == FollowUp(p, result)
           powered == p.op \in Power /\ result \in {"value", "empty"}
       IN
       /\ \/ /\ op # "none"
             /\ \E full \in BOOLEAN :
                  /\ Room(full)
                  /\ Start(rest, p.request, op, p.serials,
                           p.attempts + IF op = "slots" THEN 1 ELSE 0, full)
          \/ /\ op = "none"
             /\ pending' = rest /\ answers' = Answered(p.serials)
             /\ UNCHANGED trouble
       /\ radio' = IF powered THEN p.op ELSE radio
       /\ power' = IF power.serial \in p.serials /\ ~powered
                   THEN [power EXCEPT !.failed = TRUE] ELSE power
    /\ UNCHANGED <<ready, next>>

Waiting == UNION {pending[k].serials : k \in DOMAIN pending}

\* reset(): everything pending is answered; the core's model starts afresh.
Reset ==
    /\ ready /\ trouble < MaxTrouble /\ trouble' = trouble + 1
    /\ pending' = <<>> /\ answers' = Answered(Waiting)
    /\ ready' = FALSE /\ radio' = "unavailable" /\ power' = Off
    /\ UNCHANGED next

\* Core::advance_boot: the boot sequence switched the radio off.
Booted ==
    /\ ~ready /\ ready' = TRUE /\ radio' = "off"
    /\ UNCHANGED <<pending, answers, power, next, trouble>>

Next ==
    \/ SubmitLocal \/ \E request \in Reads : SubmitRead(request)
    \/ \E request \in Power : SubmitPower(request)
    \/ \E k \in 1 .. MaxSerial : \E result \in {"value", "empty", "busy", "refused"} :
         Completed(k, result)
    \/ Reset \/ Booted

Spec == Init /\ [][Next]_vars
-----------------------------------------------------------------------------
\* Every request is answered exactly once, or waits for exactly one command.
ModemAccounted ==
    \A s \in Serials :
      answers[s] + Cardinality({k \in DOMAIN pending : s \in pending[k].serials})
        = IF s <= next THEN 1 ELSE 0

\* Every request is answered in the end, the busy SIM's retries included,
\* when queued commands complete.
ModemAnswers == \A s \in Serials : s <= next /\ ready ~> answers[s] = 1

\* When no power command is under way the radio state is what the newest
\* request since the boot asked for, unless that request failed: an "off" is
\* never taken for the "on" it followed.
NewestPowerRules ==
    ready /\ ~power.failed /\ (\A k \in DOMAIN pending : pending[k].op \notin Power) =>
      radio = power.to

=============================================================================
