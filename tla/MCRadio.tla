------------------------------- MODULE MCRadio -------------------------------
(* TLC instance of the radio daemon: the runtime that clients and the        *)
(* consumer meet, the AT engine joined to the modem, and the three layers    *)
(* between them that hold clients' requests.  `part` is the one that runs;   *)
(* the others stay in their initial state.                                   *)
EXTENDS RadioRuntime

VARIABLES
    part,
    eng, inbox, dirty, wire, cut, age, noise, from,
    net, actual, netReady, netNext, netTrouble,
    pending, answers, radio, power, modemReady, modemNext, modemTrouble,
    layer, total, late, coreNext

runtimeVars ==
    <<q, stopped, wake, wakers, pc, hand, taken, core, conn, due, wait, modem, seen>>
linkVars == <<eng, inbox, dirty, wire, cut, age, noise, from>>
networkVars == <<net, actual, netReady, netNext, netTrouble>>
modemVars == <<pending, answers, radio, power, modemReady, modemNext, modemTrouble>>
coreVars == <<layer, total, late, coreNext>>
allVars == <<part, runtimeVars, linkVars, networkVars, modemVars, coreVars>>

Link == INSTANCE AtLink
    WITH QUEUE_COMMANDS <- 2, SILENCE_MS <- 2, RESYNC_TIMEOUT_MS <- 3,
         RESYNC_ATTEMPTS <- 3, TRANSACTION_BYTES <- 6, MAX_LINES <- 1,
         WRITE_BYTES <- 2, Timeouts <- {2}, ExtraIds <- {1}, Prompt <- TRUE,
         ProbeLatency <- 1, NoiseLines <- {"OTHER", "LARGE"}, MaxNoise <- 1,
         MaxInbox <- 3
Network == INSTANCE NetworkService
    WITH Filters <- {{}, {"signal", "network"}}, FullChannels <- {1},
         MaxSerial <- 4, MaxTrouble <- 2,
         ready <- netReady, next <- netNext, trouble <- netTrouble
Modem == INSTANCE ModemService
    WITH Reads <- {"baseband", "slots"}, SLOT_ATTEMPTS <- 2,
         MaxSerial <- 3, MaxTrouble <- 1,
         ready <- modemReady, next <- modemNext, trouble <- modemTrouble
Core == INSTANCE RadioCore
    WITH COMMAND_TIMEOUT_MS <- 1, BOOT_TIMEOUT_MS <- 3, REQUEST_LIMIT <- 1,
         Lateness <- 1, MaxId <- 2, MaxResets <- 2, core <- layer, next <- coreNext

MCInit ==
    /\ part \in {"runtime", "link", "network", "modem", "core"}
    /\ Init /\ Link!LinkInit /\ Network!Init /\ Modem!Init /\ Core!Init

MCNext ==
    /\ part' = part
    /\ \/ part = "runtime" /\ Next /\ UNCHANGED <<linkVars, networkVars, modemVars, coreVars>>
       \/ part = "link" /\ Link!LinkNext /\ UNCHANGED <<runtimeVars, networkVars, modemVars, coreVars>>
       \/ part = "network" /\ Network!Next /\ UNCHANGED <<runtimeVars, linkVars, modemVars, coreVars>>
       \/ part = "modem" /\ Modem!Next /\ UNCHANGED <<runtimeVars, linkVars, networkVars, coreVars>>
       \/ part = "core" /\ Core!Next /\ UNCHANGED <<runtimeVars, linkVars, networkVars, modemVars>>

MCSpec == MCInit /\ [][MCNext]_allVars

\* When tick() starts a command, the modem owes the channel nothing, and a
\* command that completes with Ok completes with the final line the modem sent
\* for that very command (engine.rs quarantine).
Attribution == [][part = "link" => Link!AttributionStep]_allVars

\* Every request a layer accepted is answered exactly once or waits in exactly
\* one place of it, across completions, full queues, shared commands and
\* resets (network/service.rs, modem/service.rs, core/lib.rs).
EveryRequestAccounted ==
    /\ part = "network" => Network!RequestsAccounted
    /\ part = "modem" => Modem!ModemAccounted
    /\ part = "core" => Core!CoreAnswersOnce

\* No request waits for something that will not come: for the selection mode
\* only while an operator read is under way, in the core only while the modem
\* is there, for the boot only while one of its commands is under way, else with
\* a service, and never longer than the boot and one command may take
\* (network/service.rs reset, core/lib.rs submit, reset, expire, next_deadline).
NoneStranded ==
    /\ part = "network" => Network!WaitersHaveReader
    /\ part = "core" => Core!NoneStranded /\ Core!AnsweredInTime

\* The policy's pending steps are the steps of the first control job and what it
\* believes applied is what the modem confirmed; when all commands have ended
\* well, the modem reports what the newest filter asks for and the radio is in the
\* state the newest power request asked for; and what clients were told is the
\* model's state (network/service.rs start_control and reset, state/policy.rs
\* reconcile, modem/service.rs submit, core/lib.rs apply, signal).
NewestRules ==
    /\ part = "network" => Network!PolicyInSync /\ Network!NewestFilterRules
    /\ part = "modem" => Modem!NewestPowerRules
    /\ part = "core" => Core!ClientsKnow
=============================================================================
