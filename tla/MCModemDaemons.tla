--------------------------- MODULE MCModemDaemons ---------------------------
(* TLC instance of the daemons beside the radio service that speak to the    *)
(* modem: the multiplexer (its startup chat, its connections with recovery   *)
(* or without, its service), the multiplexer and the RIL in C and C++, the   *)
(* modem's boot and file daemons, the Wi-Fi calling agent, tethering offload *)
(* and the secure element.  `part` is the one that runs, st its state; the   *)
(* chat has variables of its own.                                            *)
EXTENDS MuxChat

VARIABLES part, st

Daemon == INSTANCE MuxSession
    WITH N <- 2, Recovery <- TRUE, ATTEMPTS <- 2, RETRY_MS <- 1, ESCALATION_MS <- 5,
         LOCAL_CLOSE_MS <- 1, CLOSE_FLUSH_MS <- 1, SETUP_TIMEOUT_MS <- 2, PENDING <- 1, m <- st
Plain == INSTANCE MuxSession
    WITH N <- 2, Recovery <- FALSE, ATTEMPTS <- 2, RETRY_MS <- 1, ESCALATION_MS <- 5,
         LOCAL_CLOSE_MS <- 1, CLOSE_FLUSH_MS <- 1, SETUP_TIMEOUT_MS <- 2, PENDING <- 2, m <- st
Service == INSTANCE MuxService
    WITH RESTART_DELAY_MS <- 2, REPORT_WAIT_MS <- 2, MaxConns <- 4, sv <- st
Legacy == INSTANCE LegacyMux
    WITH Chans <- {"a"}, REOPEN_ATTEMPTS <- 1, TxCap <- 2, UpCap <- 1, MaxSessions <- 2, s <- st
Ril == INSTANCE LegacyRil WITH MaxRequests <- 2, MaxCommands <- 2, MaxUrcs <- 1, s <- st
Boot == INSTANCE ModemInit
    WITH Retries <- 2, PollTurns <- 2, GiveUp <- 2, BaseMs <- 1, MaxMs <- 3, MaxEvents <- 4, s <- st
Files == INSTANCE ModemFiles
    WITH Parent <- [r |-> "r", d |-> "r", f |-> "d"], Dirs <- {"r", "d"}, FS_HANDLE_MAX <- 3,
         MAX_OPEN_HANDLES <- 1, FS_FIND_MAX <- 1, MaxDepth <- 0, s <- st
Filters == INSTANCE WfcaFilters
    WITH MAX_FILTERS <- 2, Ids <- {1}, Addrs <- {<<0, 1>>, <<1, 2>>}, s <- st
Relay == INSTANCE WfcaRelay WITH UlCap <- 1, DlCap <- 2, MaxMedia <- 3, s <- st
Reports == INSTANCE WfcaReports
    WITH Pdns <- {1, 2}, Period <- 2, MaxClock <- 5, MaxReports <- 3, s <- st
Reader == INSTANCE WfcaReader
    WITH Types <- {"reset", "register", "send", "unknown"}, Extras <- {0, 1, 3}, Room <- 2,
         MaxFrames <- 3, s <- st
Tether == INSTANCE TetherOffload
    WITH Flows <- {"f"}, Nets <- {"n"}, MaxGen <- 2, MaxNotices <- 1, s <- st
Element == INSTANCE SecureElement
    WITH MaxChannel <- 2, MaxGen <- 6, MaxSerial <- 3, MaxChanges <- 1, s <- st

MCInit ==
    /\ Init
    /\ \/ part = "chat" /\ st = <<>>
       \/ part = "daemon" /\ Daemon!Init
       \/ part = "plain" /\ Plain!Init
       \/ part = "service" /\ Service!Init
       \/ part = "legacy" /\ Legacy!Init
       \/ part = "ril" /\ Ril!Init
       \/ part = "boot" /\ Boot!Init
       \/ part = "files" /\ Files!Init
       \/ part = "filters" /\ Filters!Init
       \/ part = "relay" /\ Relay!Init
       \/ part = "reports" /\ Reports!Init
       \/ part = "reader" /\ Reader!Init
       \/ part = "tether" /\ Tether!Init
       \/ part = "element" /\ Element!Init
    /\ part # "chat" => ~chat.pin

MCNext ==
    \/ part = "chat" /\ Next /\ UNCHANGED <<part, st>>
    \/ /\ UNCHANGED <<part, vars>>
       /\ \/ part = "daemon" /\ Daemon!Next
          \/ part = "plain" /\ Plain!Next
          \/ part = "service" /\ Service!Next
          \/ part = "legacy" /\ Legacy!Next
          \/ part = "ril" /\ Ril!Next
          \/ part = "boot" /\ Boot!Next
          \/ part = "files" /\ Files!Next
          \/ part = "filters" /\ Filters!Next
          \/ part = "relay" /\ Relay!Next
          \/ part = "reports" /\ Reports!Next
          \/ part = "reader" /\ Reader!Next
          \/ part = "tether" /\ Tether!Next
          \/ part = "element" /\ Element!Next

\* Every part but a connection may rest when the inputs it is given are used up.
Rest == part \notin {"daemon", "plain"} /\ UNCHANGED <<part, st, vars>>

MCSpec == MCInit /\ [][MCNext \/ Rest]_<<part, st, vars>>

\* Every byte of the startup chat goes to the chat or, after the last answer, to
\* the frame decoder, and a chat that ended well has a multiplexing modem
\* (chat.rs feed, accept_record).  The RIL follows the connections that are ready,
\* the two stages of a report keep their order with the connection closed, and a
\* rejected property write ends the process (service.rs apply, recovery, failed).
BringUpRight ==
    /\ StreamSplitRight /\ ReadyMeansMux
    /\ part = "service" => Service!RilFollows /\ Service!ReportInOrder /\ Service!RejectionEnds

\* A multiplexer connection counts its first answers exactly and is ready once
\* they are all there (session.rs start, receive).
SetupExact ==
    /\ part = "daemon" => Daemon!SetupExact
    /\ part = "plain" => Plain!SetupExact

\* While the connection runs, every channel is open, refused, not answered for
\* the first time yet or on its way back; without recovery a lost channel has
\* lost its terminal (session.rs receive, recovery_tick).
NoneForgotten ==
    /\ part = "daemon" => Daemon!NoChannelForgotten
    /\ part = "plain" => Plain!NoChannelForgotten

\* A channel is paused exactly while bytes wait for its terminal
\* (session.rs, runtime.rs drain_channel).
FlowCoherent ==
    /\ part = "daemon" => Daemon!FlowCoherent
    /\ part = "plain" => Plain!FlowCoherent

\* Two rebuilds of the connection are the escalation time apart (session.rs
\* recovery_tick).
RebuildsSpaced == [][part = "daemon" => Daemon!RebuildSpaced]_<<part, st>>

\* In the C multiplexer the count setup waits on is the number of first requests
\* unanswered, the RIL is told once per completed set-up, no channel is left closed
\* with nothing to come, and the modem learns which channels are paused
\* (mindone_mux.c).
LegacyChannelsKept == part = "legacy" => Legacy!ChannelsAccounted /\ Legacy!FlowFollows


\* A modem the status property calls ready is, or the message that says otherwise
\* is queued; restarts are spaced, given up and not made in flight mode
\* (ccci_mdinit.c poll_md_state_until_ready, restart_md_with_backoff).
BootHonest == part = "boot" => Boot!StatusHonest /\ Boot!RestartsBounded

\* The modem's handles and the file daemon's table never part, every descriptor is
\* in a table, and a recursive delete that succeeded left nothing (ccci_fsd.c).
FilesAccounted ==
    part = "files" => Files!LedgerAgrees /\ Files!DescriptorsAccounted /\ Files!DeletedWhole



=============================================================================
