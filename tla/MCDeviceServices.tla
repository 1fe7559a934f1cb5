-------------------------- MODULE MCDeviceServices --------------------------
(* TLC instance of the services around the device's other hardware: the      *)
(* fingerprint bridge (lockout counter and session), audio, sound trigger,   *)
(* performance locks, sensors, GNSS, camera and display colour.  `part` is   *)
(* the one that runs, st its state; the fingerprint bridge has variables of  *)
(* its own.                                                                  *)
EXTENDS Lockout

VARIABLES part, st, session, batch, worker, hal, binder, answered, mode, count

sessionVars == <<session, batch, worker, hal, binder, answered, mode, count>>

Session == INSTANCE FingerprintSession
    WITH Batches <- {<<1, 2>>, <<0>>}, Fingers <- 0 .. 2, MaxStarts <- 2, MaxListed <- 1,
         s <- session, told <- answered
Outputs == INSTANCE AudioHw
    WITH Outs <- {"o", "p"}, Ins <- {}, OutDevs <- {"speaker", "sco"}, InDevs <- {}, s <- st
Inputs == INSTANCE AudioHw
    WITH Outs <- {}, Ins <- {"i", "j"}, OutDevs <- {"sco", "headphone"}, InDevs <- {"main", "sco"},
         s <- st
Position == INSTANCE AudioPosition
    WITH Ratio <- 2, Packet <- 2, MaxWritten <- 4, MaxFaults <- 1, s <- st
Speech == INSTANCE AudioSpeech WITH MaxRequests <- 6, MaxQueries <- 1, Room <- 2, s <- st
Trigger == INSTANCE SoundTrigger
    WITH MaxModels <- 1, Ids <- {1}, MaxEpoch <- 4, MaxJobs <- 2, MaxStops <- 2, MaxGlobals <- 1, s <- st
Perf == INSTANCE PerfLocks
    WITH Hints <- {"a"}, MaxHandles <- 2, MaxClock <- 3, MaxDeaths <- 1, s <- st
Hub == INSTANCE SensorHub
    WITH Handles <- {"g"}, WakeUp <- {"g"}, QueueSize <- 1, Batch <- 2, MaxEvents <- 2, MaxInits <- 2,
         s <- st
Calibration == INSTANCE SensorCalibration
    WITH Values <- {1, 2}, Interval <- 2, MaxClock <- 3, MaxReports <- 2, MaxLives <- 1, s <- st
Gnss == INSTANCE GnssSession
    WITH Gated <- {"nav"}, Free <- {"agnss"}, Watched <- {"nav"}, Keeps <- {"nav"}, MaxClients <- 3,
         s <- st
Camera == INSTANCE CameraBridge WITH Ids <- {1}, MaxFrames <- 2, MaxOpens <- 1, Room <- 2, s <- st
Display == INSTANCE DisplayColour
    WITH Colours <- {"warm", "cold"}, Room <- 2, MaxActivations <- 3, MaxRestarts <- 1, MaxSets <- 2,
         s <- st

MCInit ==
    /\ Init /\ Session!Init
    /\ \/ part \in {"lockout", "session"} /\ st = <<>>
       \/ part = "outputs" /\ Outputs!Init
       \/ part = "inputs" /\ Inputs!Init
       \/ part = "position" /\ Position!Init
       \/ part = "speech" /\ Speech!Init
       \/ part = "trigger" /\ Trigger!Init
       \/ part = "perf" /\ Perf!Init
       \/ part = "hub" /\ Hub!Init
       \/ part = "calibration" /\ Calibration!Init
       \/ part = "gnss" /\ Gnss!Init
       \/ part = "camera" /\ Camera!Init
       \/ part = "display" /\ Display!Init
    /\ part # "session" => session.active

MCNext ==
    \/ part = "lockout" /\ Next /\ UNCHANGED <<part, st, sessionVars>>
    \/ part = "session" /\ Session!Next /\ UNCHANGED <<part, st, vars>>
    \/ /\ UNCHANGED <<part, vars, sessionVars>>
       /\ \/ part = "outputs" /\ Outputs!Next
          \/ part = "inputs" /\ Inputs!Next
          \/ part = "position" /\ Position!Next
          \/ part = "speech" /\ Speech!Next
          \/ part = "trigger" /\ Trigger!Next
          \/ part = "perf" /\ Perf!Next
          \/ part = "hub" /\ Hub!Next
          \/ part = "calibration" /\ Calibration!Next
          \/ part = "gnss" /\ Gnss!Next
          \/ part = "camera" /\ Camera!Next
          \/ part = "display" /\ Display!Next

MCSpec == MCInit /\ [][MCNext]_<<part, st, vars, sessionVars>>

\* No failed attempt is forgotten by a failed write, a death of the service or a
\* reboot, what was persisted brings the same tracker back, and a lockout is
\* reported as cleared only when that is durable (LockoutTracker.h, LockoutStore.h).
LockoutSurvives == part = "lockout" => AttemptsSurvive /\ LockoutDurable

\* Removals are answered once, with ids that were asked for, the library is left
\* alone once close() has cancelled them, and an authentication result goes to a
\* client that waits for one (RemovalBatch.h, SessionBridge.cpp).
RemovalExact ==
    /\ [](part = "session" => Session!RemovalExact)
    /\ [][part = "session" => Session!ResultBelongs]_<<part, sessionVars>>

\* Every audio path counts exactly its users, a running stream follows its device or
\* is about to be reopened, and a call is up whole or down whole, whichever step
\* failed and whatever changed while a PCM was opened (audio_hw.c).
AudioRouted ==
    /\ part = "outputs" => Outputs!EndpointsOwned /\ Outputs!StreamsFollow /\ Outputs!CallWhole
    /\ part = "inputs" => Inputs!EndpointsOwned /\ Inputs!StreamsFollow /\ Inputs!CallWhole


\* Once stopRecognition or unloadSoundModel has returned, no event of that
\* recognition is or will be delivered, and no recognition runs while capture is
\* blocked (SoundTriggerMindone.cpp).
QuietAfterStop == part = "trigger" => Trigger!QuietAfterStop /\ Trigger!CaptureYields

\* What clients were granted holds through deaths and refusals of what is behind:
\* the power HAL boosts what live locks hold and nothing else, and a lit display
\* shows the colour last accepted (mtkpower/service.cpp, livedisplay/service.cpp).
GrantsHeld ==
    /\ part = "perf" => Perf!BoostsHeld
    /\ part = "display" => Display!ColourKept



=============================================================================
