------------------------------ MODULE AudioHw ------------------------------
(***************************************************************************)
(* The audio backend (audio-hf/audio_hw.c): output and input streams share *)
(* the speaker, earpiece, headphone and microphone paths of the mixer with *)
(* the voice call, each counting its users.  A stream is started with the  *)
(* device lock dropped while its PCM is opened, so patches, the call and   *)
(* the Bluetooth band may change in between; the call is set up in several *)
(* steps each of which may fail.  The model follows the C routes the audio *)
(* service links; an operation that holds the device lock is one step.     *)
(***************************************************************************)
EXTENDS Integers, FiniteSets

CONSTANTS Outs, Ins,          \* output and input streams
          OutDevs, InDevs     \* endpoints used: speaker, headphone, earpiece, sco; main, headset, sco

VARIABLE s

Out == {"speaker", "headphone", "earpiece", "sco"}
In == {"main", "headset", "sco"}

\* A stream: open; dev, the device asked for; routed, the endpoint it holds;
\* run, not in standby; bar, its crossbar path (outputs); reopen, reopen_pending;
\* wide, the band its PCM was opened with; at and want, a start under way.
Shut == [open |-> FALSE, dev |-> "none", routed |-> "none", run |-> FALSE, bar |-> FALSE,
         reopen |-> FALSE, wide |-> FALSE, at |-> "idle", want |-> "none"]

\* lit: the shared mixer outputs that are on; vol: whose value an endpoint's
\* gain control holds; gain: the control the call saved, with its value; ulmute:
\* the modem's uplink mute.
Device == [mode |-> "normal", mute |-> FALSE, wb |-> FALSE, incall |-> FALSE, speech |-> FALSE,
           fd |-> FALSE, vout |-> "none", vin |-> "none", hostless |-> FALSE, gain |-> <<"none", "base">>,
           active |-> "none", activein |-> "none", ulmute |-> FALSE]

Mixer == [users |-> [d \in Out |-> 0], inusers |-> [d \in In |-> 0], inrouted |-> "none", lit |-> {},
          uplink |-> FALSE, vol |-> [d \in Out |-> "base"]]

Init == s = [dv |-> Device, mx |-> Mixer, outs |-> [o \in Outs |-> Shut], ins |-> [i \in Ins |-> Shut]]

-----------------------------------------------------------------------------
\* Endpoints.

\* mixer_paths.xml: the speaker path also drives the receiver.
Parts(d) ==
  CASE d = "speaker" -> {"amp", "receiver"} [] d = "earpiece" -> {"receiver"}
    [] d = "headphone" -> {"headphone"} [] OTHER -> {}

EndpointAcquire(t, d) ==
  IF d = "none" THEN t
  ELSE [t EXCEPT !.mx.users[d] = @ + 1,
                 !.mx.lit = IF t.mx.users[d] > 0 THEN @ ELSE @ \cup Parts(d)]

\* The last user turns the path off; the speaker and the earpiece then switch
\* the other one on again if it is in use.
EndpointRelease(t, d) ==
  LET other == CASE d = "speaker" -> "earpiece" [] d = "earpiece" -> "speaker" [] OTHER -> "none"
      again == IF other # "none" THEN IF t.mx.users[other] > 0 THEN Parts(other) ELSE {} ELSE {}
  IN IF d = "none" \/ (d # "none" /\ t.mx.users[d] <= 0) THEN t
     ELSE [t EXCEPT !.mx.users[d] = @ - 1,
                    !.mx.lit = IF t.mx.users[d] > 1 THEN @ ELSE (@ \ Parts(d)) \cup again]

ApplyOutputRoute(t, old, new) ==
  IF old = new THEN t ELSE EndpointAcquire(EndpointRelease(t, old), new)

Selected(t, users) ==
  CASE t.dv.vin # "none" /\ users[t.dv.vin] > 0 -> t.dv.vin
    [] users["main"] > 0 -> "main"
    [] users["headset"] > 0 -> "headset"
    [] OTHER -> "none"

\* One microphone feeds the converter: the call's first, then the main one.
ApplyInputRoute(t, old, new) ==
  LET less == IF old = "none" THEN t.mx.inusers ELSE [t.mx.inusers EXCEPT ![old] = @ - 1]
      users == IF new = "none" THEN less ELSE [less EXCEPT ![new] = @ + 1]
  IN IF old = new \/ (IF old = "none" THEN FALSE ELSE t.mx.inusers[old] <= 0) THEN t
     ELSE [t EXCEPT !.mx.inusers = users, !.mx.inrouted = Selected(t, users)]

-----------------------------------------------------------------------------
\* The voice call.

VoiceMic(out) == CASE out = "sco" -> "none" [] out = "headphone" -> "headset" [] OTHER -> "main"

\* speech_ccci_off and the failure path of speech_ccci_on close the channel; the
\* modem forgets the mutes with the session.
SpeechOff(t) == [t EXCEPT !.dv.fd = FALSE, !.dv.ulmute = FALSE]

\* speech_ccci_on; bt: the modem's uplink mute follows the user's.
SpeechOn(t, bt) == [t EXCEPT !.dv.fd = TRUE, !.dv.ulmute = IF bt THEN t.dv.mute ELSE @]

\* Both hostless PCMs, or neither.
SpeechHostlessOpen(t, ok) == [t EXCEPT !.dv.hostless = ok]
SpeechHostlessClose(t) == [t EXCEPT !.dv.hostless = FALSE]

VoiceGainAcquire(t, d) == [t EXCEPT !.dv.gain = <<d, t.mx.vol[d]>>]

VoiceGainRelease(t) ==
  IF t.dv.gain[1] = "none" THEN t
  ELSE [t EXCEPT !.mx.vol[t.dv.gain[1]] = t.dv.gain[2], !.dv.gain = <<"none", "base">>]

SetHwOutputVolume(t, d) == IF d = "sco" THEN t ELSE [t EXCEPT !.mx.vol[d] = "voice"]

VoiceRouteDisable(t, off) ==
  LET mic == IF t.dv.incall /\ t.dv.vout # "sco"
             THEN ApplyInputRoute([t EXCEPT !.mx.uplink = FALSE, !.dv.vin = "none"], t.dv.vin, "none")
             ELSE t
      quiet == IF ~off THEN mic
               ELSE [SpeechHostlessClose(IF mic.dv.speech THEN SpeechOff(mic) ELSE mic)
                      EXCEPT !.dv.speech = FALSE]
      rest == VoiceGainRelease(quiet)
  IN IF ~t.dv.incall THEN rest
     ELSE [EndpointRelease(rest, t.dv.vout) EXCEPT !.dv.vout = "none", !.dv.incall = FALSE]

Ok(t) == [t |-> t, ok |-> TRUE]
Failed(t) == [t |-> t, ok |-> FALSE]

Raise(t, out) ==
  LET up == [ApplyOutputRoute(t, t.dv.vout, out) EXCEPT !.dv.vout = out, !.dv.vin = VoiceMic(out)]
  IN IF out = "sco" THEN [up EXCEPT !.dv.incall = TRUE]
     ELSE [ApplyInputRoute(up, "none", VoiceMic(out)) EXCEPT !.dv.incall = TRUE, !.mx.uplink = ~t.dv.mute]

\* bad names the step that fails: the two hostless PCMs, the gain control or
\* the start of speech at the modem.
VoiceRouteEnable(t, out, bad) ==
  LET near == out # "sco"
      up == Raise(t, out)
      pcm == IF near THEN SpeechHostlessOpen(up, bad # "hostless") ELSE up
      gain == IF near THEN VoiceGainAcquire(pcm, out) ELSE pcm
      live == IF t.dv.speech THEN gain ELSE SpeechOn(gain, ~near)
  IN CASE t.dv.incall -> Ok(t)
       [] ~t.dv.incall /\ near /\ bad = "hostless" ->
            Failed(VoiceRouteDisable(pcm, TRUE))
       [] ~t.dv.incall /\ near /\ bad = "gain" -> Failed(VoiceRouteDisable(pcm, TRUE))
       [] ~t.dv.incall /\ ~t.dv.speech /\ bad = "speech" ->
            Failed(VoiceRouteDisable(SpeechOff(gain), TRUE))
       [] OTHER -> Ok(SetHwOutputVolume([live EXCEPT !.dv.speech = TRUE], out))

\* The modem is muted both ways, the route moved, the mode set, and the modem
\* opened again; whatever fails on the way ends the call.
VoiceRouteChangeSco(t, out, bad) ==
  LET down == [SpeechHostlessClose(VoiceRouteDisable(t, FALSE)) EXCEPT !.dv.ulmute = TRUE]
      up == VoiceRouteEnable(down, out, bad)
  IN IF bad = "quiet" THEN Failed(VoiceRouteDisable(t, TRUE))
     ELSE IF ~up.ok \/ bad \in {"mode", "loud"} THEN Failed(VoiceRouteDisable(up.t, TRUE))
     ELSE Ok([up.t EXCEPT !.dv.ulmute = out = "sco" /\ t.dv.mute])

Steps == {"none", "quiet", "hostless", "gain", "speech", "mode", "loud"}

VoiceOutputDevice(t) == IF t.dv.active = "none" THEN "earpiece" ELSE t.outs[t.dv.active].dev

SetMode(mode, bad) ==
  LET r == IF mode = "call" THEN VoiceRouteEnable(s, VoiceOutputDevice(s), bad)
           ELSE Ok(VoiceRouteDisable(s, TRUE))
  IN /\ mode # s.dv.mode
     /\ s' = IF r.ok THEN [r.t EXCEPT !.dv.mode = mode] ELSE r.t

\* In a Bluetooth call the modem mutes, and its refusal ends the call; else the
\* mixer does, and a failed control is restored.
SetMicMute(bad) ==
  LET to == ~s.dv.mute
  IN s' = IF s.dv.incall /\ s.dv.vout = "sco"
          THEN IF bad THEN VoiceRouteDisable(s, TRUE)
               ELSE [s EXCEPT !.dv.mute = to, !.dv.ulmute = to]
          ELSE IF bad THEN s
          ELSE [s EXCEPT !.dv.mute = to, !.mx.uplink = IF s.dv.incall THEN ~to ELSE @]

\* set_voice_volume in a call; outside one only the wish is kept.
SetVoiceVolume == s' = IF s.dv.incall THEN SetHwOutputVolume(s, s.dv.vout) ELSE s

\* create_audio_patch from the voice call to a device.
PatchVoice(d, bad) ==
  LET between == s.dv.incall /\ s.dv.vout # d /\ "sco" \in {d, s.dv.vout}
      moved == VoiceRouteEnable(VoiceRouteDisable(s, FALSE), d, bad)
  IN /\ s.dv.incall \/ s.dv.mode = "call"
     /\ s' = CASE between -> VoiceRouteChangeSco(s, d, bad).t
               [] ~between /\ s.dv.incall /\ s.dv.vout = d -> s
               [] ~between /\ s.dv.incall /\ s.dv.vout # d /\ bad = "mode" -> VoiceRouteDisable(s, TRUE)
               [] OTHER -> moved.t

-----------------------------------------------------------------------------
\* Output streams.

OpenOutput(o, d) ==
  /\ ~s.outs[o].open
  /\ s' = [s EXCEPT !.outs[o] = [Shut EXCEPT !.open = TRUE, !.dev = d]]

\* The stream's path to the converter.
ApplyDlCrossbar(t, o) == [t EXCEPT !.outs[o].bar = TRUE]
TeardownDlCrossbar(t, o) == [t EXCEPT !.outs[o].bar = FALSE]

DoOutStandby(t, o) ==
  IF ~t.outs[o].run THEN t
  ELSE LET u == IF t.outs[o].routed = "sco" THEN t ELSE EndpointRelease(t, t.outs[o].routed)
       IN [TeardownDlCrossbar(u, o) EXCEPT !.outs[o].run = FALSE, !.outs[o].routed = "none",
                    !.dv.active = IF @ = o THEN "none" ELSE @]

OutFree(o) == s.outs[o].open /\ s.outs[o].at = "idle"

CloseOutput(o) == /\ OutFree(o) /\ s' = [DoOutStandby(s, o) EXCEPT !.outs[o] = Shut]

\* The STANDBY command, or a PCM that does not start.
OutStandby(o) == /\ OutFree(o) /\ s.outs[o].run /\ s' = DoOutStandby(s, o)

\* START, TRANSFER or a write: a running stream that must be reopened is put in
\* standby, and the PCM is chosen under the device lock, which is then dropped.
OutBegin(o) ==
  LET t == DoOutStandby(s, o)
      d == t.outs[o].dev
  IN /\ OutFree(o) /\ (~s.outs[o].run \/ s.outs[o].reopen)
     /\ s' = [(IF d = "sco" THEN t ELSE ApplyDlCrossbar(t, o))
               EXCEPT !.outs[o].at = "opening", !.outs[o].want = d, !.outs[o].wide = t.dv.wb]

\* Mutant of OutOpened: the device is not looked at again.
OutOpenedBlind(o, ok) ==
  LET x == s.outs[o]
      idle == [s EXCEPT !.outs[o].at = "idle", !.outs[o].want = "none"]
      held == IF x.want = "sco" THEN idle ELSE EndpointAcquire(idle, x.want)
  IN /\ x.at = "opening"
     /\ s' = IF ~ok THEN [idle EXCEPT !.outs[o].bar = FALSE]
             ELSE [held EXCEPT !.outs[o].run = TRUE, !.outs[o].routed = x.want,
                               !.outs[o].reopen = FALSE, !.dv.active = o]

\* The PCM is open, or could not be opened.  The stream runs only if the device
\* and the band are still the ones it was opened for; one stream at a time has
\* the Bluetooth PCM.
OutOpened(o, ok) ==
  LET x == s.outs[o]
      idle == [s EXCEPT !.outs[o].at = "idle", !.outs[o].want = "none"]
      held == IF x.want = "sco" THEN idle ELSE EndpointAcquire(idle, x.want)
      taken == x.want = "sco" /\ \E p \in Outs : s.outs[p].run /\ s.outs[p].routed = "sco"
      moved == x.want # x.dev \/ (x.want = "sco" /\ x.wide # s.dv.wb)
  IN /\ x.at = "opening"
     /\ s' = IF ~ok \/ taken \/ moved THEN TeardownDlCrossbar(idle, o)
             ELSE [held EXCEPT !.outs[o].run = TRUE, !.outs[o].routed = x.want,
                               !.outs[o].reopen = FALSE, !.dv.active = o]

OutSetRoute(o, d) ==
  LET x == s.outs[o]
      restart == x.run /\ (d = "sco") # (x.routed = "sco")
      t == IF restart THEN DoOutStandby(s, o)
           ELSE IF x.run THEN [ApplyOutputRoute(s, x.routed, d) EXCEPT !.outs[o].routed = d]
           ELSE s
  IN /\ OutFree(o) /\ s' = [t EXCEPT !.outs[o].dev = d]

\* create_audio_patch from one stream to a device: it has the device lock only.
PatchOutput(o, d) ==
  LET x == s.outs[o]
      t == IF ~x.run THEN s
           ELSE IF (d = "sco") # (x.routed = "sco") THEN [s EXCEPT !.outs[o].reopen = TRUE]
           ELSE [ApplyOutputRoute(s, x.routed, d) EXCEPT !.outs[o].routed = d]
  IN /\ x.open /\ s' = [t EXCEPT !.outs[o].dev = d]

-----------------------------------------------------------------------------
\* Input streams.

OpenInput(i, d) ==
  /\ ~s.ins[i].open
  /\ s' = [s EXCEPT !.ins[i] = [Shut EXCEPT !.open = TRUE, !.dev = d]]

DoInStandby(t, i) ==
  IF ~t.ins[i].run THEN t
  ELSE [ApplyInputRoute(t, t.ins[i].routed, "none")
         EXCEPT !.ins[i].run = FALSE, !.ins[i].routed = "none",
                !.dv.activein = IF @ = i THEN "none" ELSE @]

InFree(i) == s.ins[i].open /\ s.ins[i].at = "idle"

CloseInput(i) == /\ InFree(i) /\ s' = [DoInStandby(s, i) EXCEPT !.ins[i] = Shut]

InStandby(i) == /\ InFree(i) /\ s.ins[i].run /\ s' = DoInStandby(s, i)

\* START or a read: a microphone is routed before the lock is dropped,
\* Bluetooth after.
InBegin(i) ==
  LET t == DoInStandby(s, i)
      d == t.ins[i].dev
      u == IF d = "sco" THEN t ELSE ApplyInputRoute(t, "none", d)
  IN /\ InFree(i) /\ (~s.ins[i].run \/ s.ins[i].reopen)
     /\ s' = [u EXCEPT !.ins[i].at = "opening", !.ins[i].want = d, !.ins[i].wide = t.dv.wb,
                       !.ins[i].reopen = FALSE]

\* One stream at a time has the microphone PCM, and one the Bluetooth PCM.
InOpened(i, ok) ==
  LET x == s.ins[i]
      idle == [s EXCEPT !.ins[i].at = "idle", !.ins[i].want = "none"]
      taken == \E j \in Ins : s.ins[j].run /\ (s.ins[j].routed = "sco") = (x.want = "sco")
      moved == x.want # x.dev \/ (x.want = "sco" /\ x.wide # s.dv.wb)
      back == IF x.want = "sco" THEN idle ELSE ApplyInputRoute(idle, x.want, "none")
      held == IF x.want = "sco" THEN ApplyInputRoute(idle, "none", "sco") ELSE idle
  IN /\ x.at = "opening"
     /\ s' = IF ~ok \/ taken \/ moved THEN back
             ELSE [held EXCEPT !.ins[i].run = TRUE, !.ins[i].routed = x.want, !.dv.activein = i]

InSetRoute(i, d) ==
  LET x == s.ins[i]
      t == [s EXCEPT !.ins[i].dev = d]
  IN /\ InFree(i)
     /\ s' = CASE ~x.run -> t
               [] x.run /\ (d = "sco") # (x.routed = "sco") -> DoInStandby(t, i)
               [] OTHER -> [ApplyInputRoute(t, x.routed, d) EXCEPT !.ins[i].routed = d]

PatchInput(i, d) ==
  LET x == s.ins[i]
      t == [s EXCEPT !.ins[i].dev = d]
  IN /\ x.open
     /\ s' = CASE ~x.run -> t
               [] x.run /\ (d = "sco") # (x.routed = "sco") -> [t EXCEPT !.ins[i].reopen = TRUE]
               [] OTHER -> [ApplyInputRoute(t, x.routed, d) EXCEPT !.ins[i].routed = d]

-----------------------------------------------------------------------------
\* mindone_audio_set_sco: the band changes under every Bluetooth output, under
\* the active input and under the call.
SetSco(bad) ==
  LET ins == s.dv.activein
      t == [s EXCEPT !.dv.wb = ~@,
                     !.outs = [o \in Outs |-> IF @[o].routed = "sco" THEN [@[o] EXCEPT !.reopen = TRUE]
                                              ELSE @[o]],
                     !.ins = [i \in Ins |-> IF i = ins /\ @[i].routed = "sco"
                                            THEN [@[i] EXCEPT !.reopen = TRUE] ELSE @[i]]]
  IN s' = IF s.dv.incall /\ s.dv.vout = "sco" THEN VoiceRouteChangeSco(t, "sco", bad).t ELSE t

\* mindone_audio_device_close, refused while streams are open, and the next open.
Reopen ==
  /\ \A o \in Outs : ~s.outs[o].open
  /\ \A i \in Ins : ~s.ins[i].open
  /\ s' = [VoiceRouteDisable(s, TRUE) EXCEPT !.dv = Device]

OutNext == \E o \in Outs :
  \/ CloseOutput(o) \/ OutStandby(o) \/ OutBegin(o)
  \/ \E ok \in BOOLEAN : OutOpened(o, ok)
  \/ \E d \in OutDevs : OpenOutput(o, d) \/ OutSetRoute(o, d) \/ PatchOutput(o, d)

InNext == \E i \in Ins :
  \/ CloseInput(i) \/ InStandby(i) \/ InBegin(i)
  \/ \E ok \in BOOLEAN : InOpened(i, ok)
  \/ \E d \in InDevs : OpenInput(i, d) \/ InSetRoute(i, d) \/ PatchInput(i, d)

CallNext ==
  \/ Reopen \/ SetVoiceVolume
  \/ \E bad \in BOOLEAN : SetMicMute(bad)
  \/ \E bad \in Steps : SetSco(bad)
       \/ (\E m \in {"normal", "call"} : SetMode(m, bad))
       \/ (\E d \in OutDevs : PatchVoice(d, bad))

Next == OutNext \/ InNext \/ CallNext

-----------------------------------------------------------------------------
\* Every endpoint and microphone counts exactly its users: the running outputs
\* routed to it (Bluetooth outputs hold none), the inputs that run on it or are
\* being opened for it, and the call; the shared receiver, amplifier and
\* headphone outputs are lit exactly for the endpoints in use, and the one
\* routed microphone is the call's, or else the main one, or the headset's.
EndpointsOwned ==
  /\ \A d \in Out :
       s.mx.users[d] = Cardinality({o \in Outs : s.outs[o].routed = d /\ d # "sco"})
                       + (IF s.dv.incall /\ s.dv.vout = d THEN 1 ELSE 0)
  /\ \A d \in In :
       s.mx.inusers[d] =
         Cardinality({i \in Ins : s.ins[i].routed = d \/ (s.ins[i].want = d /\ d # "sco")})
         + (IF s.dv.incall /\ s.dv.vin = d THEN 1 ELSE 0)
  /\ s.mx.lit = UNION {Parts(d) : d \in {e \in Out : s.mx.users[e] > 0}}
  /\ s.mx.inrouted = Selected(s, s.mx.inusers)

\* A running stream plays or records on the device it was last given, an output
\* through its own crossbar and in the current Bluetooth band, or is marked to be
\* reopened before its next transfer; the active streams are open and running.
StreamsFollow ==
  /\ \A o \in Outs : s.outs[o].run =>
       /\ s.outs[o].routed = s.outs[o].dev \/ s.outs[o].reopen
       /\ s.outs[o].bar = (s.outs[o].routed # "sco")
       /\ s.outs[o].routed = "sco" => s.outs[o].wide = s.dv.wb \/ s.outs[o].reopen
  /\ \A i \in Ins : s.ins[i].run => s.ins[i].routed = s.ins[i].dev \/ s.ins[i].reopen
  /\ s.dv.active # "none" => s.outs[s.dv.active].run
  /\ s.dv.activein # "none" =>
       LET x == s.ins[s.dv.activein]
       IN x.run /\ (x.routed = "sco" => x.wide = s.dv.wb \/ x.reopen)

\* A call is up whole or down whole, whichever step of a set-up, a change of
\* route or of band failed: up, the modem speaks, the hostless PCMs are open for
\* a near endpoint only, and the microphone reaches the modem unless muted; down,
\* nothing of it is left and every gain control has its own value back.
CallWhole ==
  /\ s.dv.speech = s.dv.incall /\ s.dv.fd = s.dv.incall
  /\ s.dv.hostless = (s.dv.incall /\ s.dv.vout # "sco")
  /\ s.mx.uplink = (s.dv.incall /\ s.dv.vout # "sco" /\ ~s.dv.mute)
  /\ s.dv.ulmute = (s.dv.incall /\ s.dv.vout = "sco" /\ s.dv.mute)
  /\ \A d \in Out : s.mx.vol[d] = "voice" => s.dv.incall /\ s.dv.vout = d
=============================================================================
