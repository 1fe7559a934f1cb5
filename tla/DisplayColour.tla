---------------------------- MODULE DisplayColour ----------------------------
(***************************************************************************)
(* The display colour service (livedisplay/service.cpp): a client's colour *)
(* is saved and given to the display, which forgets it whenever it is      *)
(* switched on; a thread follows the display's activations, another waits  *)
(* for boot and opens the device.  A lost event stream restarts the        *)
(* service, which starts from the saved colour.                            *)
(***************************************************************************)
EXTENDS Integers, Sequences, FiniteSets

CONSTANTS Colours,      \* colours a client sets; Unity is the display's own
          Room,         \* events the socket holds
          MaxActivations, MaxRestarts, MaxSets

VARIABLE s

Unity == "unity"

\* saved: the property; rgb, fd, seen, unsupported: rgb_, fd_, lastActivation_ and
\* unsupported_ of the running process; queue and broken: the event socket; shown: the
\* colour the display shows; lit: it is on; refused: the last colour given to it was
\* refused with an error.  accepted: the last colour a client was not refused.
Init == \E saved \in Colours \cup {Unity, "garbage"} :
  s = [saved |-> saved, up |-> FALSE, rgb |-> Unity, fd |-> FALSE, unsupported |-> FALSE, seen |-> 0,
       queue |-> <<>>, broken |-> FALSE, booted |-> FALSE, shown |-> Unity, lit |-> FALSE, refused |-> FALSE,
       activations |-> 0, restarts |-> 0, sets |-> 0,
       accepted |-> IF saved = "garbage" THEN Unity ELSE saved]

\* The constructor: the colour saved, unity if it is not one.
Load(saved) == IF saved \in Colours \cup {Unity} THEN saved ELSE Unity

\* initialize and main: the process listens for events, then serves.  A failure ends it.
Initialize ==
  /\ ~s.up /\ s.restarts <= MaxRestarts
  /\ s' = [s EXCEPT !.up = TRUE, !.rgb = Load(s.saved), !.fd = FALSE, !.unsupported = FALSE, !.seen = 0,
                    !.queue = <<>>, !.broken = FALSE, !.refused = FALSE, !.restarts = @ + 1]

\* apply: no device is not the client's error; a dark display neither; ok: the device takes it.
Apply(t, ok) ==
  IF t.unsupported \/ ~t.fd \/ ~t.lit THEN t
  ELSE IF ok THEN [t EXCEPT !.shown = t.rgb, !.refused = FALSE] ELSE [t EXCEPT !.refused = TRUE]

\* connect: after boot; a device without the expected colour correction is left alone.
Connect(fits, ok) ==
  /\ s.up /\ s.booted /\ ~s.fd /\ ~s.unsupported
  /\ s' = IF fits THEN Apply([s EXCEPT !.fd = TRUE], ok) ELSE [s EXCEPT !.unsupported = TRUE]

\* setCalibration: saved first; a colour that cannot be saved changes nothing.
SetCalibration(c, stored, ok) ==
  /\ s.up /\ s.sets < MaxSets
  /\ s' = IF stored THEN [Apply([s EXCEPT !.saved = c, !.rgb = c], ok) EXCEPT !.sets = @ + 1, !.accepted = c]
          ELSE [s EXCEPT !.sets = @ + 1]

\* activation: the event is the kernel's word that the display was switched on, numbered;
\* 0 is any other event.
Activation(e) == e # 0

\* run: one event; a stream that failed or lost events ends the process.
Run(ok) ==
  LET n == Head(s.queue)
      t == [s EXCEPT !.queue = Tail(@)]
  IN /\ s.up /\ (s.broken \/ s.queue # <<>>)
     /\ s' = IF s.broken THEN [s EXCEPT !.up = FALSE]
             ELSE IF ~Activation(n) \/ n <= s.seen THEN t
             ELSE Apply([t EXCEPT !.seen = n], ok)

-----------------------------------------------------------------------------
\* External: boot, crashes, and the display; switched on, it shows its own colour and says so.
Boot == ~s.booted /\ s' = [s EXCEPT !.booted = TRUE]

Crash == s.up /\ s.restarts <= MaxRestarts /\ s' = [s EXCEPT !.up = FALSE]

Darken == s.lit /\ s' = [s EXCEPT !.lit = FALSE]

Announce(t, e) ==
  IF ~t.up THEN t ELSE IF Len(t.queue) < Room THEN [t EXCEPT !.queue = Append(@, e)] ELSE [t EXCEPT !.broken = TRUE]

Activate ==
  /\ ~s.lit /\ s.activations < MaxActivations
  /\ s' = Announce([s EXCEPT !.lit = TRUE, !.shown = Unity, !.activations = @ + 1], s.activations + 1)

OtherEvent == s.up /\ ~s.broken /\ s' = Announce(s, 0)

Next ==
  \/ Initialize \/ Boot \/ Crash \/ Darken \/ Activate \/ OtherEvent
  \/ \E ok \in BOOLEAN :
       \/ Run(ok)
       \/ \E fits \in BOOLEAN : Connect(fits, ok)
       \/ \E c \in Colours, stored \in BOOLEAN : SetCalibration(c, stored, ok)

-----------------------------------------------------------------------------
\* The display shows the colour last accepted: it is what is saved and what the
\* service holds, through crashes and refusals, and once the service has the device and
\* has taken in every event, a lit display shows it, in whatever order the display was
\* switched on, the device opened and the colour set.
ColourKept ==
  /\ Load(s.saved) = s.accepted /\ (s.up => s.rgb = s.accepted)
  /\ s.up /\ s.fd /\ s.lit /\ s.queue = <<>> /\ ~s.broken /\ ~s.refused => s.shown = s.accepted
=============================================================================
