--------------------------- MODULE AudioPosition ---------------------------
(***************************************************************************)
(* The presentation position of an output stream (audio-hf/audio_hw.c):    *)
(* how many of the frames written have been heard, derived from the delay  *)
(* of the PCM and corrected for what standby, pause, flush and a change of *)
(* route throw away.  A Bluetooth stream also folds Ratio frames into one  *)
(* and stages whole packets, so some frames wait outside the PCM.          *)
(***************************************************************************)
EXTENDS Integers, Sequences, SequencesExt

CONSTANTS Ratio,      \* stream rate over PCM rate: 1, or more on Bluetooth
          Packet,     \* SCO_PCM_PACKET_FRAMES
          MaxWritten, \* frames written by a client
          MaxFaults   \* writes the PCM answers with an error

VARIABLE s

Sco == Ratio > 1

\* hwq and staged hold PCM frames, each by the number of stream frames it
\* carries (0 for padding); acc, the frames not yet folded.  late: the PCM ran
\* dry and is ahead of the writer.  heard and lost: the frames played, and those
\* dropped while the stream still counts them as submitted.
Init == s = [run |-> FALSE, paused |-> FALSE, hwpaused |-> FALSE, reopen |-> FALSE, late |-> FALSE,
             written |-> 0, discarded |-> 0, presented |-> 0, hwq |-> <<>>, staged |-> <<>>, acc |-> 0,
             heard |-> 0, lost |-> 0, draining |-> FALSE, drained |-> FALSE, faults |-> 0]

Weight(q) == FoldSeq(LAMBDA x, y : x + y, 0, q)
Submitted(t) == t.written - t.discarded
Less(a, b) == IF a < b THEN a ELSE b


\* out_aidl_position, when the PCM answers.
Position(t) ==
  LET queued == (Len(t.hwq) + Len(t.staged)) * Ratio + t.acc
      now == Submitted(t) - Less(queued, Submitted(t))
  IN IF t.paused \/ ~t.run THEN t
     ELSE [t EXCEPT !.presented = IF now > @ THEN now ELSE @]

Emptied(t) == [t EXCEPT !.hwq = <<>>, !.staged = <<>>, !.acc = 0, !.late = FALSE]
Forget(t) == [t EXCEPT !.discarded = t.written - t.presented]
Closed(t) == [Emptied(t) EXCEPT !.run = FALSE]

Free == ~s.draining

\* GET_POSITION.
GetPosition == /\ Free /\ s.run /\ s' = Position(s)

\* STANDBY: the position is kept and what was queued is discarded.  The PCM may
\* fail to answer.
Standby(answers) ==
  LET t == IF answers THEN Position(s) ELSE s
  IN /\ Free /\ s.run
     /\ s' = [Forget(Closed(t)) EXCEPT !.paused = FALSE, !.hwpaused = FALSE]

\* START or TRANSFER: a stream to be reopened is put in standby first, a
\* software pause restarts the PCM and a hardware pause releases it.
StartTransfer(answers, ok) ==
  LET kept == IF s.run /\ s.reopen THEN Closed(IF answers THEN Position(s) ELSE s) ELSE s
      open == IF kept.run THEN kept
              ELSE [Forget(kept) EXCEPT !.run = TRUE, !.reopen = FALSE, !.paused = FALSE, !.hwpaused = FALSE]
  IN /\ Free
     /\ s' = IF ok THEN [open EXCEPT !.paused = FALSE, !.hwpaused = FALSE, !.late = FALSE]
             ELSE Closed(open)

\* PAUSE: in the PCM if it can, else by stopping it, which discards the queue.
Pause(hardware) ==
  LET t == Position(s)
  IN /\ Free /\ s.run
     /\ s' = IF hardware THEN [t EXCEPT !.hwpaused = TRUE, !.paused = TRUE]
             ELSE [Emptied(Forget(t)) EXCEPT !.paused = TRUE]

Flush ==
  /\ Free /\ s.run
  /\ s' = [Emptied(Forget(Position(s))) EXCEPT !.paused = FALSE, !.hwpaused = FALSE]

\* sco_out_flush: whole packets go to the PCM.
ScoOutFlush(t) ==
  LET whole == (Len(t.staged) \div Packet) * Packet
  IN [t EXCEPT !.hwq = @ \o SubSeq(t.staged, 1, whole),
               !.staged = SubSeq(t.staged, whole + 1, Len(t.staged))]

\* out_aidl_align: a PCM ahead of the writer is forwarded to it.
Align(t) == [t EXCEPT !.late = FALSE]

\* out_aidl_tail: the rest is folded and padded to a packet.
Padded(t) ==
  LET all == t.staged \o (IF t.acc > 0 THEN <<t.acc>> ELSE <<>>)
      pad == (Packet - (Len(all) % Packet)) % Packet
  IN IF ~Sco THEN t
     ELSE ScoOutFlush([t EXCEPT !.staged = all \o [i \in 1..pad |-> 0], !.acc = 0])

\* DRAIN, which the framework's stream worker sends to a stream that transfers.
DrainBegin == /\ Free /\ s.run /\ ~s.paused /\ s' = [Padded(Align(s)) EXCEPT !.draining = TRUE]

\* The loop of DRAIN: done once everything submitted is presented, or after two
\* seconds.
DrainLook(expired) ==
  LET t == Position(s)
      all == t.presented >= Submitted(t)
  IN /\ s.draining
     /\ s' = [t EXCEPT !.draining = ~(all \/ expired), !.drained = all]

\* sco_out_convert: Ratio frames become one, the rest waits in the accumulator.
Convert(t, n) ==
  LET total == t.acc + n
  IN [t EXCEPT !.staged = @ \o [i \in 1..(total \div Ratio) |-> Ratio], !.acc = total % Ratio]

\* pcm_transfer_frames: a first error is answered by preparing the PCM, which
\* drops what it held.
Recovered(t) == [t EXCEPT !.lost = @ + Weight(t.hwq), !.hwq = <<>>, !.late = FALSE]

\* out_write of n frames.  A route changed since the transfer was prepared makes
\* it reopen the PCM by itself.
Write(n, recovers, ok) ==
  LET again == s.reopen
      t == IF again THEN [Emptied(s) EXCEPT !.lost = @ + Weight(s.hwq) + Weight(s.staged) + s.acc,
                                            !.reopen = FALSE]
           ELSE s
      u == IF recovers THEN Recovered(t) ELSE t
      c == Convert(u, n)
      sent == IF Sco THEN ScoOutFlush(c)
              ELSE [u EXCEPT !.hwq = @ \o [i \in 1..n |-> 1]]
      faults == s.faults + (IF recovers \/ ~ok THEN 1 ELSE 0)
  IN /\ Free /\ s.run /\ ~s.paused /\ s.written + n <= MaxWritten /\ faults <= MaxFaults
     /\ s' = IF ok THEN [sent EXCEPT !.written = @ + n, !.drained = FALSE, !.faults = faults]
             ELSE [(IF Sco THEN c ELSE u) EXCEPT !.faults = faults]

\* A patch or a new band marks the stream.
Reroute == /\ s.run /\ ~s.reopen /\ s' = [s EXCEPT !.reopen = TRUE]

\* External: the PCM plays a frame, or runs dry.
Play ==
  /\ s.run /\ ~s.hwpaused
  /\ s' = IF s.hwq = <<>> THEN [s EXCEPT !.late = TRUE]
          ELSE [s EXCEPT !.hwq = SubSeq(@, 2, Len(@)), !.heard = @ + s.hwq[1]]

Next ==
  \/ GetPosition \/ Flush \/ DrainBegin \/ Reroute \/ Play
  \/ \E b \in BOOLEAN : Standby(b) \/ Pause(b) \/ DrainLook(b)
       \/ (\E ok \in BOOLEAN : StartTransfer(b, ok) \/ (\E n \in 1..2 : Write(n, b, ok)))

-----------------------------------------------------------------------------
\* The position reported (out_aidl_position) never runs ahead of what was
\* submitted nor of what was heard, counting as heard only what the stream lost
\* without noticing (a PCM prepared again or reopened inside a write), and a
\* drain that succeeded has presented everything.
PositionSound ==
  /\ 0 <= s.discarded /\ s.discarded <= s.written
  /\ s.presented <= Submitted(s)
  /\ s.presented <= s.heard + s.lost
  /\ s.drained /\ s.run => s.presented = Submitted(s)
=============================================================================
