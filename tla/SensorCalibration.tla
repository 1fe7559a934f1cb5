------------------------- MODULE SensorCalibration -------------------------
(***************************************************************************)
(* Calibration values the sensors report at run time                       *)
(* (sensors-hf/CalibrationStore.cpp, NvcfgJson.cpp): cached per region,    *)
(* written to a file by the event's thread or later by a writer thread     *)
(* that keeps rewrites apart, and read back when the service starts.  The  *)
(* calibration file of a sensor may hold its bias as well.                 *)
(***************************************************************************)
EXTENDS Integers

CONSTANTS Values,     \* calibration values other than zero
          Interval,   \* kMinRewriteIntervalMs
          MaxClock,
          MaxReports, \* events from the kernel
          MaxLives    \* starts of the service

VARIABLE s

Zero == 0     \* all-zero values
None == -1
Regions == {"bias", "cali"}

Cold == [value |-> None, saved |-> None, attempt |-> 0 - Interval, pending |-> FALSE, failed |-> FALSE]

\* file: what each file holds, "both" being the bias in a calibration file that has
\* it; cache: CachedRegion; wake: when the writer thread wakes up by itself, None for
\* not at all; nudged: notify_one; pushed: the payload given to the kernel; shared: the
\* calibration file had the bias when read; failed: the last write failed.
Init ==
  \E bias, cali, both \in Values \cup {None} :
    /\ cali = None => both = None
    /\ s = [file |-> [bias |-> bias, cali |-> cali, both |-> both], cache |-> [r \in Regions |-> Cold],
            now |-> 0, life |-> "down", lives |-> 0, wake |-> None, nudged |-> FALSE, shared |-> FALSE,
            reports |-> 0, pushed |-> [r \in Regions |-> Zero]]

Stored(t, r) == IF r = "bias" /\ t.file.both # None THEN t.file.both ELSE t.file[r]

\* seedCache: a value of this run that is not saved stays.
SeedCache(c, v) ==
  IF v = None \/ (c.value # None /\ c.value # c.saved) THEN c ELSE [c EXCEPT !.value = v, !.saved = v]

\* pushAll of a fresh store: buildPayload reads the files, seeds the cache and hands the kernel the
\* values, zero where there is none.
Start ==
  /\ s.life = "down" /\ s.lives < MaxLives
  /\ s' = [s EXCEPT !.life = "up", !.lives = @ + 1, !.wake = None, !.nudged = TRUE, !.shared = s.file.both # None,
                    !.cache = [r \in Regions |-> SeedCache([Cold EXCEPT !.attempt = s.now - Interval], Stored(s, r))],
                    !.pushed = [r \in Regions |-> IF Stored(s, r) = None THEN Zero ELSE Stored(s, r)]]

\* writeIntArray: a temporary file, synced, then renamed over the old one, or nothing;
\* a calibration file is written without the bias it may have had.
WriteIntArray(t, r, ok) ==
  IF ok THEN [t EXCEPT !.file[r] = t.cache[r].value, !.file["both"] = IF r = "cali" THEN None ELSE @] ELSE t

WritePending(t, r, ok) ==
  WriteIntArray([t EXCEPT !.cache[r] = [@ EXCEPT !.pending = FALSE, !.attempt = t.now, !.failed = ~ok,
                                                 !.saved = IF ok THEN t.cache[r].value ELSE @]], r, ok)

\* onKernelEvent and persistRegion.
PersistRegion(r, v, ok) ==
  LET c == s.cache[r]
      t == [s EXCEPT !.reports = @ + 1, !.cache[r] = [c EXCEPT !.value = v, !.pending = v # Zero /\ c.saved # v]]
      u == IF t.cache[r].pending /\ s.now - c.attempt >= Interval THEN WritePending(t, r, ok) ELSE t
  IN /\ s.life = "up" /\ s.reports < MaxReports
     /\ s' = IF c.value = v /\ (c.pending \/ v = Zero \/ c.saved = v) THEN [s EXCEPT !.reports = @ + 1]
             ELSE [u EXCEPT !.nudged = @ \/ u.cache[r].pending # c.pending]

Due(t, r) == t.cache[r].attempt + Interval

\* persistenceLoop, one turn: what is due is written; the thread sleeps till the next.
Wakes == s.nudged \/ (s.wake # None /\ s.wake <= s.now)

PersistenceLoop(ok) ==
  LET step(t, r) == IF t.cache[r].pending /\ t.now >= Due(t, r) THEN WritePending(t, r, ok) ELSE t
      t == step(step(s, "bias"), "cali")
      left == {Due(t, r) : r \in {q \in Regions : t.cache[q].pending}}
  IN /\ s.life = "up" /\ Wakes
     /\ s' = [t EXCEPT !.nudged = FALSE,
                       !.wake = IF left = {} THEN None ELSE CHOOSE d \in left : \A e \in left : d <= e]

\* The destructor: the writer's last turn, which also tries again what failed.
Unsaved(c) == c.value \notin {None, Zero} /\ c.value # c.saved

Stop(ok) ==
  LET step(t, r) == IF Unsaved(t.cache[r]) THEN WritePending(t, r, ok) ELSE t
  IN /\ s.life = "up" /\ s' = [step(step(s, "bias"), "cali") EXCEPT !.life = "stopped"]

\* The process ends, after its destructor or without.
Exit == /\ s.life # "down" /\ s' = [s EXCEPT !.life = "down"]

Tick == /\ s.now < MaxClock /\ s' = [s EXCEPT !.now = @ + 1]

Next ==
  \/ Start
  \/ \E r \in Regions, v \in Values \cup {Zero}, ok \in BOOLEAN : PersistRegion(r, v, ok)
  \/ \E ok \in BOOLEAN : PersistenceLoop(ok)
  \/ \E ok \in BOOLEAN : Stop(ok)
  \/ Exit
  \/ Tick

-----------------------------------------------------------------------------
\* persistRegion and persistenceLoop: a value that waits is never left behind by a writer
\* that sleeps past its time; what the store takes for saved is what a restart would
\* read (but for a bias the calibration file had, which
\* shadows the bias file until a rewrite drops it); zeros never replace
\* a file; and an orderly stop leaves the last value in the file unless that write failed.
CalibrationDurable ==
  /\ s.life = "up" => \A r \in Regions :
       /\ s.cache[r].pending /\ ~s.nudged => s.wake # None /\ s.wake <= Due(s, r)
       /\ s.cache[r].saved # None /\ ~(r = "bias" /\ s.shared) => Stored(s, r) = s.cache[r].saved
  /\ \A r \in Regions : Stored(s, r) # Zero
  /\ s.life = "stopped" => \A r \in Regions :
       Unsaved(s.cache[r]) => s.cache[r].failed
=============================================================================
