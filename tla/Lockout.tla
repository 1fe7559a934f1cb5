------------------------------- MODULE Lockout -------------------------------
(***************************************************************************)
(* The fingerprint bridge's lockout counter of one user                     *)
(* (bridges/fingerprint/LockoutTracker.h) on top of its record store        *)
(* (LockoutStore.h).  A method of the tracker holds lock_ to its end, so it *)
(* is atomic for the other threads; its persist() is not atomic for the     *)
(* disk: three records are replaced one after the other, each replacement   *)
(* can fail, and the process or the whole device can go down between two of *)
(* them.                                                                    *)
(*                                                                          *)
(* A file has the content a running system sees and the content a reboot    *)
(* would find: renameat changes the first, a successful fsync of the        *)
(* directory makes the first durable.  Deadlines are the ticks left until   *)
(* them, on the steady clock in memory and on the wall clock on disk.       *)
(***************************************************************************)
EXTENDS Integers, Sequences

CONSTANTS
    TIMED,          \* failures that start a timed lockout (5 in the code)
    PERMANENT,      \* failures that start a permanent one (20 in the code)
    LOCK_TICKS,     \* length of a timed lockout (30 s in the code)
    MaxFaults,      \* bound on failed reads and writes
    MaxCrashes,     \* bound on process deaths and reboots
    MaxResets       \* bound on resets

ASSUME LimitsAssumption ==
    /\ TIMED \in Nat \ {0} /\ PERMANENT \in Nat /\ PERMANENT > TIMED
    /\ LOCK_TICKS \in Nat \ {0}
    /\ MaxFaults \in Nat /\ MaxCrashes \in Nat /\ MaxResets \in Nat

NoDeadline == -1
Far == LOCK_TICKS + 1           \* a wall-clock deadline beyond any lockout

ZeroState == [failed |-> 0, failedTimed |-> 0, deadline |-> NoDeadline]

\* The contents of the two files when they do not exist, and of .seen when it does.
NoRecord == [failed |-> -1, failedTimed |-> 0, deadline |-> NoDeadline]
Absent == "absent"
Marker == "marker"
Pending == "pending"

VARIABLES
    mem,        \* the tracker: LockoutTracker's fields
    job,        \* the persist() in progress (a load() that writes counts as one)
    disk,       \* the two files as a running system sees them
    durable,    \* the two files as a reboot would find them
    told,       \* what the step reported: "cleared", "error" or nothing
    real,       \* failed attempts the disk knows of since the last reset request
    saved,      \* the last persist() succeeded
    faults, crashes, resets

vars == <<mem, job, disk, durable, told, real, saved, faults, crashes, resets>>

NoJob == [stage |-> 0, then |-> "none", was |-> 0]
Fresh == [up |-> FALSE, failed |-> 0, failedTimed |-> 0, timed |-> FALSE,
          deadline |-> 0, clearPending |-> FALSE, attached |-> FALSE]

Idle == mem.up /\ job = NoJob
Locked(t) == t.timed \/ t.failed >= PERMANENT

Init ==
    /\ mem = Fresh
    /\ job = NoJob
    /\ disk = [seen |-> Absent, lockout |-> NoRecord]
    /\ durable = disk
    /\ told = "nothing"
    /\ real = 0
    /\ saved = FALSE
    /\ faults = 0 /\ crashes = 0 /\ resets = 0

-----------------------------------------------------------------------------
(* LockoutStore                                                             *)

\* decode: the combinations a record may hold.
Decodes(s) ==
    /\ s.failed <= PERMANENT
    /\ s.failedTimed <= s.failed
    /\ s.deadline # NoDeadline => s.failedTimed = TIMED /\ s.failed < PERMANENT
    /\ s.deadline = NoDeadline => s.failedTimed < TIMED

\* load of a disk that can be read: TRUE when the record is to be trusted.
Loads(d) ==
    /\ d.lockout # NoRecord
    /\ Decodes(d.lockout)
    /\ d.seen = Marker \/ d.lockout.failed = PERMANENT

\* The record persist() writes for these fields.
Encoded(t) ==
    [failed |-> t.failed, failedTimed |-> t.failedTimed,
     deadline |-> IF t.timed THEN t.deadline ELSE NoDeadline]

\* Mutant of SaveSteps: the first replacement writes the final mark.
SaveStepsUnmarked(t) ==
    << [file |-> "seen", content |-> Marker],
       [file |-> "lockout", content |-> Encoded(t)],
       [file |-> "seen", content |-> Marker] >>

\* The record replacements of save, in order.
SaveSteps(t) ==
    << [file |-> "seen", content |-> Pending],
       [file |-> "lockout", content |-> Encoded(t)],
       [file |-> "seen", content |-> Marker] >>

\* The record replacements of load when neither file exists.
FirstSteps ==
    << [file |-> "seen", content |-> Marker],
       [file |-> "lockout", content |-> ZeroState] >>

Steps == IF job.then = "first" THEN FirstSteps ELSE SaveSteps(mem)

\* The disk after the replacement writeRecord is busy with.
Written == [disk EXCEPT ![Steps[job.stage].file] = Steps[job.stage].content]

-----------------------------------------------------------------------------
(* LockoutTracker's private functions, on the tracker's fields              *)

FailClosed(t) ==
    IF t.failed >= PERMANENT
      THEN [t EXCEPT !.failedTimed = 0, !.timed = FALSE, !.deadline = 0,
                     !.clearPending = FALSE]
      ELSE [t EXCEPT !.failed = PERMANENT - 1, !.failedTimed = TIMED,
                     !.timed = TRUE, !.deadline = LOCK_TICKS,
                     !.clearPending = FALSE]

\* The constructor's fields after a successful load.
LoadState(s) ==
    [Fresh EXCEPT !.up = TRUE, !.failed = s.failed, !.failedTimed = s.failedTimed,
                  !.timed = s.deadline # NoDeadline,
                  !.deadline = CASE s.deadline = NoDeadline -> 0
                                 [] s.deadline = Far -> LOCK_TICKS
                                 [] OTHER -> s.deadline]

\* expire has a lockout to end, and its fields before its persist().
Expired(t) == t.timed /\ t.deadline = 0
ExpireState(t) == [t EXCEPT !.timed = FALSE, !.failedTimed = 0]

\* The end of expire: a clear that is due goes to the attached callback.
ReportClear(t) == [t EXCEPT !.clearPending = @ /\ ~t.attached]
Reported(t) == IF t.clearPending /\ t.attached THEN "cleared" ELSE "nothing"

\* addFailedAttempt between its expire() and its persist().
CountState(t) ==
    LET lock == t.failedTimed + 1 >= TIMED /\ t.failed + 1 < PERMANENT
    IN  [t EXCEPT !.failed = @ + 1,
                  !.failedTimed = IF t.failed + 1 >= PERMANENT THEN 0 ELSE @ + 1,
                  !.timed = lock,
                  !.deadline = IF lock THEN LOCK_TICKS ELSE 0]

\* reset before its persist().
ResetState(t) ==
    [t EXCEPT !.failed = 0, !.failedTimed = 0, !.timed = FALSE,
              !.clearPending = FALSE, !.deadline = 0]

\* persist() starts with these fields; `then` tells what follows it.
Begin(t, then, was) ==
    mem' = t /\ job' = [stage |-> 1, then |-> then, was |-> was]

-----------------------------------------------------------------------------
(* Operations.  Each starts while no other holds lock_.                     *)

\* openDirectory and readRecord of both files: readable is FALSE when the directory
\* or a file that exists cannot be read whole.
ReadRecords(readable) ==
    IF readable THEN UNCHANGED faults ELSE faults < MaxFaults /\ faults' = faults + 1

\* The constructor.
Start(readable) ==
    /\ ~mem.up /\ job = NoJob
    /\ ReadRecords(readable)
    /\ \/ /\ readable /\ disk.seen = Absent /\ disk.lockout = NoRecord
          /\ Begin(mem, "first", 0)
       \/ /\ readable /\ Loads(disk)
          /\ mem' = LoadState(disk.lockout)
          /\ UNCHANGED job
       \/ /\ ~readable \/ ~Loads(disk)
          /\ readable => disk.seen # Absent \/ disk.lockout # NoRecord
          /\ Begin(FailClosed([Fresh EXCEPT !.up = TRUE]), "load", 0)
    /\ told' = "nothing"
    /\ UNCHANGED <<disk, durable, real, saved, crashes, resets>>

\* expire, called by the worker thread, by attach and by notifyLockout.
Expire ==
    /\ Idle
    /\ \/ Expired(mem) /\ Begin(ExpireState(mem), "expire", 0) /\ told' = "nothing"
       \/ ~Expired(mem) /\ mem.clearPending /\ mem.attached
          /\ mem' = ReportClear(mem) /\ told' = Reported(mem) /\ UNCHANGED job
    /\ UNCHANGED <<disk, durable, real, saved, faults, crashes, resets>>

\* attach and detach of a session's callback (attach ends in expire).
Attach ==
    /\ Idle /\ ~mem.attached
    /\ LET t == [mem EXCEPT !.attached = TRUE]
       IN  IF Expired(t)
             THEN Begin(ExpireState(t), "expire", 0) /\ told' = "nothing"
             ELSE mem' = ReportClear(t) /\ told' = Reported(t) /\ UNCHANGED job
    /\ UNCHANGED <<disk, durable, real, saved, faults, crashes, resets>>

Detach ==
    /\ Idle /\ mem.attached
    /\ mem' = [mem EXCEPT !.attached = FALSE]
    /\ told' = "nothing"
    /\ UNCHANGED <<job, disk, durable, real, saved, faults, crashes, resets>>

\* addFailedAttempt: called by an attached session.  When a lockout is on it
\* changes nothing.
AddFailedAttempt ==
    /\ Idle /\ mem.attached
    /\ \/ Expired(mem) /\ Begin(ExpireState(mem), "expireCount", 0)
       \/ ~Locked(mem) /\ Begin(CountState(mem), "count", 0)
    /\ told' = "nothing"
    /\ UNCHANGED <<disk, durable, real, saved, faults, crashes, resets>>

\* reset, after a successful authentication or by resetLockout.
Reset ==
    /\ Idle /\ resets < MaxResets
    /\ Begin(ResetState(mem), "reset", mem.failed)
    /\ resets' = resets + 1
    /\ real' = 0
    /\ told' = "nothing"
    /\ UNCHANGED <<disk, durable, saved, faults, crashes>>

-----------------------------------------------------------------------------
(* The disk                                                                 *)

\* What reset reports.
ResetReport(ok) == IF ok THEN "cleared" ELSE "error"

\* persist() returned ok: the rest of the method that called it.
Returned(ok) ==
    LET closed == FailClosed([mem EXCEPT !.failed = IF job.then = "reset" THEN job.was ELSE @])
        expired == [mem EXCEPT !.clearPending = TRUE]
    IN  \/ /\ job.then = "first" /\ ok
           /\ mem' = [Fresh EXCEPT !.up = TRUE] /\ job' = NoJob /\ told' = "nothing"
        \/ /\ job.then = "first" /\ ~ok
           /\ Begin(FailClosed([Fresh EXCEPT !.up = TRUE]), "load", 0) /\ told' = "nothing"
        \/ /\ job.then = "load" \/ (job.then = "count" /\ ok)
           /\ mem' = mem /\ job' = NoJob /\ told' = "nothing"
        \/ /\ job.then = "expire" /\ ok
           /\ mem' = ReportClear(expired) /\ told' = Reported(expired) /\ job' = NoJob
        \/ /\ job.then = "expireCount" /\ ok
           /\ Begin(CountState(ReportClear(expired)), "count", 0)
           /\ told' = Reported(expired)
        \/ /\ job.then \in {"expire", "expireCount", "count"} /\ ~ok
           /\ mem' = closed /\ job' = NoJob /\ told' = "nothing"
        \/ /\ job.then = "reset"
           /\ mem' = (IF ok THEN mem ELSE closed) /\ job' = NoJob
           /\ told' = ResetReport(ok)

\* writeRecord replaces a file and synchronises the directory.
Write ==
    /\ job # NoJob
    /\ disk' = Written /\ durable' = Written
    /\ IF job.stage < Len(Steps)
         THEN /\ job' = [job EXCEPT !.stage = @ + 1]
              /\ told' = "nothing"
              /\ UNCHANGED <<mem, real, saved>>
         ELSE /\ Returned(TRUE)
              /\ saved' = TRUE
              /\ real' = IF job.then = "count" THEN real + 1 ELSE real
    /\ UNCHANGED <<faults, crashes, resets>>

\* writeRecord fails: before the rename, or after it in fsync of the directory.
\* An attempt the disk has a pending mark of is known to it.
WriteFails(renamed) ==
    /\ job # NoJob /\ faults < MaxFaults
    /\ disk' = IF renamed THEN Written ELSE disk
    /\ Returned(FALSE)
    /\ saved' = FALSE
    /\ real' = IF job.then = "count" /\ job.stage > 1 THEN real + 1 ELSE real
    /\ faults' = faults + 1
    /\ UNCHANGED <<durable, crashes, resets>>

\* The process dies, or the device reboots.  A replacement in progress may have
\* taken place; a reboot may lose what was not synchronised.
Crash(reboot) ==
    /\ crashes < MaxCrashes
    /\ mem.up \/ job # NoJob
    /\ \E d \in {disk} \cup (IF job # NoJob THEN {Written} ELSE {})
               \cup (IF reboot THEN {durable} ELSE {}) :
          disk' = d /\ durable' = IF reboot THEN d ELSE durable
    /\ mem' = Fresh /\ job' = NoJob
    /\ saved' = FALSE /\ told' = "nothing"
    /\ crashes' = crashes + 1
    /\ UNCHANGED <<real, faults, resets>>

-----------------------------------------------------------------------------
(* Time                                                                     *)

\* The disk when its deadline is moved by m.
Moved(d, m(_)) ==
    IF d.lockout = NoRecord \/ d.lockout.deadline = NoDeadline THEN d
    ELSE [d EXCEPT !.lockout.deadline = m(@)]

\* Both clocks advance.  No method is running: one that is waiting for the disk
\* neither reads a clock nor lets another method in.
Tick ==
    /\ job = NoJob
    /\ mem.timed /\ mem.deadline > 0
    /\ mem' = [mem EXCEPT !.deadline = @ - 1]
    /\ LET m(r) == IF r \in {0, Far} THEN r ELSE r - 1
       IN  disk' = Moved(disk, m) /\ durable' = Moved(durable, m)
    /\ told' = "nothing"
    /\ UNCHANGED <<job, real, saved, faults, crashes, resets>>

\* The wall clock is set, far back or far ahead, while the service is down.
WallClock(far) ==
    /\ ~mem.up /\ job = NoJob
    /\ disk.lockout # NoRecord /\ disk.lockout.deadline # NoDeadline
    /\ LET m(r) == IF far THEN Far ELSE 0
       IN  disk' = Moved(disk, m) /\ durable' = Moved(durable, m)
    /\ told' = "nothing"
    /\ UNCHANGED <<mem, job, real, saved, faults, crashes, resets>>

Next ==
    \/ \E readable \in BOOLEAN : Start(readable)
    \/ Expire \/ Attach \/ Detach \/ AddFailedAttempt \/ Reset
    \/ Write
    \/ \E renamed \in BOOLEAN : WriteFails(renamed)
    \/ \E reboot \in BOOLEAN : Crash(reboot)
    \/ Tick
    \/ \E far \in BOOLEAN : WallClock(far)

Spec == Init /\ [][Next]_vars

-----------------------------------------------------------------------------
(* Properties                                                               *)

\* No failed attempt is forgotten by a failed write, a death of the service or a
\* reboot: a tracker that lets the user try has counted every attempt the disk
\* was told of since the last reset, short of the one a fail-closed tracker
\* leaves after its timed lockout.
AttemptsSurvive ==
    Idle /\ ~Locked(mem) =>
        mem.failed >= IF real < PERMANENT THEN real ELSE PERMANENT - 1

\* What is kept and what is told agree with the disk.  After a persist() that
\* succeeded a death or a reboot brings the same tracker back: the record is
\* durable, load trusts it, and it says what memory says.  onLockoutCleared is
\* reported only when the cleared state is durable.
LockoutDurable ==
    /\ Idle /\ saved =>
          /\ disk = durable
          /\ Loads(durable)
          /\ durable.lockout.failed = mem.failed
          /\ durable.lockout.failedTimed = mem.failedTimed
          /\ (durable.lockout.deadline # NoDeadline) = mem.timed
    /\ told = "cleared" =>
          /\ Loads(durable)
          /\ durable.lockout.deadline = NoDeadline
          /\ durable.lockout.failed < PERMANENT
          /\ ~Expired(mem)

\* A timed lockout ends: once the storage works and the service stays up, the
\* worker clears it without any call from a session.
TimedEnds == mem.timed ~> (Idle /\ ~mem.timed)

=============================================================================
