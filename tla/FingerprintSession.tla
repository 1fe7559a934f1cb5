-------------------------- MODULE FingerprintSession --------------------------
(***************************************************************************)
(* One session of the fingerprint bridge (bridges/fingerprint):            *)
(* SessionBridge, called by the one binder thread of the service,          *)
(* HidlCallback, called by the vendor library's thread, and RemovalBatch,  *)
(* whose worker asks the library to remove one enrolment after the other.  *)
(*                                                                         *)
(* What a thread does under RemovalBatch::lock_ is one step.  A call that  *)
(* holds authenticationLock_ or dispatch_ across a call to the client or   *)
(* the library is several steps, and `hal` and `worker` say who holds      *)
(* them.  The answers of the lockout counter (module Lockout) and of the   *)
(* library are nondeterministic.  The client is told one thing at a time,  *)
(* in `told`; `mode` is what it asked for last and was not answered yet.   *)
(***************************************************************************)
EXTENDS Naturals, Sequences, SequencesExt

CONSTANTS
    Batches,        \* the id sequences a client removes; id 0 stands for all
    Fingers,        \* the ids the library reports (0 is "none")
    MaxStarts,      \* bound: removals accepted
    MaxListed       \* bound: enrolments in one enumeration or removal report

VARIABLES
    s,          \* HidlCallback and SessionBridge: their flags
    batch,      \* RemovalBatch
    worker,     \* its worker thread, with the values it read under lock_
    hal,        \* the callback the library's thread is in, "idle" when none
    binder,     \* where the binder thread is
    told,       \* what this step told the client
    mode,       \* "authenticate", "enroll" or "none"
    count       \* removals started and answered, callbacks after close

vars == <<s, batch, worker, hal, binder, told, mode, count>>

Idle == [at |-> "wait", index |-> 0, removed |-> <<>>]
NoBatch(retired) ==
    [active |-> FALSE, waiting |-> FALSE, retired |-> retired, index |-> 0,
     pending |-> <<>>, removed |-> <<>>]

\* The constructor: a session that has no library, or whose group cannot be
\* activated, is dead from the start and its callback hears nothing.
Init ==
    /\ \E dead \in BOOLEAN :
          /\ s = [active |-> ~dead, dead |-> dead, authenticating |-> FALSE,
                  lockedOut |-> FALSE, enumerated |-> 0]
          /\ batch = NoBatch(dead)
    /\ worker = Idle
    /\ hal = "idle" /\ binder = "idle" /\ told = "nothing" /\ mode = "none"
    /\ count = [started |-> 0, answered |-> 0, late |-> 0]

\* The client is told `what`; after onSessionClosed it is too late.
Tell(what) ==
    /\ told' = what
    /\ count' = [count EXCEPT !.late = IF binder = "closed" THEN @ + 1 ELSE @,
                              !.answered = IF what = "removed" THEN @ + 1 ELSE @]
Silent == told' = "nothing" /\ UNCHANGED count

-----------------------------------------------------------------------------
(* HidlCallback, on the library's thread                                    *)

AuthenticationLocked == hal \in {"acquired", "failed", "succeeded", "error"}

\* A callback begins: it returns at once when the session is not active, and
\* onAcquired, onAuthenticated and onError hold authenticationLock_ from here.
Notified(kind) ==
    /\ hal = "idle" /\ s.active
    /\ hal' = kind
    /\ Silent
    /\ UNCHANGED <<s, batch, worker, binder, mode>>

\* onEnrollResult and onAcquired tell the client and change nothing else.
OnProgress ==
    /\ hal \in {"progress", "acquired"}
    /\ IF hal = "acquired" /\ s.lockedOut THEN Silent ELSE Tell("progress")
    /\ hal' = "idle"
    /\ UNCHANGED <<s, batch, worker, binder, mode>>

\* onEnumerate collects under its own lock and tells the client at the last one.
OnEnumerate(finger, last) ==
    /\ hal = "enumerate"
    /\ LET n == s.enumerated + (IF finger THEN 1 ELSE 0)
       IN  /\ n <= MaxListed
           /\ s' = [s EXCEPT !.enumerated = IF last THEN 0 ELSE n]
    /\ IF last THEN Tell("enumerated") ELSE Silent
    /\ hal' = "idle"
    /\ UNCHANGED <<batch, worker, binder, mode>>

\* onAuthenticated with no finger: addFailedAttempt decides; a lockout ends the
\* authentication, is told to the client and cancels the library's operation.
OnFailed(locked) ==
    /\ hal = "failed"
    /\ IF s.authenticating /\ ~s.lockedOut
         THEN /\ s' = [s EXCEPT !.lockedOut = locked, !.authenticating = ~locked]
              /\ Tell(IF locked THEN "locked" ELSE "failed")
              /\ mode' = IF locked THEN "none" ELSE mode
         ELSE Silent /\ UNCHANGED <<s, mode>>
    /\ hal' = "idle"
    /\ UNCHANGED <<batch, worker, binder>>

\* onAuthenticated with a finger; a token that is too short is an error.
OnSucceeded(whole) ==
    /\ hal = "succeeded"
    /\ IF s.authenticating /\ ~s.lockedOut
         THEN /\ s' = [s EXCEPT !.authenticating = FALSE]
              /\ Tell(IF whole THEN "succeeded" ELSE "error")
              /\ mode' = "none"
         ELSE Silent /\ UNCHANGED <<s, mode>>
    /\ hal' = "idle"
    /\ UNCHANGED <<batch, worker, binder>>

\* onError: an active removal takes it (RemovalBatch::fail), else it ends the
\* authentication.  lockout is TRUE for the library's own lockout codes.
OnError(lockout) ==
    /\ hal = "error"
    /\ IF batch.active
         THEN /\ batch' = [batch EXCEPT !.waiting = FALSE, !.index = Len(batch.pending)]
              /\ Silent
              /\ UNCHANGED <<s, mode>>
         ELSE /\ s' = [s EXCEPT !.authenticating = FALSE]
              /\ IF lockout \/ ~s.lockedOut THEN Tell("error") ELSE Silent
              /\ mode' = IF mode = "authenticate" THEN "none" ELSE mode
              /\ UNCHANGED batch
    /\ hal' = "idle"
    /\ UNCHANGED <<worker, binder>>

\* RemovalBatch::result.
Result(id, remaining) ==
    IF \/ ~batch.active \/ ~batch.waiting
       \/ id # 0 /\ batch.pending[batch.index + 1] \notin {0, id}
    THEN batch
    ELSE [batch EXCEPT !.removed = IF id # 0 THEN Append(@, id) ELSE @,
                       !.waiting = remaining # 0,
                       !.index = IF remaining = 0 THEN @ + 1 ELSE @]

\* onRemoved.  The batch looks for itself whether it is cancelled, so that the
\* check of active_ and the report are one step; the library may report from any
\* of its threads.
OnRemoved(id, remaining) ==
    /\ s.active
    /\ remaining # 0 => Len(batch.removed) < MaxListed
    /\ batch' = Result(id, remaining)
    /\ Silent
    /\ UNCHANGED <<s, worker, hal, binder, mode>>

-----------------------------------------------------------------------------
(* RemovalBatch: the worker thread                                          *)

\* The worker wakes up: the batch is over, or it picks the next id.
Wake ==
    /\ worker.at = "wait"
    /\ batch.active /\ ~batch.waiting
    /\ IF batch.index = Len(batch.pending)
         THEN /\ worker' = [Idle EXCEPT !.at = "complete", !.removed = batch.removed]
              /\ batch' = [batch EXCEPT !.active = FALSE, !.removed = <<>>]
         ELSE /\ worker' = [Idle EXCEPT !.at = "dispatch", !.index = batch.index]
              /\ UNCHANGED batch
    /\ Silent
    /\ UNCHANGED <<s, hal, binder, mode>>

\* It takes dispatch_, looks again and calls the library.
Dispatch ==
    /\ worker.at = "dispatch"
    /\ IF batch.active /\ batch.index = worker.index
         THEN /\ worker' = [worker EXCEPT !.at = "remove"]
              /\ batch' = [batch EXCEPT !.waiting = TRUE]
         ELSE worker' = Idle /\ UNCHANGED batch
    /\ Silent
    /\ UNCHANGED <<s, hal, binder, mode>>

\* The library's remove() returns; a refused id is skipped.
Removed(accepted) ==
    /\ worker.at = "remove"
    /\ batch' = IF batch.active /\ batch.waiting /\ batch.index = worker.index /\ ~accepted
                THEN [batch EXCEPT !.waiting = FALSE, !.index = @ + 1]
                ELSE batch
    /\ worker' = Idle
    /\ Silent
    /\ UNCHANGED <<s, hal, binder, mode>>

\* The completion looks whether the session is active, then tells the client.
Complete ==
    /\ worker.at \in {"complete", "answer"}
    /\ \/ /\ worker.at = "complete" /\ s.active
          /\ worker' = [worker EXCEPT !.at = "answer"]
          /\ Silent
       \/ /\ worker.at = "complete" /\ ~s.active
          /\ worker' = Idle
          /\ Silent
       \/ /\ worker.at = "answer"
          /\ worker' = Idle
          /\ Tell("removed")
    /\ UNCHANGED <<s, batch, hal, binder, mode>>

-----------------------------------------------------------------------------
(* SessionBridge, on the binder thread                                      *)

BeginAuthentication(locked) ==
    s' = [s EXCEPT !.lockedOut = locked, !.authenticating = ~locked]
BeginEnrollment == s' = [s EXCEPT !.authenticating = FALSE, !.lockedOut = FALSE]

\* authenticate: beginAuthentication under authenticationLock_, then the call of
\* the library, which may refuse.
Authenticate(locked) ==
    /\ binder = "idle" /\ ~AuthenticationLocked
    /\ BeginAuthentication(locked)
    /\ IF locked
         THEN mode' = "none" /\ Tell("locked") /\ UNCHANGED binder
         ELSE mode' = "authenticate" /\ Silent /\ binder' = "starting"
    /\ UNCHANGED <<batch, worker, hal>>

\* enroll: beginEnrollment under authenticationLock_, then the call.
Enroll ==
    /\ binder = "idle" /\ ~s.dead /\ ~AuthenticationLocked
    /\ BeginEnrollment
    /\ binder' = "starting"
    /\ mode' = "enroll"
    /\ Silent
    /\ UNCHANGED <<batch, worker, hal>>

\* The library took the operation or refused it, or it is dead.
Started(accepted) ==
    /\ binder = "starting" /\ (accepted => ~s.dead)
    /\ binder' = "idle"
    /\ IF accepted THEN Silent ELSE Tell("error")
    /\ UNCHANGED <<s, batch, worker, hal, mode>>

\* A call that only tells the client something, or nothing.
Answers(what) ==
    /\ binder = "idle"
    /\ IF what = "nothing" THEN Silent ELSE Tell(what)
    /\ UNCHANGED <<s, batch, worker, hal, binder, mode>>

\* generateChallenge and revokeChallenge, of a dead session too.
Challenge == Answers("answer")

\* getAuthenticatorId and invalidateAuthenticatorId.
AuthenticatorId == Answers("answer")

\* detectInteraction is not supported; enroll of a dead session.
Unsupported == Answers("error")

\* enumerateEnrollments: the library reports them (OnEnumerate), or it refused or
\* is dead and an empty list is told.
EnumerateEnrollments(accepted) ==
    /\ accepted => ~s.dead
    /\ Answers(IF accepted THEN "nothing" ELSE "answer")

\* resetLockout: the lockout counter is reset and says so; a token that is not recent
\* and a reset that cannot be saved are errors.
ResetLockout(done) == Answers(IF done THEN "answer" ELSE "error")

\* RemovalBatch::start: refused while a batch is active and after close.
StartBatch(ids) ==
    /\ ~batch.active /\ ~batch.retired
    /\ batch' = [NoBatch(FALSE) EXCEPT !.active = TRUE, !.pending = ids]

\* removeEnrollments: answered at once by a dead session.
RemoveEnrollments(ids) ==
    \/ s.dead /\ Answers("answer")
    \/ /\ binder = "idle" /\ ~s.dead /\ count.started < MaxStarts
       /\ StartBatch(ids)
       /\ count' = [count EXCEPT !.started = @ + 1]
       /\ told' = "nothing"
       /\ UNCHANGED <<s, worker, hal, binder, mode>>

\* close: deactivate stores active_, ...
Close ==
    /\ binder = "idle"
    /\ s' = [s EXCEPT !.active = FALSE]
    /\ binder' = "closing"
    /\ Silent
    /\ UNCHANGED <<batch, worker, hal, mode>>

\* RemovalBatch::cancel; it holds dispatch_, which remove() is called with.
CancelBatch ==
    /\ worker.at # "remove"
    /\ batch' = [batch EXCEPT !.active = FALSE, !.retired = TRUE]

\* Mutant of Cancel: dispatch_ is not taken.
CancelUnlocked ==
    /\ binder = "closing"
    /\ batch' = [batch EXCEPT !.active = FALSE, !.retired = TRUE]
    /\ binder' = "cancelled"
    /\ Silent
    /\ UNCHANGED <<s, worker, hal, mode>>

\* ... RemovalBatch::cancel waits for a remove() in progress, ...
Cancel ==
    /\ binder = "closing" /\ CancelBatch
    /\ binder' = "cancelled"
    /\ Silent
    /\ UNCHANGED <<s, worker, hal, mode>>

\* ... the library's operation is cancelled and onSessionClosed told.
Closed ==
    /\ binder = "cancelled"
    /\ binder' = "closed" /\ mode' = "none"
    /\ Silent
    /\ UNCHANGED <<s, batch, worker, hal>>

Next ==
    \/ \E kind \in {"progress", "acquired", "failed", "succeeded", "error", "enumerate"} :
          Notified(kind)
    \/ OnProgress
    \/ \E finger, last \in BOOLEAN : OnEnumerate(finger, last)
    \/ \E b \in BOOLEAN : OnFailed(b) \/ OnSucceeded(b) \/ OnError(b)
    \/ \E id \in Fingers, remaining \in {0, 1} : OnRemoved(id, remaining)
    \/ Wake \/ Dispatch \/ Complete
    \/ \E b \in BOOLEAN : Removed(b) \/ Authenticate(b) \/ Started(b)
    \/ \E b \in BOOLEAN : EnumerateEnrollments(b) \/ ResetLockout(b)
    \/ Enroll \/ Challenge \/ AuthenticatorId \/ Unsupported \/ Close \/ Cancel \/ Closed
    \/ \E ids \in Batches : RemoveEnrollments(ids)

Spec == Init /\ [][Next]_vars

\* The library ends each removal it accepted with a last report.
LibraryReports == batch.waiting /\ OnRemoved(batch.pending[batch.index + 1], 0)

-----------------------------------------------------------------------------
(* Properties                                                               *)

\* Removals are exact.  Each accepted removal is answered by one
\* onEnrollmentsRemoved or still runs, and only a closed session leaves one
\* unanswered; the ids reported were asked for; an id waited for exists
\* (result() reads pending_[index_]); and once cancel() has returned the library
\* is not in a remove() of this session and is not asked for another.
RemovalExact ==
    /\ count.answered <= count.started
    /\ s.active => count.started = count.answered +
          (IF batch.active THEN 1 ELSE 0) +
          (IF worker.at \in {"complete", "answer"} THEN 1 ELSE 0)
    /\ batch.active /\ 0 \notin Range(batch.pending) =>
          Range(batch.removed) \subseteq Range(batch.pending)
    /\ batch.active /\ batch.waiting => batch.index < Len(batch.pending)
    /\ batch.retired => worker.at # "remove"

\* An authentication result goes to a client whose last request was that
\* authentication: none after its result, its lockout or the library's error, none
\* while the client enrols; and after onSessionClosed at most the callback each of
\* the library's and the worker's threads was in still arrives.
ResultBelongs ==
    /\ told' \in {"succeeded", "failed"} => mode = "authenticate" \/ binder = "closed"
    /\ count.late' <= 2

\* A removal ends, by its last report, by an error or by close(), whatever its
\* reports are then worth: the worker is woken by whichever thread makes the batch go on.
RemovalEnds == batch.active ~> ~batch.active
=============================================================================
