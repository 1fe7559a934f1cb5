--------------------------- MODULE AtEngineProofs ---------------------------
(***************************************************************************)
(* The engine's type invariant, the single completion of every command and *)
(* the coherence of phase, active command and write, for every queue       *)
(* length, timeout, attempt bound and line limit.                          *)
(*                                                                         *)
(* Each private operation of the engine has a lemma that says what it      *)
(* preserves of an arbitrary engine record; an action composes them in the *)
(* order its handler makes the calls.  Between two calls of one handler    *)
(* Coherent may be broken (a command is completed before the phase moves), *)
(* so the lemmas carry Good, which is never broken, and the operations     *)
(* that end a handler restore Coherent.                                    *)
(*                                                                         *)
(* The second half shows that the engine implements RequestService: Serves *)
(* says what one private call, or several in a row, may do to the requests *)
(* (it composes), and a whole handler is an acceptance or one turn.        *)
(***************************************************************************)
EXTENDS AtEngine, WellFoundedInduction, TLAPS

\* What holds of the record between any two private calls.
Good(e) == e \in EngineType /\ Accounted(e)

\* What holds between two public calls.  The bound on received is what keeps
\* the next CountInput in range.
Sound(e) ==
    /\ Good(e)
    /\ Coherent(e)
    /\ e.active # None => e.received <= TRANSACTION_BYTES
    /\ e.phase = "Failed" => e.queue = {}

\* The ids a command may wait under.
LEMMA WaitingIds ==
    ASSUME NEW e, Good(e)
    PROVE  Waiting(e) \subseteq Ids /\ None \notin Ids
BY EngineConstants DEF Good, EngineType, Waiting, None, Ids

\* Good depends on four fields beside the types.
LEMMA GoodFrame ==
    ASSUME NEW e, Good(e), NEW f \in EngineType,
           f.active = e.active, f.queue = e.queue, f.next_id = e.next_id,
           f.completions = e.completions
    PROVE  Good(f)
BY DEF Good, Accounted, Waiting

\* complete() answers waiting commands once and drops them.
LEMMA CompleteGood ==
    ASSUME NEW e, Good(e), NEW ids \in SUBSET Waiting(e), NEW res \in {"Ok"} \cup Errors
    PROVE  /\ Good(Complete(e, ids, res))
           /\ Complete(e, ids, res).phase = e.phase
           /\ Complete(e, ids, res).unsent = e.unsent
           /\ Complete(e, ids, res).received = e.received
           /\ Complete(e, ids, res).active = IF e.active \in ids THEN None ELSE e.active
           /\ Complete(e, ids, res).queue = e.queue \ ids
<1> DEFINE c == Complete(e, ids, res)
<1>1. c \in EngineType
  <2>1. [i \in Ids |-> e.completions[i] + IF i \in ids THEN 1 ELSE 0] \in [Ids -> Nat]
    BY DEF Good, EngineType
  <2>2. [i \in Ids |-> IF i \in ids THEN res ELSE e.result[i]] \in [Ids -> {"none", "Ok"} \cup Errors]
    BY DEF Good, EngineType
  <2>3. [i \in Ids |-> IF i \in ids THEN 0 ELSE e.ttl[i]] \in [Ids -> Nat]
    BY DEF Good, EngineType
  <2>4. (IF e.active \in ids THEN None ELSE e.active) \in Ids \cup {None}
    BY DEF Good, EngineType
  <2> QED
    BY <2>1, <2>2, <2>3, <2>4 DEF Good, EngineType, Complete
<1>2. /\ c.phase = e.phase /\ c.unsent = e.unsent /\ c.queue = e.queue \ ids
      /\ c.active = IF e.active \in ids THEN None ELSE e.active
      /\ c.next_id = e.next_id /\ c.received = e.received
      /\ c.completions = [i \in Ids |-> e.completions[i] + IF i \in ids THEN 1 ELSE 0]
  BY DEF Complete, Good, EngineType
<1>3. Waiting(c) = Waiting(e) \ ids
  BY <1>2 DEF Waiting, None
<1> HIDE DEF c
<1>4. Accounted(c)
  <2>1. /\ Accounted(e) /\ ids \subseteq Ids /\ e.queue \subseteq Ids /\ None \notin Ids
    BY WaitingIds DEF Good, EngineType
  <2>2. c.active \notin c.queue
    BY <1>2, <2>1 DEF Accounted
  <2>3. ASSUME NEW i \in Ids
        PROVE  /\ c.completions[i] = IF i <= c.next_id /\ i \notin Waiting(c) THEN 1 ELSE 0
               /\ i \in Waiting(c) => i <= c.next_id
    <3>1. /\ e.completions[i] = IF i <= e.next_id /\ i \notin Waiting(e) THEN 1 ELSE 0
          /\ i \in Waiting(e) => i <= e.next_id
      BY <2>1 DEF Accounted
    <3>2. c.completions[i] = e.completions[i] + IF i \in ids THEN 1 ELSE 0
      BY <1>2
    <3> QED
      BY <1>2, <1>3, <3>1, <3>2
  <2> QED
    BY <2>2, <2>3 DEF Accounted
<1> QED
  BY <1>1, <1>2, <1>4 DEF Good, c

\* clear_write() withdraws the token and touches nothing else.
LEMMA ClearWriteGood ==
    ASSUME NEW e, Good(e)
    PROVE  /\ Good(ClearWrite(e))
           /\ ClearWrite(e).unsent = 0
           /\ ClearWrite(e).active = e.active
           /\ ClearWrite(e).queue = e.queue
<1> DEFINE flags == IF e.unsent > 0 THEN e.flags \cup {"withdrawn"} ELSE e.flags
<1>1. e \in EngineType /\ 0 \in 0 .. WRITE_BYTES
  BY EngineConstants DEF Good
<1>2. flags \in SUBSET Flags
  BY <1>1 DEF EngineType, Flags
<1>3. ClearWrite(e) = [e EXCEPT !.unsent = 0, !.flags = flags]
  BY DEF ClearWrite
<1> HIDE DEF flags
<1>4. ClearWrite(e) \in EngineType
  BY <1>1, <1>2, <1>3 DEF EngineType
<1> QED
  BY <1>1, <1>3, <1>4 DEF Good, EngineType, ClearWrite, Accounted, Waiting

\* fail() answers every waiting command and leaves a sound, dead engine.
LEMMA FailSound ==
    ASSUME NEW e, Good(e), NEW error \in Errors
    PROVE  Sound(Fail(e, error)) /\ Fail(e, error).phase = "Failed"
<1> DEFINE a == Complete(e, Waiting(e), error)
           c == ClearWrite(a)
           f == Fail(e, error)
<1>1. Good(a) /\ a.active = None /\ a.queue = {}
  <2>1. Waiting(e) \in SUBSET Waiting(e) /\ error \in {"Ok"} \cup Errors
    OBVIOUS
  <2>2. /\ Good(a) /\ a.queue = e.queue \ Waiting(e)
        /\ a.active = IF e.active \in Waiting(e) THEN None ELSE e.active
    BY <2>1, CompleteGood
  <2> HIDE DEF a
  <2> QED
    BY <2>2 DEF Waiting
<1>2. Good(c) /\ c.unsent = 0 /\ c.active = None /\ c.queue = {}
  BY <1>1, ClearWriteGood
<1>3. f = [c EXCEPT !.phase = "Failed", !.framer = "empty"]
  BY DEF Fail
<1> HIDE DEF a, c, f
<1>4. f \in EngineType
  <2>1. c \in EngineType /\ "Failed" \in Phases
    BY <1>2 DEF Good, Phases
  <2> QED
    BY <1>3, <2>1 DEF EngineType
<1>5. /\ f.active = c.active /\ f.queue = c.queue /\ f.next_id = c.next_id
      /\ f.completions = c.completions
      /\ f.unsent = c.unsent /\ f.phase = "Failed"
  BY <1>2, <1>3 DEF Good, EngineType
<1>6. Good(f)
  BY <1>2, <1>4, <1>5, GoodFrame
<1> QED
  BY <1>2, <1>5, <1>6 DEF Sound, Coherent, f

\* Entering the silence window withdraws any write; with no command active
\* the result is sound.
LEMMA SilenceSound ==
    ASSUME NEW e, Good(e), e.active = None
    PROVE  /\ Sound(EnterSilence(e))
           /\ EnterSilence(e).phase = "Silence"
           /\ EnterSilence(e).active = None
<1> DEFINE c == ClearWrite(e)
           f == EnterSilence(e)
<1>1. Good(c) /\ c.unsent = 0 /\ c.active = None
  BY ClearWriteGood
<1>2. f = [c EXCEPT !.phase = "Silence", !.quiet = 0, !.flags = @ \ {"resync_intermediate"}]
  BY DEF EnterSilence
<1> HIDE DEF c, f
<1>3. f \in EngineType
  <2>1. /\ c \in EngineType /\ "Silence" \in Phases
        /\ 0 \in 0 .. SILENCE_MS
    BY <1>1, EngineConstants DEF Good, Phases, Quarantine
  <2>2. c.flags \ {"resync_intermediate"} \in SUBSET Flags
    BY <2>1 DEF EngineType
  <2> QED
    BY <1>2, <2>1, <2>2 DEF EngineType
<1>4. /\ f.active = c.active /\ f.queue = c.queue /\ f.next_id = c.next_id
      /\ f.completions = c.completions
      /\ f.unsent = c.unsent /\ f.phase = "Silence"
  BY <1>1, <1>2 DEF Good, EngineType
<1>5. Good(f)
  BY <1>1, <1>3, <1>4, GoodFrame
<1> QED
  BY <1>1, <1>4, <1>5 DEF Sound, Coherent, f

\* quarantine() answers the active command and makes the engine sound.
LEMMA QuarantineSound ==
    ASSUME NEW e, Good(e), NEW error \in Errors
    PROVE  /\ Sound(EnterQuarantine(e, error))
           /\ EnterQuarantine(e, error).phase = "Silence"
           /\ EnterQuarantine(e, error).active = None
<1> DEFINE a == Complete(e, {e.active} \ {None}, error)
           c == EnterSilence(a)
           late == CASE e.active = None -> c.flags
                     [] e.active \in e.extra -> c.flags \cup {"late_finals"}
                     [] OTHER -> c.flags \ {"late_finals"}
           f == EnterQuarantine(e, error)
<1>1. Good(a) /\ a.active = None
  <2>1. {e.active} \ {None} \in SUBSET Waiting(e) /\ error \in {"Ok"} \cup Errors
    BY DEF Waiting
  <2>2. e.active \in {e.active} \ {None} \/ e.active = None
    OBVIOUS
  <2> QED
    BY <2>1, <2>2, CompleteGood
<1>2. Sound(c) /\ c.phase = "Silence" /\ c.active = None
  BY <1>1, SilenceSound
<1>3. f = [c EXCEPT !.attempts = 0, !.flags = late]
  BY DEF EnterQuarantine
<1>4. late \in SUBSET Flags
  BY <1>2 DEF Sound, Good, EngineType, Flags
<1> HIDE DEF a, c, f, late
<1>5. f \in EngineType
  <2>1. c \in EngineType /\ 0 \in 0 .. RESYNC_ATTEMPTS
    BY <1>2, EngineConstants DEF Sound, Good
  <2> QED
    BY <1>3, <1>4, <2>1 DEF EngineType
<1>6. /\ f.active = c.active /\ f.queue = c.queue /\ f.next_id = c.next_id
      /\ f.completions = c.completions
      /\ f.unsent = c.unsent /\ f.phase = c.phase
  BY <1>2, <1>3 DEF Sound, Good, EngineType
<1>7. Good(f)
  BY <1>2, <1>5, <1>6, GoodFrame DEF Sound
<1> QED
  BY <1>2, <1>6, <1>7 DEF Sound, Coherent, f

\* expire() keeps a sound engine sound.
LEMMA ExpireSound ==
    ASSUME NEW e, Sound(e)
    PROVE  Sound(Expire(e))
<1> DEFINE a == IF e.active # None /\ e.ttl[e.active] = 0
                THEN EnterQuarantine(e, "Timeout") ELSE e
           late == {i \in a.queue : a.ttl[i] = 0}
<1>1. Sound(a)
  BY QuarantineSound DEF Sound, Errors
<1>2. Expire(e) = IF a.phase \in {"ProbeWriting", "ProbeReading"} /\ a.rttl = 0
                  THEN Fail(a, "ResyncFailed") ELSE Complete(a, late, "Timeout")
  BY DEF Expire
<1> HIDE DEF a
<1>3. Sound(Fail(a, "ResyncFailed"))
  BY <1>1, FailSound DEF Sound, Errors
<1>4. Sound(Complete(a, late, "Timeout"))
  <2>1. late \in SUBSET Waiting(a)
    BY DEF Waiting
  <2>2. a.active \notin late
    BY <1>1 DEF Sound, Good, Accounted
  <2> QED
    BY <1>1, <2>1, <2>2, CompleteGood DEF Sound, Coherent, Errors
<1> QED
  BY <1>2, <1>3, <1>4

\* A nonempty queue has an oldest command.
LEMMA OldestQueued ==
    ASSUME NEW S, S \subseteq Nat, S # {}
    PROVE  \E i \in S : \A j \in S : i <= j
<1>1. PICK i \in S : \A j \in S : <<j, i>> \notin OpToRel(<, Nat)
  BY NatLessThanWellFounded, WFMin
<1>2. ASSUME NEW j \in S PROVE i <= j
  <2>1. i \in Nat /\ j \in Nat
    OBVIOUS
  <2>2. ~(j < i)
    BY <1>1, <2>1 DEF OpToRel
  <2> HIDE <1>1
  <2> QED
    BY <2>1, <2>2, SMT
<1> QED
  BY <1>2

\* tick() out of silence: the probe is written with no command active.
LEMMA StartProbeSound ==
    ASSUME NEW e, Sound(e), e.phase = "Silence", e.attempts # RESYNC_ATTEMPTS
    PROVE  Sound(StartProbe(e))
<1> DEFINE f == StartProbe(e)
           flags == e.flags \ {"resync_intermediate"}
           attempts == e.attempts + 1
<1>1. /\ e \in EngineType /\ flags \in SUBSET Flags
      /\ attempts \in 0 .. RESYNC_ATTEMPTS
      /\ RESYNC_TIMEOUT_MS \in 0 .. RESYNC_TIMEOUT_MS
      /\ WRITE_BYTES \in 0 .. WRITE_BYTES /\ WRITE_BYTES > 0
      /\ "ProbeWriting" \in Phases
  BY EngineConstants DEF Sound, Good, EngineType, Phases, Quarantine
<1>2. f = [e EXCEPT !.rttl = RESYNC_TIMEOUT_MS, !.attempts = attempts, !.flags = flags,
                    !.framer = "empty", !.phase = "ProbeWriting", !.unsent = WRITE_BYTES]
  BY <1>1 DEF StartProbe, Write, EngineType
<1> HIDE DEF f, flags, attempts
<1>3. f \in EngineType
  BY <1>1, <1>2 DEF EngineType
<1>4. /\ f.active = e.active /\ f.queue = e.queue /\ f.next_id = e.next_id
      /\ f.completions = e.completions
      /\ f.unsent = WRITE_BYTES /\ f.phase = "ProbeWriting"
  BY <1>1, <1>2 DEF EngineType
<1>5. Good(f)
  BY <1>3, <1>4, GoodFrame DEF Sound
<1> QED
  BY <1>1, <1>4, <1>5 DEF Sound, Coherent, f

\* tick() when idle: the oldest queued command becomes active.
LEMMA StartCommandSound ==
    ASSUME NEW e, Sound(e), e.phase = "Idle", e.queue # {}
    PROVE  Sound(StartCommand(e))
<1> DEFINE next == CHOOSE i \in e.queue : \A j \in e.queue : i <= j
           f == StartCommand(e)
           queue == e.queue \ {next}
<1>1. /\ e \in EngineType
      /\ 0 \in 0 .. MAX_LINES /\ 0 \in 0 .. TRANSACTION_BYTES + 1
      /\ WRITE_BYTES \in 0 .. WRITE_BYTES /\ WRITE_BYTES > 0
      /\ "Writing" \in Phases /\ TRANSACTION_BYTES >= 0
  BY EngineConstants DEF Sound, Good, Phases
<1>2. next \in e.queue
  <2>1. e.queue \subseteq Nat
    BY <1>1 DEF EngineType, Ids
  <2> QED
    BY <2>1, OldestQueued
<1>3. f = [e EXCEPT !.active = next, !.queue = queue, !.lines = 0, !.received = 0,
                    !.phase = "Writing", !.unsent = WRITE_BYTES]
  BY <1>1 DEF StartCommand, Write, EngineType
<1>4. next \in Ids /\ next # None /\ queue \in SUBSET Ids
  BY <1>1, <1>2, WaitingIds DEF EngineType, Sound
<1> HIDE DEF f, next
<1>5. f \in EngineType
  <2>1. next \in Ids \cup {None}
    BY <1>4
  <2> HIDE DEF queue
  <2> QED
    BY <1>1, <1>3, <1>4, <2>1 DEF EngineType
<1>6. /\ f.active = next /\ f.queue = e.queue \ {next} /\ f.next_id = e.next_id
      /\ f.completions = e.completions /\ f.received = 0
      /\ f.unsent = WRITE_BYTES /\ f.phase = "Writing"
  BY <1>1, <1>3 DEF EngineType
<1>7. Waiting(f) = Waiting(e)
  <2>1. e.active = None
    BY DEF Sound, Coherent
  <2> QED
    BY <1>2, <1>4, <1>6, <2>1 DEF Waiting
<1>8. Accounted(f)
  BY <1>6, <1>7 DEF Sound, Good, Accounted
<1> QED
  BY <1>1, <1>4, <1>5, <1>6, <1>8 DEF Sound, Coherent, Good, f

\* A line in quarantine: no command is active, so only the phase, the write
\* and the flags move.
LEMMA RecordQuarantinedSound ==
    ASSUME NEW e, Sound(e), IsQuarantined(e), NEW line \in Lines
    PROVE  Sound(RecordQuarantined(e, line))
<1> DEFINE idle == [e EXCEPT !.phase = "Idle",
                             !.flags = @ \ {"late_finals", "resync_intermediate"}]
           seen == [e EXCEPT !.flags = @ \cup {"resync_intermediate"}]
<1>1. e \in EngineType /\ "Idle" \in Phases /\ e.active = None
  BY DEF Sound, Good, Phases, Coherent, IsQuarantined, Quarantine
<1>2. Sound(EnterSilence(e))
  BY <1>1, SilenceSound DEF Sound
<1>3. CASE e.phase = "ProbeReading"
  <2>1. Sound(idle)
    <3>1. e.flags \ {"late_finals", "resync_intermediate"} \in SUBSET Flags
      BY <1>1 DEF EngineType
    <3>2. idle \in EngineType
      BY <1>1, <3>1 DEF EngineType
    <3>3. /\ idle.active = e.active /\ idle.queue = e.queue /\ idle.next_id = e.next_id
          /\ idle.completions = e.completions
          /\ idle.unsent = e.unsent /\ idle.phase = "Idle"
      BY <1>1 DEF EngineType
    <3> HIDE DEF idle
    <3> QED
      BY <1>1, <1>3, <3>2, <3>3, GoodFrame DEF Sound, Coherent
  <2>2. Sound(seen)
    <3>1. e.flags \cup {"resync_intermediate"} \in SUBSET Flags
      BY <1>1 DEF EngineType, Flags
    <3>2. seen \in EngineType
      BY <1>1, <3>1 DEF EngineType
    <3>3. /\ seen.active = e.active /\ seen.queue = e.queue /\ seen.next_id = e.next_id
          /\ seen.completions = e.completions
          /\ seen.unsent = e.unsent /\ seen.phase = e.phase
      BY <1>1 DEF EngineType
    <3> HIDE DEF seen
    <3> QED
      BY <1>1, <3>2, <3>3, GoodFrame DEF Sound, Coherent
  <2> HIDE DEF idle, seen
  <2>3. RecordQuarantined(e, line) \in {idle, seen, EnterSilence(e), e}
    BY DEF RecordQuarantined, idle, seen
  <2> QED
    BY <1>2, <2>1, <2>2, <2>3
<1>4. CASE e.phase # "ProbeReading"
  <2>1. RecordQuarantined(e, line) \in {EnterSilence(e), e}
    BY <1>4 DEF RecordQuarantined
  <2> QED
    BY <1>2, <2>1
<1> QED
  BY <1>3, <1>4

\* A line for the active command: counted, or the command's final, or a
\* reason for quarantine.
LEMMA RecordActiveSound ==
    ASSUME NEW e, Sound(e), e.active # None, NEW line \in Lines
    PROVE  Sound(RecordActive(e, line))
<1> DEFINE c == Complete(e, {e.active}, "Ok")
           done == [c EXCEPT !.phase = "Idle"]
           more == [e EXCEPT !.lines = @ + 1]
<1>1. /\ e \in EngineType /\ "Idle" \in Phases
      /\ {"UnexpectedFinal", "TooManyLines"} \subseteq Errors
  BY DEF Sound, Good, Phases, Errors
<1>2. \A error \in Errors : Sound(EnterQuarantine(e, error))
  BY QuarantineSound DEF Sound
<1>3. CASE e.phase = "Reading"
  <2>1. Sound(done)
    <3>1. {e.active} \in SUBSET Waiting(e)
      BY DEF Waiting
    <3>2. /\ Good(c) /\ c.active = None /\ c.unsent = e.unsent
      <4>1. "Ok" \in {"Ok"} \cup Errors /\ e.active \in {e.active} /\ Good(e)
        BY DEF Sound
      <4> QED
        BY <3>1, <4>1, CompleteGood
    <3> HIDE DEF c
    <3>3. done \in EngineType
      BY <1>1, <3>2 DEF EngineType, Good
    <3>4. /\ done.active = c.active /\ done.queue = c.queue /\ done.next_id = c.next_id
          /\ done.completions = c.completions
          /\ done.unsent = e.unsent /\ done.phase = "Idle"
      BY <3>2 DEF EngineType, Good
    <3> HIDE DEF done
    <3> QED
      BY <1>3, <3>2, <3>3, <3>4, GoodFrame DEF Sound, Coherent
  <2>2. ASSUME e.lines < MAX_LINES PROVE Sound(more)
    <3>1. e.lines + 1 \in 0 .. MAX_LINES
      BY <1>1, <2>2, EngineConstants DEF EngineType
    <3>2. more \in EngineType
      BY <1>1, <3>1 DEF EngineType
    <3>3. /\ more.active = e.active /\ more.queue = e.queue /\ more.next_id = e.next_id
          /\ more.completions = e.completions /\ more.received = e.received
          /\ more.unsent = e.unsent /\ more.phase = e.phase
      BY <1>1 DEF EngineType
    <3> HIDE DEF more
    <3> QED
      BY <3>2, <3>3, GoodFrame DEF Sound, Coherent
  <2> HIDE DEF done, more
  <2>3. \/ RecordActive(e, line) \in {done, EnterQuarantine(e, "TooManyLines"), e}
        \/ RecordActive(e, line) = more /\ e.lines < MAX_LINES
    BY <1>3 DEF RecordActive, done, more
  <2> QED
    BY <1>1, <1>2, <2>1, <2>2, <2>3
<1>4. CASE e.phase # "Reading"
  <2>1. RecordActive(e, line) \in {EnterQuarantine(e, "UnexpectedFinal"), e}
    BY <1>4 DEF RecordActive
  <2> QED
    BY <1>1, <1>2, <2>1
<1> QED
  BY <1>3, <1>4

\* record() on any line.
LEMMA RecordSound ==
    ASSUME NEW e, Sound(e), NEW line \in Lines
    PROVE  Sound(Record(e, line))
<1>1. Sound(EnterQuarantine(e, "UnexpectedFinal"))
  BY QuarantineSound DEF Sound, Errors
<1> QED
  BY <1>1, RecordQuarantinedSound, RecordActiveSound DEF Record

\* The per-byte bookkeeping of feed().
LEMMA CountInputSound ==
    ASSUME NEW e, Sound(e)
    PROVE  Sound(CountInput(e))
<1> DEFINE q == IF IsQuarantined(e) THEN [e EXCEPT !.quiet = 0] ELSE e
           c == IF q.active # None THEN [q EXCEPT !.received = @ + 1] ELSE q
<1>1. e \in EngineType /\ 0 \in 0 .. SILENCE_MS
  BY EngineConstants DEF Sound, Good
<1>2. /\ q \in EngineType
      /\ q.active = e.active /\ q.queue = e.queue /\ q.next_id = e.next_id
      /\ q.completions = e.completions /\ q.received = e.received
      /\ q.unsent = e.unsent /\ q.phase = e.phase
  BY <1>1 DEF EngineType
<1>3. CountInput(e) = IF c.active # None /\ c.received > TRANSACTION_BYTES
                      THEN EnterQuarantine(c, "TransactionTooLarge") ELSE c
  BY DEF CountInput
<1> HIDE DEF q
<1>4. Sound(q)
  BY <1>2, GoodFrame DEF Sound, Coherent
<1>5. CASE q.active = None
  <2>1. c = q
    BY <1>5
  <2> HIDE DEF c
  <2> QED
    BY <1>4, <1>3, <1>5, <2>1
<1>6. CASE q.active # None
  <2>1. /\ q \in EngineType
        /\ q.received + 1 \in 0 .. TRANSACTION_BYTES + 1
    BY <1>4, <1>6, EngineConstants DEF Sound, Good, EngineType
  <2>2. c = [q EXCEPT !.received = q.received + 1]
    BY <1>6
  <2> HIDE DEF c
  <2>3. c \in EngineType
    BY <2>1, <2>2 DEF EngineType
  <2>4. /\ c.active = q.active /\ c.queue = q.queue /\ c.next_id = q.next_id
        /\ c.completions = q.completions /\ c.unsent = q.unsent /\ c.phase = q.phase
        /\ c.received \in Nat
    BY <2>1, <2>2, EngineConstants DEF EngineType
  <2>5. Good(c) /\ Coherent(c)
    BY <1>4, <2>3, <2>4, GoodFrame DEF Sound, Coherent
  <2>6. Sound(EnterQuarantine(c, "TransactionTooLarge"))
    BY <2>5, QuarantineSound DEF Errors
  <2> QED
    BY <1>3, <1>4, <2>4, <2>5, <2>6, EngineConstants DEF Sound
<1> QED
  BY <1>5, <1>6

\* Changing the framer alone keeps the engine sound.
LEMMA FramerSound ==
    ASSUME NEW e, Sound(e), NEW v \in {"empty", "part", "dropping"}
    PROVE  Sound([e EXCEPT !.framer = v])
<1> DEFINE f == [e EXCEPT !.framer = v]
<1>1. e \in EngineType
  BY DEF Sound, Good
<1>2. /\ f \in EngineType
      /\ f.active = e.active /\ f.queue = e.queue /\ f.next_id = e.next_id
      /\ f.completions = e.completions /\ f.received = e.received
      /\ f.unsent = e.unsent /\ f.phase = e.phase
  BY <1>1 DEF EngineType
<1> HIDE DEF f
<1>3. Sound(f)
  BY <1>2, GoodFrame DEF Sound, Coherent
<1> QED
  BY <1>3 DEF f

\* The framer's two pieces.
LEMMA PushSound ==
    ASSUME NEW e, Sound(e)
    PROVE  /\ \A large \in BOOLEAN : Sound(PushFirst(e, large))
           /\ \A line \in Lines : Sound(PushLast(e, line))
<1> DEFINE part == [e EXCEPT !.framer = "part"]
           drop == [e EXCEPT !.framer = "dropping"]
           clear == [e EXCEPT !.framer = "empty"]
<1>1. Sound(part) /\ Sound(drop) /\ Sound(clear)
  BY FramerSound
<1>2. Sound(EnterQuarantine(drop, "LineTooLarge"))
  BY <1>1, QuarantineSound DEF Sound, Errors
<1>3. \A line \in Lines : Sound(Record(clear, line))
  BY <1>1, RecordSound
<1>4. \A large \in BOOLEAN :
         PushFirst(e, large) \in {e, EnterQuarantine(drop, "LineTooLarge"), part}
  BY DEF PushFirst
<1>5. \A line \in Lines :
         PushLast(e, line) \in {clear, Record(clear, line), Record(clear, "OTHER")}
  BY DEF PushLast
<1>6. "OTHER" \in Lines
  BY DEF Lines
<1> HIDE DEF part, drop, clear
<1> QED
  BY <1>1, <1>2, <1>3, <1>4, <1>5, <1>6

\* The initial engine is sound.
LEMMA InitSound == Init => Sound(eng)
<1> SUFFICES ASSUME Init PROVE Sound(eng)
  OBVIOUS
<1>1. eng \in EngineType
  <2>1. /\ 0 \in 0 .. MaxId /\ 0 \in 0 .. WRITE_BYTES /\ 0 \in 0 .. SILENCE_MS
        /\ 0 \in 0 .. RESYNC_TIMEOUT_MS /\ 0 \in 0 .. RESYNC_ATTEMPTS
        /\ 0 \in 0 .. MAX_LINES /\ 0 \in 0 .. TRANSACTION_BYTES + 1
    BY EngineConstants
  <2>2. /\ [i \in Ids |-> 0] \in [Ids -> Nat]
        /\ [i \in Ids |-> "none"] \in [Ids -> {"none", "Ok"} \cup Errors]
    OBVIOUS
  <2>3. {} \in SUBSET Ids /\ {} \in SUBSET Flags /\ None \in Ids \cup {None} /\ "Idle" \in Phases
    BY DEF Phases
  <2> QED
    BY <2>1, <2>2, <2>3 DEF Init, EngineType
<1>2. Accounted(eng)
  BY DEF Init, Accounted, Waiting, None, Ids
<1> QED
  BY <1>1, <1>2 DEF Sound, Good, Coherent, Init, None

\* enqueue() gives out the next id as a queued command.
LEMMA EnqueueSound ==
    ASSUME Sound(eng), NEW t \in Timeouts, NEW x \in BOOLEAN, Enqueue(t, x)
    PROVE  Sound(eng)'
<1> DEFINE id == eng.next_id + 1
           queue == eng.queue \cup {id}
           ttl == [eng.ttl EXCEPT ![id] = t]
           extra == IF x THEN eng.extra \cup {id} ELSE eng.extra
<1>1. eng \in EngineType /\ id \in Ids /\ id \in 0 .. MaxId
  <2>1. eng \in EngineType /\ eng.next_id \in 0 .. MaxId /\ eng.next_id < MaxId
    BY DEF Sound, Good, EngineType, Enqueue
  <2> QED
    BY <2>1, EngineConstants DEF Ids
<1>2. /\ queue \in SUBSET Ids /\ ttl \in [Ids -> Nat] /\ extra \in SUBSET Ids
  BY <1>1, EngineConstants DEF EngineType
<1>3. eng' = [eng EXCEPT !.next_id = id, !.queue = queue, !.ttl = ttl, !.extra = extra]
  BY <1>1 DEF Enqueue, EngineType
<1>4. id \notin Waiting(eng) /\ id # None /\ eng.completions[id] = 0
  BY <1>1 DEF Sound, Good, Accounted, Ids, None, EngineType
<1> HIDE DEF queue, ttl, extra
<1>5. eng' \in EngineType
  <2> HIDE DEF id
  <2> QED
    BY <1>1, <1>2, <1>3 DEF EngineType
<1>6. /\ eng'.active = eng.active /\ eng'.queue = queue /\ eng'.next_id = id
      /\ eng'.completions = eng.completions /\ eng'.received = eng.received
      /\ eng'.unsent = eng.unsent /\ eng'.phase = eng.phase
  BY <1>1, <1>3 DEF EngineType
<1>7. Waiting(eng)' = Waiting(eng) \cup {id}
  BY <1>6 DEF Waiting, queue
<1>8. Accounted(eng)'
  <2>1. eng.active \notin queue
    BY <1>4 DEF Sound, Good, Accounted, queue, Waiting
  <2>2. ASSUME NEW i \in Ids
        PROVE  /\ eng'.completions[i] =
                     IF i <= id /\ i \notin Waiting(eng) \cup {id} THEN 1 ELSE 0
               /\ i \in Waiting(eng) \cup {id} => i <= id
    BY <1>1, <1>4, <1>6 DEF Sound, Good, Accounted, Ids, EngineType
  <2> QED
    BY <1>6, <1>7, <2>1, <2>2 DEF Accounted
<1> QED
  BY <1>5, <1>6, <1>8 DEF Sound, Good, Coherent, Enqueue, Running

\* tick(): a probe, a failure, a command, or nothing.
LEMMA TickHandlerSound ==
    ASSUME NEW e, Sound(e)
    PROVE  Sound(TickHandler(e))
<1>1. Sound(Fail(e, "ResyncFailed"))
  BY FailSound DEF Sound, Errors
<1>2. \/ TickHandler(e) \in {Fail(e, "ResyncFailed"), e}
      \/ /\ TickHandler(e) = StartProbe(e)
         /\ e.phase = "Silence" /\ e.attempts # RESYNC_ATTEMPTS
      \/ /\ TickHandler(e) = StartCommand(e)
         /\ e.phase = "Idle" /\ e.queue # {}
  BY DEF TickHandler
<1> QED
  BY <1>1, <1>2, StartProbeSound, StartCommandSound

\* accept_written(): progress, the end of a write, or a failure.
LEMMA WrittenHandlerSound ==
    ASSUME NEW e, Sound(e), e.unsent > 0, NEW bytes \in 0 .. WRITE_BYTES
    PROVE  Sound(WrittenHandler(e, bytes))
<1>1. Sound(Fail(e, "InvalidProgress"))
  BY FailSound DEF Sound, Errors
<1>2. /\ e \in EngineType /\ e.phase \in {"Writing", "ProbeWriting"}
      /\ e.unsent \in 0 .. WRITE_BYTES /\ bytes \in Nat /\ WRITE_BYTES \in Nat
  BY EngineConstants DEF Sound, Good, Coherent, EngineType
<1>3. CASE bytes > 0 /\ bytes < e.unsent
  <2> DEFINE f == [e EXCEPT !.unsent = e.unsent - bytes]
  <2>1. /\ e.unsent - bytes \in 0 .. WRITE_BYTES /\ e.unsent - bytes > 0
        /\ ~(bytes = 0 \/ bytes > e.unsent)
    BY <1>2, <1>3
  <2>2. /\ f \in EngineType /\ f.unsent > 0
        /\ f.active = e.active /\ f.queue = e.queue /\ f.next_id = e.next_id
        /\ f.completions = e.completions /\ f.received = e.received /\ f.phase = e.phase
    BY <1>2, <2>1 DEF EngineType
  <2>3. WrittenHandler(e, bytes) = f
    BY <1>3, <2>1 DEF WrittenHandler
  <2> HIDE DEF f
  <2> QED
    BY <1>2, <2>2, <2>3, GoodFrame DEF Sound, Coherent
<1>4. CASE bytes = e.unsent
  <2> DEFINE p == IF e.phase = "Writing" THEN "Reading" ELSE "ProbeReading"
             f == [e EXCEPT !.unsent = 0, !.phase = p]
  <2>1. /\ 0 \in 0 .. WRITE_BYTES /\ p \in Phases
        /\ ~(bytes = 0 \/ bytes > e.unsent) /\ ~(bytes > 0 /\ bytes < e.unsent)
    BY <1>2, <1>4 DEF Phases, Quarantine
  <2>2. WrittenHandler(e, bytes) = f
    BY <2>1 DEF WrittenHandler
  <2>3. p = "Reading" <=> e.phase = "Writing"
    OBVIOUS
  <2>4. p \in {"Reading", "ProbeReading"}
    OBVIOUS
  <2> HIDE DEF p
  <2>5. /\ f \in EngineType /\ f.unsent = 0
        /\ f.active = e.active /\ f.queue = e.queue /\ f.next_id = e.next_id
        /\ f.completions = e.completions /\ f.received = e.received /\ f.phase = p
    BY <1>2, <2>1 DEF EngineType
  <2> HIDE DEF f
  <2> QED
    BY <1>2, <2>2, <2>3, <2>4, <2>5, GoodFrame DEF Sound, Coherent
<1>5. CASE bytes = 0 \/ bytes > e.unsent
  <2>1. WrittenHandler(e, bytes) = Fail(e, "InvalidProgress")
    <3>1. ~(bytes > 0 /\ bytes < e.unsent)
      BY <1>2, <1>5
    <3> QED
      BY <1>5, <3>1 DEF WrittenHandler
  <2> QED
    BY <1>1, <2>1
<1> QED
  BY <1>2, <1>3, <1>4, <1>5

\* With the active command in time, expire() leaves the write alone or fails.
LEMMA ExpireKeepsWrite ==
    ASSUME NEW e, Sound(e), ~(e.active # None /\ e.ttl[e.active] = 0)
    PROVE  Expire(e).phase = "Failed" \/ Expire(e).unsent = e.unsent
<1> DEFINE late == {i \in e.queue : e.ttl[i] = 0}
<1>1. Expire(e) \in {Fail(e, "ResyncFailed"), Complete(e, late, "Timeout")}
  BY DEF Expire
<1>2. Fail(e, "ResyncFailed").phase = "Failed"
  BY FailSound DEF Sound, Errors
<1>3. Complete(e, late, "Timeout").unsent = e.unsent
  <2>1. late \in SUBSET Waiting(e)
    BY DEF Waiting
  <2> QED
    BY <2>1, CompleteGood DEF Sound, Errors
<1> QED
  BY <1>1, <1>2, <1>3

\* Every handler of the engine, run to its end, keeps the engine sound.
LEMMA NextSound ==
    ASSUME Sound(eng), [Next]_eng
    PROVE  Sound(eng)'
<1> USE DEF Continue
<1>1. Sound(Expired)
  BY ExpireSound DEF Expired
<1>2. ASSUME NEW t \in Timeouts, NEW x \in BOOLEAN, Enqueue(t, x)
      PROVE  Sound(eng)'
  BY <1>2, EnqueueSound
<1>3. CASE Tick
  <2>1. Sound(TickHandler(Expired))
    BY <1>1, TickHandlerSound
  <2>2. eng' \in {Expired, TickHandler(Expired)}
    BY <1>3 DEF Tick
  <2> QED
    BY <1>1, <2>1, <2>2
<1>4. ASSUME NEW n \in 0 .. WRITE_BYTES, AcceptWritten(n)
      PROVE  Sound(eng)'
  <2>1. CASE eng' = Expired
    BY <1>1, <2>1
  <2>2. CASE eng' # Expired
    <3>1. /\ eng.unsent > 0 /\ ~(eng.active # None /\ eng.ttl[eng.active] = 0)
          /\ Expired.phase # "Failed" /\ eng' = WrittenHandler(Expired, n)
      BY <1>4, <2>2 DEF AcceptWritten, Expired
    <3>2. Expired.unsent = eng.unsent
      BY <3>1, ExpireKeepsWrite DEF Expired
    <3> QED
      BY <1>1, <3>1, <3>2, WrittenHandlerSound
  <2> QED
    BY <2>1, <2>2
<1>5. CASE AcceptStale
  <2>1. Sound(Fail(Expired, "StaleProgress"))
    BY <1>1, FailSound DEF Sound, Errors
  <2>2. eng' \in {Expired, Fail(Expired, "StaleProgress")}
    BY <1>5 DEF AcceptStale
  <2> QED
    BY <1>1, <2>1, <2>2
<1>6. ASSUME NEW large \in BOOLEAN, FeedFirst(large)
      PROVE  Sound(eng)'
  <2>1. Sound(PushFirst(CountInput(Expired), large))
    BY <1>1, CountInputSound, PushSound
  <2>2. eng' \in {Expired, PushFirst(CountInput(Expired), large)}
    BY <1>6 DEF FeedFirst
  <2> QED
    BY <1>1, <2>1, <2>2
<1>7. ASSUME NEW line \in Lines, FeedLast(line)
      PROVE  Sound(eng)'
  <2>1. Sound(PushLast(CountInput(Expired), line))
    BY <1>1, CountInputSound, PushSound
  <2>2. eng' \in {Expired, PushLast(CountInput(Expired), line)}
    BY <1>7 DEF FeedLast
  <2> QED
    BY <1>1, <2>1, <2>2
<1>8. CASE ClockRegression
  BY <1>8, FailSound DEF ClockRegression, Sound, Errors
<1>9. CASE Elapse
  <2> DEFINE ttl == [i \in Ids |-> IF eng.ttl[i] = 0 THEN 0 ELSE eng.ttl[i] - 1]
             quiet == IF eng.quiet < SILENCE_MS THEN eng.quiet + 1 ELSE eng.quiet
             rttl == IF eng.rttl = 0 THEN 0 ELSE eng.rttl - 1
  <2>1. eng \in EngineType
    BY DEF Sound, Good
  <2>2. /\ ttl \in [Ids -> Nat] /\ quiet \in 0 .. SILENCE_MS
        /\ rttl \in 0 .. RESYNC_TIMEOUT_MS
    BY <2>1, EngineConstants DEF EngineType
  <2>3. eng' = [eng EXCEPT !.ttl = ttl, !.quiet = quiet, !.rttl = rttl]
    BY <1>9 DEF Elapse
  <2> HIDE DEF ttl, quiet, rttl
  <2>4. /\ eng' \in EngineType
        /\ eng'.active = eng.active /\ eng'.queue = eng.queue /\ eng'.next_id = eng.next_id
        /\ eng'.completions = eng.completions /\ eng'.received = eng.received
        /\ eng'.unsent = eng.unsent /\ eng'.phase = eng.phase
    BY <2>1, <2>2, <2>3 DEF EngineType
  <2> QED
    BY <2>4, GoodFrame DEF Sound, Coherent
<1>10. CASE UNCHANGED eng
  BY <1>10 DEF Sound, Good, Accounted, Waiting, Coherent
<1> QED
  BY <1>2, <1>3, <1>4, <1>5, <1>6, <1>7, <1>8, <1>9, <1>10 DEF Next

\* The engine record keeps its type (counters within their limits), every
\* command handed to enqueue() is completed exactly once, and phase, active
\* command and outstanding write agree, in every behaviour of the engine.
THEOREM EngineSafe == Spec => [](TypeOK /\ CompletedOnce /\ WriteCoherent)
<1>1. Sound(eng) => TypeOK /\ CompletedOnce /\ WriteCoherent
  BY DEF Sound, Good, TypeOK, CompletedOnce, WriteCoherent
<1>2. Sound(eng) /\ [Next]_eng => Sound(eng)'
  BY NextSound
<1> QED
  BY InitSound, <1>1, <1>2, PTL DEF Spec

\* Every id enqueue() hands out is answered by exactly one Completed event.
THEOREM EngineCompletesOnce == Spec => []CompletedOnce
BY EngineSafe, PTL

\* Phase, active command and outstanding write token agree.
THEOREM EngineWriteCoherent == Spec => []WriteCoherent
BY EngineSafe, PTL

\* The engine record keeps its type.
THEOREM EngineTypeOK == Spec => []TypeOK
BY EngineSafe, PTL

-----------------------------------------------------------------------------
(* The engine implements RequestService.                                   *)

\* What a private call, or several in a row, may do to the requests.
Serves(e, f) ==
    /\ f.next_id = e.next_id
    /\ f.queue \subseteq e.queue
    /\ f.active \in {e.active, None}
    /\ \A i \in Ids : IF i \in Waiting(e) \ Waiting(f)
                      THEN f.result[i] \in Errors \/ (f.result[i] = "Ok" /\ i = e.active)
                      ELSE f.result[i] = e.result[i]

\* Calls that leave the requests alone.
LEMMA FrameServes ==
    ASSUME NEW e, NEW f, f.next_id = e.next_id, f.queue = e.queue,
           f.active = e.active, f.result = e.result
    PROVE  Serves(e, f)
BY DEF Serves, Waiting

\* A handler makes its calls one after the other.
LEMMA ServesCompose ==
    ASSUME NEW e, NEW f, NEW g, Serves(e, f), Serves(f, g)
    PROVE  Serves(e, g)
<1>1. Waiting(g) \subseteq Waiting(f) /\ Waiting(f) \subseteq Waiting(e)
  BY DEF Serves, Waiting
<1>2. None \notin Ids
  BY EngineConstants DEF None, Ids
<1>3. ASSUME NEW i \in Ids
      PROVE  IF i \in Waiting(e) \ Waiting(g)
             THEN g.result[i] \in Errors \/ (g.result[i] = "Ok" /\ i = e.active)
             ELSE g.result[i] = e.result[i]
  <2>1. CASE i \in Waiting(f)
    BY <1>1, <1>2, <2>1 DEF Serves
  <2>2. CASE i \notin Waiting(f)
    BY <1>1, <2>2 DEF Serves
  <2> QED
    BY <2>1, <2>2
<1> QED
  BY <1>3 DEF Serves

\* complete() answers what it is given, Ok only the active command.
LEMMA CompleteServes ==
    ASSUME NEW e, Good(e), NEW ids \in SUBSET Waiting(e), NEW res \in {"Ok"} \cup Errors,
           res = "Ok" => ids \subseteq {e.active}
    PROVE  Serves(e, Complete(e, ids, res))
<1> DEFINE c == Complete(e, ids, res)
<1>1. /\ c.active = IF e.active \in ids THEN None ELSE e.active
      /\ c.queue = e.queue \ ids
      /\ c.next_id = e.next_id
      /\ c.result = [i \in Ids |-> IF i \in ids THEN res ELSE e.result[i]]
  BY DEF Complete, Good, EngineType
<1> HIDE DEF c
<1>2. Waiting(c) = Waiting(e) \ ids
  BY <1>1 DEF Waiting, None
<1>3. Serves(e, c)
  BY <1>1, <1>2 DEF Serves
<1> QED
  BY <1>3 DEF c

\* clear_write() and the silence window touch no request.
LEMMA SilenceServes ==
    ASSUME NEW e, Good(e)
    PROVE  Serves(e, ClearWrite(e)) /\ Serves(e, EnterSilence(e))
<1>1. e \in EngineType
  BY DEF Good
<1>2. /\ ClearWrite(e).next_id = e.next_id /\ ClearWrite(e).queue = e.queue
      /\ ClearWrite(e).active = e.active /\ ClearWrite(e).result = e.result
  BY <1>1 DEF ClearWrite, EngineType
<1>3. /\ EnterSilence(e).next_id = e.next_id /\ EnterSilence(e).queue = e.queue
      /\ EnterSilence(e).active = e.active /\ EnterSilence(e).result = e.result
  BY <1>1 DEF EnterSilence, ClearWrite, EngineType
<1> QED
  BY <1>2, <1>3, FrameServes

\* fail() answers all that waits with the failure.
LEMMA FailServes ==
    ASSUME NEW e, Good(e), NEW error \in Errors
    PROVE  Serves(e, Fail(e, error))
<1> DEFINE a == Complete(e, Waiting(e), error)
           c == ClearWrite(a)
           f == Fail(e, error)
<1>1. Good(a) /\ Serves(e, a)
  BY CompleteGood, CompleteServes DEF Errors
<1> HIDE DEF a
<1>2. Good(c) /\ Serves(a, c)
  BY <1>1, SilenceServes, ClearWriteGood
<1>3. f = [c EXCEPT !.phase = "Failed", !.framer = "empty"]
  BY DEF Fail, a
<1> HIDE DEF c, f
<1>4. /\ f.next_id = c.next_id /\ f.queue = c.queue
      /\ f.active = c.active /\ f.result = c.result
  BY <1>2, <1>3 DEF Good, EngineType
<1>5. Serves(e, f)
  BY <1>1, <1>2, <1>4, FrameServes, ServesCompose
<1> QED
  BY <1>5 DEF f

\* quarantine() answers the active command with the failure.
LEMMA QuarantineServes ==
    ASSUME NEW e, Good(e), NEW error \in Errors
    PROVE  Serves(e, EnterQuarantine(e, error))
<1> DEFINE a == Complete(e, {e.active} \ {None}, error)
           c == EnterSilence(a)
           f == EnterQuarantine(e, error)
<1>1. Good(a) /\ Serves(e, a) /\ a.active = None
  <2>1. {e.active} \ {None} \in SUBSET Waiting(e) /\ error \in {"Ok"} \cup Errors
    BY DEF Waiting
  <2>2. /\ Good(a)
        /\ a.active = IF e.active \in {e.active} \ {None} THEN None ELSE e.active
    BY <2>1, CompleteGood
  <2>3. Serves(e, a)
    BY <2>1, CompleteServes DEF Errors
  <2> HIDE DEF a
  <2> QED
    BY <2>2, <2>3
<1> HIDE DEF a
<1>2. Good(c) /\ Serves(a, c)
  BY <1>1, SilenceServes, SilenceSound DEF Sound
<1>3. /\ f.next_id = c.next_id /\ f.queue = c.queue
      /\ f.active = c.active /\ f.result = c.result
  BY <1>2 DEF EnterQuarantine, a, Good, EngineType
<1> HIDE DEF c, f
<1>4. Serves(e, f)
  BY <1>1, <1>2, <1>3, FrameServes, ServesCompose
<1> QED
  BY <1>4 DEF f

\* expire() answers with Timeout or ResyncFailed; it leaves the engine idle only
\* if no command was active.
LEMMA ExpireServes ==
    ASSUME NEW e, Sound(e)
    PROVE  /\ Serves(e, Expire(e))
           /\ Expire(e).phase = "Idle" => e.active = None
<1> DEFINE a == IF e.active # None /\ e.ttl[e.active] = 0
                THEN EnterQuarantine(e, "Timeout") ELSE e
           late == {i \in a.queue : a.ttl[i] = 0}
<1>1. Good(e) /\ {"Timeout", "ResyncFailed"} \subseteq Errors
  BY DEF Sound, Errors
<1>2. Serves(e, e)
  BY FrameServes
<1>3. /\ Good(a) /\ Serves(e, a)
      /\ a.phase = "Silence" \/ a = e
  BY <1>1, <1>2, QuarantineServes, QuarantineSound DEF Sound
<1>4. Expire(e) = IF a.phase \in {"ProbeWriting", "ProbeReading"} /\ a.rttl = 0
                  THEN Fail(a, "ResyncFailed") ELSE Complete(a, late, "Timeout")
  BY DEF Expire
<1> HIDE DEF a
<1>5. /\ Serves(a, Fail(a, "ResyncFailed")) /\ Fail(a, "ResyncFailed").phase = "Failed"
  BY <1>1, <1>3, FailServes, FailSound
<1>6. /\ Serves(a, Complete(a, late, "Timeout"))
      /\ Complete(a, late, "Timeout").phase = a.phase
  <2>1. late \in SUBSET Waiting(a) /\ "Timeout" \in {"Ok"} \cup Errors
    BY <1>1 DEF Waiting
  <2> HIDE DEF late
  <2> QED
    BY <1>3, <2>1, CompleteServes, CompleteGood
<1>7. Serves(a, Expire(e)) /\ Expire(e).phase \in {"Failed", a.phase}
  BY <1>4, <1>5, <1>6
<1>8. Serves(e, Expire(e))
  BY <1>3, <1>7, ServesCompose
<1>9. e.phase = "Idle" => e.active = None
  BY DEF Sound, Coherent
<1> QED
  BY <1>3, <1>7, <1>8, <1>9

\* Starting a probe answers nothing.
LEMMA StartProbeServes ==
    ASSUME NEW e, Sound(e)
    PROVE  Serves(e, StartProbe(e))
<1>1. /\ StartProbe(e).next_id = e.next_id /\ StartProbe(e).queue = e.queue
      /\ StartProbe(e).active = e.active /\ StartProbe(e).result = e.result
  BY DEF StartProbe, Write, Sound, Good, EngineType
<1> QED
  BY <1>1, FrameServes

\* record(): a line answers the active command, or fails it, or nothing.
LEMMA RecordServes ==
    ASSUME NEW e, Sound(e), NEW line \in Lines
    PROVE  Serves(e, Record(e, line))
<1>1. /\ Good(e) /\ e \in EngineType
      /\ {"UnexpectedFinal", "TooManyLines"} \subseteq Errors
  BY DEF Sound, Good, Errors
<1>2. \A error \in Errors : Serves(e, EnterQuarantine(e, error))
  BY <1>1, QuarantineServes
<1>3. Serves(e, e) /\ Serves(e, EnterSilence(e))
  BY <1>1, FrameServes, SilenceServes
<1>4. CASE IsQuarantined(e)
  <2> DEFINE idle == [e EXCEPT !.phase = "Idle",
                               !.flags = @ \ {"late_finals", "resync_intermediate"}]
             seen == [e EXCEPT !.flags = @ \cup {"resync_intermediate"}]
  <2>1. /\ idle.next_id = e.next_id /\ idle.queue = e.queue
        /\ idle.active = e.active /\ idle.result = e.result
        /\ seen.next_id = e.next_id /\ seen.queue = e.queue
        /\ seen.active = e.active /\ seen.result = e.result
    BY <1>1 DEF EngineType
  <2>2. RecordQuarantined(e, line) \in {idle, seen, EnterSilence(e), e}
    BY DEF RecordQuarantined
  <2> HIDE DEF idle, seen
  <2>3. Serves(e, idle) /\ Serves(e, seen)
    BY <2>1, FrameServes
  <2>4. Record(e, line) = RecordQuarantined(e, line)
    BY <1>4 DEF Record
  <2> QED
    BY <1>3, <2>2, <2>3, <2>4
<1>5. CASE ~IsQuarantined(e) /\ e.active # None
  <2> DEFINE c == Complete(e, {e.active}, "Ok")
             done == [c EXCEPT !.phase = "Idle"]
             more == [e EXCEPT !.lines = @ + 1]
  <2>1. Good(c) /\ Serves(e, c)
    <3>1. {e.active} \in SUBSET Waiting(e) /\ "Ok" \in {"Ok"} \cup Errors
      BY <1>5 DEF Waiting
    <3> QED
      BY <1>1, <3>1, CompleteGood, CompleteServes
  <2>2. RecordActive(e, line) \in {done, more, e, EnterQuarantine(e, "TooManyLines"),
                                   EnterQuarantine(e, "UnexpectedFinal")}
    BY DEF RecordActive
  <2> HIDE DEF c
  <2>3. /\ done.next_id = c.next_id /\ done.queue = c.queue
        /\ done.active = c.active /\ done.result = c.result
        /\ more.next_id = e.next_id /\ more.queue = e.queue
        /\ more.active = e.active /\ more.result = e.result
    BY <1>1, <2>1 DEF Good, EngineType
  <2> HIDE DEF done, more
  <2>4. Serves(e, done) /\ Serves(e, more)
    BY <2>1, <2>3, FrameServes, ServesCompose
  <2>5. Record(e, line) = RecordActive(e, line)
    BY <1>5 DEF Record
  <2> QED
    BY <1>1, <1>2, <1>3, <2>2, <2>4, <2>5
<1>6. CASE ~IsQuarantined(e) /\ e.active = None
  <2>1. Record(e, line) \in {e, EnterQuarantine(e, "UnexpectedFinal")}
    BY <1>6 DEF Record
  <2> QED
    BY <1>1, <1>2, <1>3, <2>1
<1> QED
  BY <1>4, <1>5, <1>6

\* The per-byte bookkeeping of feed() may only fail the active command.
LEMMA CountInputServes ==
    ASSUME NEW e, Sound(e)
    PROVE  Serves(e, CountInput(e))
<1> DEFINE q == IF IsQuarantined(e) THEN [e EXCEPT !.quiet = 0] ELSE e
           c == IF q.active # None THEN [q EXCEPT !.received = @ + 1] ELSE q
<1>1. e \in EngineType /\ 0 \in 0 .. SILENCE_MS
  BY EngineConstants DEF Sound, Good
<1>2. /\ q \in EngineType
      /\ q.active = e.active /\ q.queue = e.queue /\ q.next_id = e.next_id
      /\ q.completions = e.completions /\ q.received = e.received /\ q.result = e.result
  BY <1>1 DEF EngineType
<1>3. CountInput(e) = IF c.active # None /\ c.received > TRANSACTION_BYTES
                      THEN EnterQuarantine(c, "TransactionTooLarge") ELSE c
  BY DEF CountInput
<1> HIDE DEF q
<1>4. CASE q.active = None
  <2>1. CountInput(e) = q
    BY <1>3, <1>4
  <2> QED
    BY <1>2, <2>1, FrameServes
<1>5. CASE q.active # None
  <2>1. q.received + 1 \in 0 .. TRANSACTION_BYTES + 1
    BY <1>2, <1>5, EngineConstants DEF Sound, EngineType
  <2>2. c = [q EXCEPT !.received = q.received + 1]
    BY <1>5
  <2> HIDE DEF c
  <2>3. c \in EngineType
    BY <1>2, <2>1, <2>2 DEF EngineType
  <2>4. /\ c.active = e.active /\ c.queue = e.queue /\ c.next_id = e.next_id
        /\ c.completions = e.completions /\ c.result = e.result
    BY <1>2, <2>2 DEF EngineType
  <2>5. Good(c) /\ Serves(e, c)
    BY <2>3, <2>4, GoodFrame, FrameServes DEF Sound
  <2>6. Serves(c, EnterQuarantine(c, "TransactionTooLarge"))
    BY <2>5, QuarantineServes DEF Errors
  <2> QED
    BY <1>3, <2>5, <2>6, ServesCompose
<1> QED
  BY <1>4, <1>5

\* The framer's two pieces.
LEMMA PushServes ==
    ASSUME NEW e, Sound(e)
    PROVE  /\ \A large \in BOOLEAN : Serves(e, PushFirst(e, large))
           /\ \A line \in Lines : Serves(e, PushLast(e, line))
<1> DEFINE part == [e EXCEPT !.framer = "part"]
           drop == [e EXCEPT !.framer = "dropping"]
           clear == [e EXCEPT !.framer = "empty"]
<1>1. Sound(part) /\ Sound(drop) /\ Sound(clear)
  BY FramerSound
<1>2. /\ part.next_id = e.next_id /\ part.queue = e.queue
      /\ part.active = e.active /\ part.result = e.result
      /\ drop.next_id = e.next_id /\ drop.queue = e.queue
      /\ drop.active = e.active /\ drop.result = e.result
      /\ clear.next_id = e.next_id /\ clear.queue = e.queue
      /\ clear.active = e.active /\ clear.result = e.result
  BY DEF Sound, Good, EngineType
<1>3. \A large \in BOOLEAN :
         PushFirst(e, large) \in {e, EnterQuarantine(drop, "LineTooLarge"), part}
  BY DEF PushFirst
<1>4. \A line \in Lines :
         PushLast(e, line) \in {clear, Record(clear, line), Record(clear, "OTHER")}
  BY DEF PushLast
<1> HIDE DEF part, drop, clear
<1>5. Serves(e, e) /\ Serves(e, part) /\ Serves(e, drop) /\ Serves(e, clear)
  BY <1>2, FrameServes
<1>6. Serves(drop, EnterQuarantine(drop, "LineTooLarge"))
  BY <1>1, QuarantineServes DEF Sound, Errors
<1>7. \A line \in Lines : Serves(clear, Record(clear, line))
  BY <1>1, RecordServes
<1>8. "OTHER" \in Lines
  BY DEF Lines
<1>9. /\ Serves(e, EnterQuarantine(drop, "LineTooLarge"))
      /\ \A line \in Lines : Serves(e, Record(clear, line))
  BY <1>5, <1>6, <1>7, ServesCompose
<1> QED
  BY <1>3, <1>4, <1>5, <1>8, <1>9

\* accept_written() answers nothing unless it fails.
LEMMA WrittenServes ==
    ASSUME NEW e, Sound(e), NEW bytes \in 0 .. WRITE_BYTES
    PROVE  Serves(e, WrittenHandler(e, bytes))
<1> DEFINE less == [e EXCEPT !.unsent = @ - bytes]
           whole == [e EXCEPT !.unsent = 0,
                              !.phase = IF @ = "Writing" THEN "Reading" ELSE "ProbeReading"]
<1>1. /\ less.next_id = e.next_id /\ less.queue = e.queue
      /\ less.active = e.active /\ less.result = e.result
      /\ whole.next_id = e.next_id /\ whole.queue = e.queue
      /\ whole.active = e.active /\ whole.result = e.result
  BY DEF Sound, Good, EngineType
<1>2. WrittenHandler(e, bytes) \in {Fail(e, "InvalidProgress"), less, whole}
  BY DEF WrittenHandler
<1> HIDE DEF less, whole
<1>3. Serves(e, Fail(e, "InvalidProgress"))
  BY FailServes DEF Sound, Errors
<1> QED
  BY <1>1, <1>2, <1>3, FrameServes

\* A handler that only serves is a turn of the service.
LEMMA ServesTurns ==
    ASSUME Sound(eng), Serves(eng, eng')
    PROVE  Requests!Turn(Waiting(eng) \ Waiting(eng)')
<1> DEFINE done == Waiting(eng) \ Waiting(eng)'
<1>1. eng.active \notin eng.queue /\ None \notin Ids
  BY EngineConstants DEF Sound, Good, Accounted, None, Ids
<1>2. Waiting(eng)' = Waiting(eng) \ done
  BY DEF Serves, Waiting
<1>3. eng'.active = IF eng.active \in done THEN 0 ELSE eng.active
  BY <1>1 DEF Serves, Waiting, None
<1>4. \A i \in Ids : IF i \in done
                     THEN eng'.result[i] \in Errors \/ (eng'.result[i] = "Ok" /\ i = eng.active)
                     ELSE eng'.result[i] = eng.result[i]
  BY DEF Serves
<1>5. eng'.next_id = eng.next_id
  BY DEF Serves
<1> HIDE DEF done
<1>6. Requests!Turn(done)
  <2>1. done \subseteq Waiting(eng)
    BY DEF done
  <2> QED
    BY <1>2, <1>3, <1>4, <1>5, <2>1 DEF Requests!Turn
<1> QED
  BY <1>6 DEF done

\* tick() when idle: what expire() answered, and the oldest command is served.
LEMMA StartTurns ==
    ASSUME Sound(eng), Sound(Expired), Serves(eng, Expired), eng.active = None,
           Expired.phase = "Idle", Expired.queue # {}, eng' = StartCommand(Expired)
    PROVE  Requests!Turn(Waiting(eng) \ Waiting(eng)')
<1> DEFINE m == Expired
           next == CHOOSE i \in m.queue : \A j \in m.queue : i <= j
           done == Waiting(eng) \ Waiting(eng)'
<1>1. m \in EngineType /\ m.active = None
  BY DEF Sound, Good, Coherent
<1>2. next \in m.queue /\ \A j \in m.queue : next <= j
  <2>1. m.queue \subseteq Nat
    BY <1>1 DEF EngineType, Ids
  <2> QED
    BY <2>1, OldestQueued
<1>3. /\ eng'.active = next /\ eng'.queue = m.queue \ {next}
      /\ eng'.next_id = m.next_id /\ eng'.result = m.result
  BY <1>1 DEF StartCommand, Write, EngineType
<1> HIDE DEF next
<1>4. next # None
  BY <1>1, <1>2, EngineConstants DEF EngineType, Ids, None
<1>5. Waiting(m) = m.queue /\ Waiting(eng)' = m.queue
  BY <1>1, <1>2, <1>3, <1>4 DEF Waiting
<1>6. done \subseteq Waiting(eng) /\ Waiting(eng)' = Waiting(eng) \ done
  BY <1>5 DEF Serves, Waiting
<1>7. \A i \in Ids : IF i \in done
                     THEN eng'.result[i] \in Errors \/ (eng'.result[i] = "Ok" /\ i = eng.active)
                     ELSE eng'.result[i] = eng.result[i]
  BY <1>3, <1>5 DEF Serves
<1>8. eng.active = 0 /\ eng'.active \in Waiting(eng)' /\ \A j \in Waiting(eng)' : eng'.active <= j
  BY <1>2, <1>3, <1>5 DEF None
<1>9. eng'.next_id = eng.next_id
  BY <1>3 DEF Serves
<1> HIDE DEF done
<1>10. Requests!Turn(done)
  BY <1>6, <1>7, <1>8, <1>9 DEF Requests!Turn
<1> QED
  BY <1>10 DEF done

\* enqueue() accepts a request.
LEMMA EnqueueAccepts ==
    ASSUME Sound(eng), NEW t \in Timeouts, NEW x \in BOOLEAN, Enqueue(t, x)
    PROVE  Requests!Accept
<1>1. eng \in EngineType /\ eng.next_id \in 0 .. MaxId /\ eng.next_id < MaxId
  BY DEF Sound, Good, EngineType, Enqueue
<1>2. /\ eng'.next_id = eng.next_id + 1 /\ eng'.queue = eng.queue \cup {eng.next_id + 1}
      /\ eng'.active = eng.active /\ eng'.result = eng.result
  BY <1>1 DEF Enqueue, EngineType
<1>3. eng.next_id + 1 \in Ids
  BY <1>1, EngineConstants DEF Ids
<1>4. Waiting(eng)' = Waiting(eng) \cup {eng.next_id + 1}
  BY <1>2 DEF Waiting
<1> QED
  BY <1>2, <1>3, <1>4 DEF Requests!Accept

\* Every step of a sound engine is a step of the service.
LEMMA NextRefines ==
    ASSUME Sound(eng), [Next]_eng
    PROVE  Requests!Next
<1> USE DEF Continue
<1> DEFINE Served == Serves(eng, eng')
<1>1. Sound(Expired) /\ Serves(eng, Expired) /\ (Expired.phase = "Idle" => eng.active = None)
  BY ExpireSound, ExpireServes DEF Expired
<1>2. ASSUME Served PROVE Requests!Next
  BY <1>2, ServesTurns DEF Requests!Next
<1>3. ASSUME NEW f, Serves(Expired, f), eng' \in {Expired, f}
      PROVE  Requests!Next
  BY <1>1, <1>2, <1>3, ServesCompose
<1>4. ASSUME NEW t \in Timeouts, NEW x \in BOOLEAN, Enqueue(t, x)
      PROVE  Requests!Next
  BY <1>4, EnqueueAccepts DEF Requests!Next
<1>5. CASE Tick
  <2>1. \/ eng' \in {Expired, Fail(Expired, "ResyncFailed"), StartProbe(Expired)}
        \/ /\ eng' = StartCommand(Expired)
           /\ Expired.phase = "Idle" /\ Expired.queue # {}
    BY <1>5 DEF Tick, TickHandler
  <2>2. Serves(Expired, Fail(Expired, "ResyncFailed")) /\ Serves(Expired, StartProbe(Expired))
    BY <1>1, FailServes, StartProbeServes DEF Sound, Errors
  <2>3. CASE eng' = StartCommand(Expired) /\ Expired.phase = "Idle" /\ Expired.queue # {}
    BY <1>1, <2>3, StartTurns DEF Requests!Next
  <2> QED
    BY <1>3, <2>1, <2>2, <2>3
<1>6. ASSUME NEW n \in 0 .. WRITE_BYTES, AcceptWritten(n)
      PROVE  Requests!Next
  <2>1. Serves(Expired, WrittenHandler(Expired, n))
    BY <1>1, WrittenServes
  <2>2. eng' \in {Expired, WrittenHandler(Expired, n)}
    BY <1>6 DEF AcceptWritten, Expired
  <2> QED
    BY <1>3, <2>1, <2>2
<1>7. CASE AcceptStale
  <2>1. Serves(Expired, Fail(Expired, "StaleProgress"))
    BY <1>1, FailServes DEF Sound, Errors
  <2>2. eng' \in {Expired, Fail(Expired, "StaleProgress")}
    BY <1>7 DEF AcceptStale
  <2> QED
    BY <1>3, <2>1, <2>2
<1>8. ASSUME NEW large \in BOOLEAN, FeedFirst(large)
      PROVE  Requests!Next
  <2>1. Serves(Expired, PushFirst(CountInput(Expired), large))
    BY <1>1, CountInputServes, CountInputSound, PushServes, ServesCompose
  <2>2. eng' \in {Expired, PushFirst(CountInput(Expired), large)}
    BY <1>8 DEF FeedFirst
  <2> QED
    BY <1>3, <2>1, <2>2
<1>9. ASSUME NEW line \in Lines, FeedLast(line)
      PROVE  Requests!Next
  <2>1. Serves(Expired, PushLast(CountInput(Expired), line))
    BY <1>1, CountInputServes, CountInputSound, PushServes, ServesCompose
  <2>2. eng' \in {Expired, PushLast(CountInput(Expired), line)}
    BY <1>9 DEF FeedLast
  <2> QED
    BY <1>3, <2>1, <2>2
<1>10. CASE ClockRegression
  <2>1. Serves(eng, Fail(eng, "ClockRegression"))
    BY FailServes DEF Sound, Errors
  <2> QED
    BY <1>2, <1>10, <2>1 DEF ClockRegression
<1>11. CASE Elapse
  <2>1. /\ eng'.next_id = eng.next_id /\ eng'.queue = eng.queue
        /\ eng'.active = eng.active /\ eng'.result = eng.result
    BY <1>11 DEF Elapse, Sound, Good, EngineType
  <2> QED
    BY <1>2, <2>1, FrameServes
<1>12. CASE UNCHANGED eng
  BY <1>2, <1>12, FrameServes
<1> QED
  BY <1>4, <1>5, <1>6, <1>7, <1>8, <1>9, <1>10, <1>11, <1>12 DEF Next

\* The engine implements the request service: commands are served one at a time
\* in the order enqueue() took them, each is answered once, and Ok goes only to
\* the command being served, whatever lines, deadlines and failures interleave.
THEOREM EngineServesRequests == Spec => ServesRequests
<1>1. Init => Requests!Init
  <2> SUFFICES ASSUME Init PROVE Requests!Init
    OBVIOUS
  <2>1. /\ eng.next_id = 0 /\ eng.queue = {} /\ eng.active = 0
        /\ eng.result = [i \in Ids |-> "none"]
    BY DEF Init, None
  <2>2. Waiting(eng) = {}
    BY <2>1 DEF Waiting, None
  <2> QED
    BY <2>1, <2>2 DEF Requests!Init
<1>2. Sound(eng) /\ [Next]_eng => Sound(eng)'
  BY NextSound
<1>3. Sound(eng) /\ [Next]_eng => [Requests!Next]_Requests!vars
  BY NextRefines
<1> QED
  BY InitSound, <1>1, <1>2, <1>3, PTL DEF Spec, ServesRequests, Requests!Spec

=============================================================================
