----------------------------- MODULE PerfLocks -----------------------------
(***************************************************************************)
(* Performance locks over the power HAL (mtkpower/service.cpp): clients    *)
(* hold hints for a time, several locks share a hint, and a thread expires *)
(* locks, follows the backend's death and return, and replays what is      *)
(* held.  Callbacks to watchers are left out.                              *)
(***************************************************************************)
EXTENDS Integers, FiniteSets, FiniteSetsExt

CONSTANTS Hints,
          MaxHandles,  \* handles given out
          MaxClock,
          MaxDeaths    \* deaths of the backend

VARIABLE s

\* locks: handle to its end and hints; refs: mReferences; gen: mGeneration; link: the
\* backend's life that mBackend speaks to, 0 for none; life: the backend's life, 0
\* while it is down; boost and mode: what the backend does; told: what the service
\* managers reported and the thread has not read; replay: mReplay.
Init == s = [now |-> 0, locks |-> <<>>, next |-> 0, refs |-> [h \in Hints |-> 0], audio |-> 0, dirty |-> FALSE,
             link |-> 0, binder |-> 0, replay |-> TRUE, ready |-> FALSE, life |-> 0, lives |-> 0,
             boost |-> [h \in Hints |-> 0], mode |-> FALSE, told |-> 0, died |-> 0, up |-> FALSE]

Held == DOMAIN s.locks
Connected(t) == t.link # 0 /\ t.link = t.life
LocksWith(t, h) == {k \in DOMAIN t.locks : h \in t.locks[k].hints}
Last(t, h) == Max({t.locks[k].until : k \in LocksWith(t, h)} \cup {t.now})

\* apply: the backend is asked to hold the hint for the longest lock on it.
Apply(t, h, until, bad) ==
  IF ~Connected(t) \/ h \in bad THEN t ELSE [t EXCEPT !.boost[h] = Max({until, Last(t, h)})]

Without(t, k) == [t EXCEPT !.locks = [j \in DOMAIN t.locks \ {k} |-> t.locks[j]]]

\* releaseLocked: hints the backend did not take back stay with the lock, which
\* then stays too.
ReleaseLocked(t, k, bad) ==
  LET done == IF Connected(t) THEN t.locks[k].hints \ bad ELSE {}
      last == {h \in done : t.refs[h] = 1}
      kept == t.locks[k].hints \ done
      u == [t EXCEPT !.boost = [h \in Hints |-> IF h \in last THEN 0
                                                ELSE IF h \in done THEN Last(t, h) ELSE t.boost[h]],
                     !.refs = [h \in Hints |-> IF h \in done THEN t.refs[h] - 1 ELSE t.refs[h]],
                     !.locks[k].hints = kept]
  IN IF kept = {} THEN Without(u, k) ELSE u

\* The lock ends now and is released.
EndLock(t, k, bad) == ReleaseLocked([t EXCEPT !.locks[k].until = t.now], k, bad)

\* acquire: a new lock, in place of one the caller had if it named one.  The hints
\* are asked for up to one the backend refuses, which gives up the lock; so does a former lock that cannot be released.
Acquire(old, hints, d, bad) ==
  LET k == s.next + 1
      until == s.now + d
      asked == IF bad \cap hints = {} THEN hints ELSE (hints \ bad) \cup {CHOOSE h \in bad \cap hints : TRUE}
      known == [s EXCEPT !.next = k, !.locks = [j \in Held \cup {k} |-> IF j = k THEN [until |-> until, hints |-> asked] ELSE s.locks[j]],
                         !.refs = [h \in Hints |-> IF h \in asked THEN s.refs[h] + 1 ELSE s.refs[h]]]
      applied == FoldSet(LAMBDA h, t : Apply(t, h, until, bad), known, asked)
      swapped == EndLock(applied, old, bad)
      moved == [swapped EXCEPT !.locks = [j \in (DOMAIN swapped.locks \ {k}) \cup {old} |->
                                            IF j = old THEN swapped.locks[k] ELSE swapped.locks[j]]]
  IN /\ s.link # 0 /\ k <= MaxHandles /\ hints # {} /\ until <= MaxClock
     /\ old # 0 => old \in Held /\ s.locks[old].until > s.now
     /\ s' = IF ~Connected(s) THEN s
             ELSE IF bad \cap hints # {} THEN EndLock(applied, k, bad)
             ELSE IF old = 0 THEN applied
             ELSE IF old \in DOMAIN swapped.locks THEN EndLock(swapped, k, bad) ELSE moved

Release(k, bad) == /\ k \in Held /\ s' = EndLock(s, k, bad)

\* The death of a client that registered a callback ends its locks.
ClientDied(ks) ==
  /\ ks # {} /\ ks \subseteq Held
  /\ s' = [s EXCEPT !.locks = [k \in Held |-> IF k \in ks THEN [s.locks[k] EXCEPT !.until = s.now] ELSE s.locks[k]]]

SyncAudio(t, ok) ==
  IF t.dirty /\ ok /\ Connected(t) THEN [t EXCEPT !.dirty = FALSE, !.mode = t.audio > t.now] ELSE t

\* audio: the low latency mode for an owner, capped.
Audio(on, ok) ==
  /\ on => s.now < MaxClock /\ ok /\ Connected(s)
  /\ on \/ s.audio > s.now
  /\ s' = SyncAudio([s EXCEPT !.audio = IF on THEN MaxClock ELSE 0, !.dirty = TRUE, !.mode = @ \/ on], ok)

-----------------------------------------------------------------------------
DropBackend(t) == [t EXCEPT !.link = 0, !.replay = TRUE, !.dirty = @ \/ t.audio > 0]

\* updateBackend: a death of the life linked to, the property, a new binder.
UpdateBackend(t) ==
  LET dead == IF t.died # 0 /\ t.died = t.link THEN [DropBackend(t) EXCEPT !.binder = 0] ELSE t
      fell == [(IF dead.ready /\ ~t.up THEN DropBackend(dead) ELSE dead) EXCEPT !.ready = t.up, !.died = 0]
  IN IF t.told # 0 /\ t.told # fell.binder THEN [DropBackend(fell) EXCEPT !.binder = t.told, !.told = 0]
     ELSE [fell EXCEPT !.told = 0]

\* connect: links to the binder; one that died meanwhile is forgotten if nothing was linked.
Connect(t) ==
  IF t.binder = t.life THEN [t EXCEPT !.link = t.binder]
  ELSE [t EXCEPT !.binder = IF t.link = 0 THEN 0 ELSE @]

\* Mutant of Recover: connected is enough, nothing is replayed.
RecoverBlind(t, bad) ==
  IF ~t.ready \/ t.binder = 0 \/ ~t.replay \/ t.binder # t.life THEN t
  ELSE SyncAudio([t EXCEPT !.link = t.binder, !.replay = FALSE, !.dirty = @ \/ t.audio > 0], TRUE)

\* recover: connects, and asks again for every hint a live lock holds; the replay
\* is over only when all of it was taken.
Recover(t, bad) ==
  LET linked == [Connect(t) EXCEPT !.dirty = @ \/ t.audio > 0]
      live == {h \in Hints : t.refs[h] > 0 /\ \E k \in LocksWith(t, h) : t.locks[k].until > t.now}
      held == SyncAudio(FoldSet(LAMBDA h, u : Apply(u, h, u.now, bad), linked, live), bad = {})
  IN IF ~t.ready \/ t.binder = 0 \/ ~t.replay THEN t
     ELSE IF t.binder # t.life THEN Connect(t)
     ELSE [held EXCEPT !.replay = (bad \cap live # {}) \/ held.dirty]

\* One pass of the thread.
Expire(bad) ==
  LET known == UpdateBackend(s)
      quiet == IF known.audio # 0 /\ known.audio <= known.now THEN [known EXCEPT !.audio = 0, !.dirty = TRUE] ELSE known
      back == Recover(quiet, bad)
      synced == IF back.replay THEN back ELSE SyncAudio(back, bad = {})
      over == {k \in DOMAIN synced.locks : synced.locks[k].until <= synced.now}
  IN s' = FoldSet(LAMBDA k, u : ReleaseLocked(u, k, bad), synced, over)

-----------------------------------------------------------------------------
\* External: time, and the backend's lives; boosts end by themselves.
Tick ==
  /\ s.now < MaxClock
  /\ s' = [s EXCEPT !.now = @ + 1, !.boost = [h \in Hints |-> IF s.boost[h] <= s.now + 1 THEN 0 ELSE s.boost[h]]]

BackendDies ==
  /\ s.life # 0 /\ s.lives <= MaxDeaths
  /\ s' = [s EXCEPT !.life = 0, !.died = IF s.link = s.life THEN s.life ELSE @, !.boost = [h \in Hints |-> 0], !.mode = FALSE]

BackendStarts ==
  /\ s.life = 0 /\ s.lives <= MaxDeaths
  /\ s' = [s EXCEPT !.lives = @ + 1, !.life = s.lives + 1, !.told = s.lives + 1]

PropertyChanges == s' = [s EXCEPT !.up = ~@]

Next ==
  \/ Tick \/ BackendDies \/ BackendStarts \/ PropertyChanges
  \/ \E bad \in SUBSET Hints :
       \/ Expire(bad)
       \/ \E k \in Held : Release(k, bad)
       \/ \E old \in Held \cup {0}, hints \in SUBSET Hints, d \in 1..MaxClock : Acquire(old, hints, d, bad)
  \/ \E ks \in SUBSET Held : ClientDied(ks)
  \/ \E on, ok \in BOOLEAN : Audio(on, ok)

-----------------------------------------------------------------------------
\* The backend boosts what the locks hold: each hint is counted once per lock that
\* holds it; once the backend is connected and replayed, a hint of a live lock is
\* boosted for as long as the longest of them; and a hint boosted is still some
\* lock's to take back, through refusals and restarts of the backend.
BoostsHeld ==
  /\ \A h \in Hints : s.refs[h] = Cardinality(LocksWith(s, h))
  /\ Connected(s) /\ ~s.replay =>
       \A h \in Hints, k \in Held : h \in s.locks[k].hints /\ s.locks[k].until > s.now => s.boost[h] >= s.locks[k].until
  /\ \A h \in Hints : s.boost[h] > s.now => LocksWith(s, h) # {}
=============================================================================
