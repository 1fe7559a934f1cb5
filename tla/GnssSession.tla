---------------------------- MODULE GnssSession ----------------------------
(***************************************************************************)
(* The GNSS service over the vendor's HAL (gnss-aidl): a session with a    *)
(* main callback and its streams, and extensions with callbacks of their   *)
(* own.  A callback is dropped by emptying its slot and waiting, with the  *)
(* lock held, for the calls in flight (CallbackSlot.h, GnssCallback.cpp);  *)
(* calls from the framework never wait for a lock, deaths do.              *)
(***************************************************************************)
EXTENDS Integers, FiniteSets

CONSTANTS Gated,     \* extensions that work only in a session (navigation, PSDS, corrections, power)
          Free,      \* those that always do (A-GNSS, RIL, visibility, antenna, measurement)
          Watched,   \* those that follow their client's death (LegacyClient, measurement)
          Keeps,     \* those that refuse a second callback (navigation, antenna)
          MaxClients \* callbacks the framework makes

VARIABLE s

Main == "main"
Exts == Gated \cup Free
Slots == Exts \cup {Main}
Streams == {"location", "sv"}
None == 0

\* cb: the slot's callback; open: callbacks a call may still be made to; flying: calls
\* in flight; lock: who holds each mutex; ses and set: what the session's thread and the
\* thread in an extension are doing; on: mEnabled; dead, notice: clients that died and
\* death notices under way, by cookie; ended: sessions whose client closed them.
Init == s = [cb |-> [e \in Slots |-> None], open |-> {}, flying |-> {}, clients |-> 0,
             lock |-> [e \in Slots |-> "free"], ses |-> [pc |-> "idle", left |-> {}],
             set |-> [pc |-> "idle", e |-> Main, n |-> None], on |-> [e \in Exts |-> FALSE],
             streams |-> [x \in Streams |-> FALSE], sent |-> [x \in Streams |-> FALSE], running |-> FALSE,
             dead |-> {}, notice |-> {}, ended |-> {}, last |-> None]

InFlight(e) == {f \in s.flying : f[1] = e} # {}

\* callbacksInFlight, and a lock that is tried.
MayTry(e) == s.flying = {} /\ s.lock[e] = "free"

-----------------------------------------------------------------------------
\* Extensions: setCallback up to the wait for the old callback's calls.
SetCallback(e) ==
  /\ s.set.pc = "idle" /\ s.clients < MaxClients /\ MayTry(e)
  /\ e \in Gated => s.on[e]
  /\ e \in Keeps => s.cb[e] = None
  /\ s' = [s EXCEPT !.clients = @ + 1, !.lock[e] = "set", !.open = @ \ {<<e, s.cb[e]>>},
                    !.set = [pc |-> "drain", e |-> e, n |-> s.clients + 1]]

\* The old callback is quiet; the new one is given to the HAL, unless the HAL does
\* not close the old one or the new client is dead.
SetBegun(ok) ==
  LET e == s.set.e
  IN /\ s.set.pc = "drain" /\ ~InFlight(e)
     /\ s' = IF ~ok THEN [s EXCEPT !.cb[e] = None, !.lock[e] = "free", !.set.pc = "idle"]
             ELSE [s EXCEPT !.cb[e] = s.set.n, !.open = @ \cup {<<e, s.set.n>>}, !.set.pc = "hal"]

\* The HAL took it, or not: then it is dropped again.
SetAnswered(ok) ==
  /\ s.set.pc = "hal"
  /\ s' = IF ok THEN [s EXCEPT !.lock[s.set.e] = "free", !.set.pc = "idle"]
          ELSE [s EXCEPT !.open = @ \ {<<s.set.e, s.set.n>>}, !.set.pc = "undo"]

\* close of an extension, or the death of its client if that is still the one.
CloseExtension(e) ==
  /\ s.set.pc = "idle" /\ MayTry(e) /\ s.cb[e] # None
  /\ s' = [s EXCEPT !.lock[e] = "set", !.open = @ \ {<<e, s.cb[e]>>}, !.set = [pc |-> "undo", e |-> e, n |-> s.cb[e]]]

ExtensionDeath(e, n) ==
  /\ e \in Watched /\ <<e, n>> \in s.notice /\ s.set.pc = "idle" /\ s.lock[e] = "free"
  /\ s' = IF s.cb[e] # n THEN [s EXCEPT !.notice = @ \ {<<e, n>>}]
          ELSE [s EXCEPT !.notice = @ \ {<<e, n>>}, !.lock[e] = "set", !.open = @ \ {<<e, n>>},
                         !.set = [pc |-> "undo", e |-> e, n |-> n]]

SetUndone ==
  /\ s.set.pc = "undo" /\ ~InFlight(s.set.e)
  /\ s' = [s EXCEPT !.cb[s.set.e] = None, !.lock[s.set.e] = "free", !.set.pc = "idle"]

-----------------------------------------------------------------------------
\* Gnss::setCallback, up to the HAL's answer.
OpenSession ==
  /\ s.ses.pc = "idle" /\ s.clients < MaxClients /\ MayTry(Main) /\ s.cb[Main] = None
  /\ LET n == s.clients + 1
     IN s' = [s EXCEPT !.clients = n, !.lock[Main] = "ses", !.cb[Main] = n, !.open = @ \cup {<<Main, n>>}, !.ses.pc = "hal", !.last = n]

\* A refusal shuts everything down again.
SessionAnswered(ok) ==
  /\ s.ses.pc = "hal"
  /\ s' = IF ok THEN [s EXCEPT !.lock[Main] = "free", !.ses.pc = "idle", !.on = [e \in Exts |-> s.on[e] \/ e \in Gated]]
          ELSE [s EXCEPT !.ses = [pc |-> "next", left |-> Exts], !.ended = @ \cup {s.cb[Main]}]

\* Gnss::close: refused while a call is in flight; and the death of the session's client.
Close ==
  /\ s.ses.pc = "idle" /\ MayTry(Main)
  /\ s' = [s EXCEPT !.lock[Main] = "ses", !.ses = [pc |-> "next", left |-> Exts], !.ended = @ \cup {s.cb[Main]}]

SessionDeath(n) ==
  /\ <<Main, n>> \in s.notice /\ s.ses.pc = "idle" /\ s.lock[Main] = "free"
  /\ s' = IF s.cb[Main] # n THEN [s EXCEPT !.notice = @ \ {<<Main, n>>}]
          ELSE [s EXCEPT !.notice = @ \ {<<Main, n>>}, !.lock[Main] = "ses", !.ses = [pc |-> "next", left |-> Exts]]

\* closeSession, extension by extension: the lock is waited for.
ShutdownBegins(e) ==
  /\ s.ses.pc = "next" /\ e \in s.ses.left /\ s.lock[e] = "free"
  /\ s' = [s EXCEPT !.lock[e] = "ses", !.open = @ \ {<<e, s.cb[e]>>}, !.on[e] = FALSE, !.ses = [pc |-> "drain", left |-> @.left \ {e}]]

ShutdownEnds(e) ==
  /\ s.ses.pc = "drain" /\ s.lock[e] = "ses" /\ e # Main /\ ~InFlight(e)
  /\ s' = [s EXCEPT !.cb[e] = None, !.lock[e] = "free", !.ses.pc = "next"]

\* Then the main callback; GnssCallback::invalidate also stops the streams' reports.
BridgeInvalid ==
  /\ s.ses.pc = "next" /\ s.ses.left = {}
  /\ s' = [s EXCEPT !.open = @ \ {<<Main, s.cb[Main]>>}, !.sent = [x \in Streams |-> FALSE], !.ses.pc = "bridge"]

\* The HAL is stopped and cleaned up, and the streams forgotten.
SessionEnds ==
  /\ s.ses.pc = "bridge" /\ ~InFlight(Main)
  /\ s' = [s EXCEPT !.cb[Main] = None, !.running = FALSE, !.streams = [x \in Streams |-> FALSE],
                    !.lock[Main] = "free", !.ses.pc = "idle"]


\* stream: starts or stops reports; location also starts and stops the HAL, and a
\* refusal puts the flags back.
Stream(x, on, ok) ==
  LET flip == x = "location" /\ s.streams[x] # on
  IN /\ s.lock[Main] = "free" /\ s.cb[Main] # None
     /\ s' = IF flip /\ ~ok THEN s
             ELSE [s EXCEPT !.streams[x] = on, !.sent[x] = on, !.running = IF flip THEN on ELSE @]

-----------------------------------------------------------------------------
\* A call from the HAL, on its thread: CallbackSlot::get and the call it makes.
Dispatch(f) == /\ f \in s.open \ s.flying /\ s' = [s EXCEPT !.flying = @ \cup {f}]

Dispatched(f) == /\ f \in s.flying /\ s' = [s EXCEPT !.flying = @ \ {f}]

\* A client dies (external): whoever linked to it is told, perhaps late.
Dies(e) ==
  /\ s.cb[e] # None /\ s.cb[e] \notin s.dead
  /\ s' = [s EXCEPT !.dead = @ \cup {s.cb[e]}, !.notice = IF e \in Watched \cup {Main} THEN @ \cup {<<e, s.cb[e]>>} ELSE @]

Next ==
  \/ \E e \in Exts : SetCallback(e) \/ CloseExtension(e) \/ ShutdownBegins(e) \/ ShutdownEnds(e)
  \/ \E f \in s.notice : SessionDeath(f[2]) \/ ExtensionDeath(f[1], f[2])
  \/ \E ok \in BOOLEAN : SetBegun(ok) \/ SetAnswered(ok) \/ SessionAnswered(ok)
  \/ SetUndone
  \/ OpenSession
  \/ Close
  \/ BridgeInvalid
  \/ SessionEnds
  \/ \E x \in Streams, on, ok \in BOOLEAN : Stream(x, on, ok)
  \/ \E f \in s.open : Dispatch(f)
  \/ \E f \in s.flying : Dispatched(f)
  \/ \E e \in Slots : Dies(e)

-----------------------------------------------------------------------------
=============================================================================
