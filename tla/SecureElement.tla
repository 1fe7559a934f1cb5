--------------------------- MODULE SecureElement ---------------------------
(***************************************************************************)
(* The secure element service on the SIM (secure-element/service.cpp).     *)
(* One call at a time talks to the radio service: it connects, sends a     *)
(* request with a serial number and waits for the answer or a timeout,     *)
(* while answers, SIM changes and deaths come from other threads.          *)
(***************************************************************************)
EXTENDS Integers, Sequences, FiniteSets, FiniteSetsExt

CONSTANTS MaxChannel, \* logical channels of the SIM
          MaxGen,     \* connections
          MaxSerial,  \* requests
          MaxChanges  \* changes of the SIM

VARIABLE s

Idle == [kind |-> "idle", c |-> 0, left |-> {}, at |-> "end"]

\* life: the radio service's instance, 0 while it is down; link: the one backend speaks
\* to; gen and active: generation and activeGeneration; reg: the connection whose
\* callbacks the radio service holds; inval: invalidated; chans: channels; open: the
\* logical channels open on the SIM; op: the call that holds the operation lock.
Init == s = [life |-> 1, lives |-> 1, link |-> 0, gen |-> 0, active |-> 0, reg |-> 0, inval |-> FALSE,
             chans |-> {}, open |-> {}, op |-> Idle, pend |-> 0, answer |-> "none", got |-> 0, reqs |-> <<>>, replies |-> {},
             hints |-> {}, changes |-> 0, client |-> FALSE, here |-> TRUE, conn |-> FALSE]

Discard(t) == [t EXCEPT !.link = 0, !.chans = {}, !.gen = @ + 1, !.active = t.gen + 1, !.conn = FALSE]

\* connect: what was invalidated or has died is discarded; then a new link (registering
\* with it is taken to succeed), whose
\* callbacks carry its generation.
Connect(t) ==
  LET u == IF t.inval /\ t.link # 0 THEN Discard(t) ELSE t
      v == [u EXCEPT !.inval = FALSE]
      w == IF v.link # 0 /\ v.link # v.life THEN Discard(v) ELSE v
  IN IF w.link # 0 \/ w.life = 0 THEN w
     ELSE [w EXCEPT !.gen = @ + 1, !.link = w.life, !.active = w.gen + 1, !.reg = w.gen + 1]

Fits == s.gen + 3 <= MaxGen /\ s.pend < MaxSerial

\* Calls: what each does before its first request.
Call(kind, c, t) == [t EXCEPT !.op = [kind |-> kind, c |-> c, left |-> t.chans \ {0}, at |-> "send"]]
Free == s.op.kind = "idle" /\ Fits

OpenLogicalChannel == /\ Free /\ s.client /\ s' = Call("open", 0, s)

\* apdu, for channel c: a lost channel fails the call that asked, else the request is made.
Apdu(t, kind, c) ==
  LET u == Connect(t)
  IN IF u.link # 0 /\ c \in u.chans THEN Call(kind, c, u)
     ELSE [u EXCEPT !.op = Idle, !.answer = "none", !.got = 0, !.chans = IF kind = "select" THEN @ \ {0} ELSE @]

\* openBasicChannel: with an application, it is selected before the channel is the client's to keep.
OpenBasicChannel(aid) ==
  /\ Free /\ s.client
  /\ LET t == Connect(s)
         u == [t EXCEPT !.chans = @ \cup {0}]
     IN s' = IF t.link = 0 \/ 0 \in t.chans THEN t ELSE IF aid THEN Apdu(u, "select", 0) ELSE u

\* getAtr and isCardPresent ask the card and keep nothing.
GetAtr == /\ Free /\ s' = Call("peek", 0, s)

CloseChannel(c) ==
  /\ Free /\ s.client /\ c \in s.chans
  /\ s' = IF s.gen # s.active \/ s.inval THEN [s EXCEPT !.chans = {}]
          ELSE IF c = 0 THEN [s EXCEPT !.chans = @ \ {0}] ELSE Call("close", c, s)

Transmit(c) == /\ Free /\ s.client /\ s' = Apdu(s, "apdu", c)

Reset == /\ Free /\ s.client /\ s' = Call("down", 0, [s EXCEPT !.chans = {}, !.conn = FALSE])

\* closeAll, for init and for a client found dead.
CloseAll(kind) ==
  LET t == Connect(s)
  IN s' = IF t.link = 0 \/ t.chans \ {0} = {} THEN Call("card", 0, [t EXCEPT !.chans = {}, !.client = kind = "init"])
          ELSE Call(kind, Min(t.chans \ {0}), t)

InitCall == /\ Free /\ CloseAll("init")

\* monitor, one turn.
Monitor ==
  /\ Free
  /\ LET t == IF (s.active # s.gen \/ s.inval) /\ s.link # 0 THEN Discard([s EXCEPT !.inval = FALSE]) ELSE s
     IN s' = Call("card", 0, t)

ClientDies == /\ Free /\ s.client /\ CloseAll("dead")

-----------------------------------------------------------------------------
End(t) == [t EXCEPT !.op = Idle, !.answer = "none", !.got = 0]

\* What a call does with the outcome of its request.
Outcome(t, ok) ==
  CASE t.op.kind = "open" ->
         IF ~ok THEN End(t) ELSE IF t.got \in t.chans THEN End(Discard(t)) ELSE End([t EXCEPT !.chans = @ \cup {t.got}])
    [] t.op.kind = "close" -> IF ok THEN End([t EXCEPT !.chans = @ \ {t.op.c}]) ELSE End(t)
    [] t.op.kind \in {"apdu", "peek"} -> End(t)
    [] t.op.kind = "select" -> IF ok THEN End(t) ELSE End([t EXCEPT !.chans = @ \ {0}])
    [] t.op.kind = "card" ->
         IF ok THEN End([t EXCEPT !.conn = TRUE])
         ELSE IF t.conn THEN End([t EXCEPT !.chans = {}, !.conn = FALSE]) ELSE End(t)
    [] t.op.kind = "down" -> [t EXCEPT !.op = [@ EXCEPT !.kind = "up", !.at = "send", !.c = IF ok THEN 0 ELSE 1], !.answer = "none"]
    [] t.op.kind = "up" -> IF ok /\ t.op.c = 0 THEN [t EXCEPT !.op.kind = "card", !.op.at = "send", !.answer = "none"] ELSE End(t)
    [] t.op.kind \in {"init", "dead"} ->
         LET left == t.op.left \ {t.op.c}
         IN IF left # {} THEN [t EXCEPT !.op = [@ EXCEPT !.left = left, !.c = Min(left), !.at = "send"], !.answer = "none"]
            ELSE [t EXCEPT !.chans = {}, !.client = t.op.kind = "init", !.answer = "none",
                           !.op = [Idle EXCEPT !.kind = "card", !.at = "send"]]

\* request, up to the wait; delivered says whether the transaction went through.
Send(delivered) ==
  /\ s.op.at = "send" /\ Fits
  /\ LET t == Connect(s)
         u == [t EXCEPT !.pend = @ + 1, !.answer = "none", !.op.at = "wait"]
     IN /\ delivered => t.link # 0
        /\ s' = IF t.link = 0 THEN Outcome(t, FALSE)
                ELSE IF ~delivered THEN Outcome(Discard(u), FALSE)
                ELSE [u EXCEPT !.reqs = Append(@, [epoch |-> t.gen, serial |-> u.pend, kind |-> t.op.kind, c |-> t.op.c])]

Timeout ==
  /\ s.op.at = "wait" /\ s.answer = "none" /\ s.gen < MaxGen
  /\ s' = Outcome(Discard(s), FALSE)

\* The answer is there; a change of the SIM in the meantime spoils it, but not for a reset.
\* A select may have more of its answer to fetch.
Completes(more) ==
  /\ s.op.at = "wait" /\ s.answer # "none"
  /\ more => s.op.kind = "select" /\ s.answer = "ok" /\ ~s.inval /\ Fits
  /\ s' = IF more THEN Apdu([s EXCEPT !.answer = "none", !.got = 0], "select", 0)
          ELSE Outcome(s, s.answer = "ok" /\ (s.inval => s.op.kind \in {"down", "up"}))

\* The response callback of a connection.
Reply(r) ==
  /\ r \in s.replies
  /\ LET t == [s EXCEPT !.replies = @ \ {r}]
     IN s' = IF r.epoch # s.gen \/ r.serial # s.pend \/ s.op.at # "wait" THEN t ELSE [t EXCEPT !.answer = r.result, !.got = r.c]

\* The indication callback of a connection.
Changed(e) ==
  /\ e \in s.hints
  /\ s' = [s EXCEPT !.hints = @ \ {e}, !.inval = @ \/ e = s.gen]

-----------------------------------------------------------------------------
\* The radio service and the SIM (external): requests are carried out in turn and answered,
\* possibly after its sender gave up; a power request changes the SIM; so may others; the service dies and returns.
Answer(ok) ==
  LET q == Head(s.reqs)
      c == IF q.kind = "open" THEN Min((1..MaxChannel + 1) \ s.open) ELSE q.c
      done == CASE q.kind = "open" -> s.open \cup {c}
                [] q.kind \in {"close", "init", "dead"} -> s.open \ {c}
                [] q.kind \in {"down", "up"} -> {}
                [] OTHER -> s.open
  IN /\ s.reqs # <<>>
     /\ ok => (q.kind = "open" => c <= MaxChannel) /\ (q.kind \in {"close", "apdu"} /\ c # 0 => c \in s.open) /\ (q.kind \in {"card", "peek"} => s.here)
     /\ s' = [s EXCEPT !.reqs = Tail(@), !.open = IF ok THEN done ELSE @,
                       !.hints = IF ok /\ q.kind \in {"down", "up"} THEN @ \cup {s.reg} ELSE @,
                       !.replies = @ \cup {[epoch |-> q.epoch, serial |-> q.serial, c |-> c, result |-> IF ok THEN "ok" ELSE "error"]}]

SimChanges ==
  /\ s.changes < MaxChanges
  /\ s' = [s EXCEPT !.changes = @ + 1, !.open = {}, !.here = ~@, !.hints = IF s.reg # 0 THEN @ \cup {s.reg} ELSE @]

RadioDies ==
  /\ s.life # 0 /\ s.lives < 2
  /\ s' = [s EXCEPT !.life = 0, !.open = {}, !.reqs = <<>>, !.reg = 0]

RadioStarts == /\ s.life = 0 /\ s' = [s EXCEPT !.life = s.lives + 1, !.lives = @ + 1]

Next ==
  \/ OpenLogicalChannel
  \/ \E aid \in BOOLEAN : OpenBasicChannel(aid)
  \/ GetAtr
  \/ \E c \in 0..MaxChannel : CloseChannel(c) \/ Transmit(c)
  \/ Reset
  \/ InitCall
  \/ ClientDies
  \/ Monitor
  \/ \E d \in BOOLEAN : Send(d)
  \/ Timeout
  \/ \E more \in BOOLEAN : Completes(more)
  \/ \E r \in s.replies : Reply(r)
  \/ \E e \in s.hints : Changed(e)
  \/ \E ok \in BOOLEAN : Answer(ok)
  \/ SimChanges
  \/ RadioDies
  \/ RadioStarts

-----------------------------------------------------------------------------
\* request, connect and discard: a logical channel the service holds for its client is
\* open on the SIM, or the service has yet to learn that the SIM or the radio service
\* changed, in which case the next call drops it; late answers never add or remove a
\* channel.
ChannelsOpen ==
  \A c \in s.chans \ {0} :
    \/ c \in s.open
    \/ s.inval \/ s.gen \in s.hints \/ s.link # s.life
    \/ s.op.kind = "close" /\ c = s.op.c
    \/ s.op.kind \in {"init", "dead"}
=============================================================================
