--------------------------- MODULE TetherOffload ---------------------------
(***************************************************************************)
(* Tethering offload to the modem (bridges/tetheroffload/MddpBackend.cpp). *)
(* Calls of the framework and the event thread share a lock; a call that   *)
(* waits for the modem's answer handles the notifications that come before *)
(* it.  Flows are values, and local prefixes the set of flows they exempt; *)
(* statistics are left out.                                                *)
(***************************************************************************)
EXTENDS Integers, Sequences, FiniteSets

CONSTANTS Flows, Nets,   \* flows of the clients, and the downstream networks
          MaxGen,        \* generations of the session
          MaxNotices     \* notices waiting for delivery

VARIABLE s

\* modem: what it does, on and its flows with the network each was admitted for;
\* sent: the notice being delivered, with its generation.
Init == s = [ready |-> FALSE, failed |-> FALSE, active |-> FALSE, quota |-> FALSE, warned |-> FALSE, gen |-> 0,
             notices |-> <<>>, up |-> FALSE, v4 |-> FALSE, net |-> "none", nets |-> {}, exempt |-> {}, flows |-> {},
             on |-> FALSE, inModem |-> {}, sent |-> <<>>, exited |-> FALSE]

Poison(t) == [t EXCEPT !.failed = TRUE]

\* request(255, 1): the session in the modem is ended.
Disable(t) == [t EXCEPT !.on = FALSE, !.inModem = {}]

Notice(t, e) ==
  IF Len(t.notices) >= MaxNotices THEN Poison(t) ELSE [t EXCEPT !.notices = Append(@, <<t.gen, e>>)]


\* flushFlows when every request succeeds.
FlushFlows(t) == [t EXCEPT !.flows = {}, !.inModem = @ \ t.flows]

\* deactivate; ok says whether every request and the modem's answer were good.
Deactivate(t, ok) ==
  LET off == [t EXCEPT !.active = FALSE, !.quota = FALSE]
  IN IF ~t.active THEN t
     ELSE IF ok THEN [FlushFlows(off) EXCEPT !.net = "none", !.on = FALSE] ELSE Disable(Poison(off))

Deactivated(t, ok) == ~t.active \/ ok

\* notification: a translation timed out, or the modem started over, warns, reports
\* the limit, refused or lost the session, or stopped.
Reset(t) ==
  Notice([t EXCEPT !.gen = @ + 1, !.notices = <<>>, !.active = FALSE, !.quota = FALSE, !.warned = FALSE, !.v4 = FALSE,
                   !.flows = {}, !.up = FALSE, !.net = "none", !.nets = {}, !.exempt = {}], "started")

Ended(t, e) == Notice([t EXCEPT !.quota = FALSE, !.net = "none", !.nets = {}, !.v4 = FALSE], e)

Notification(t, e, ok) ==
  CASE e = "none" \/ ~t.ready -> t
    [] e = "timeout" /\ t.ready -> Notice(t, "timeout")
    [] e = "reset" /\ t.ready -> Reset(t)
    [] e = "warning" /\ t.ready ->
         IF t.active /\ t.quota /\ ~t.warned THEN Notice([t EXCEPT !.warned = TRUE], "warning") ELSE t
    [] e = "limit" /\ t.ready ->
         IF ~(t.quota /\ t.active) THEN t
         ELSE IF Deactivated(t, ok) THEN Ended(Deactivate([t EXCEPT !.quota = FALSE], ok), "limit")
              ELSE Ended(Deactivate([t EXCEPT !.quota = FALSE], ok), "stopped")
    [] e = "lost" /\ t.ready /\ t.active -> Ended(Deactivate(t, ok), "stopped")
    [] (e = "stopped" \/ (e = "lost" /\ ~t.active)) /\ t.ready ->
         LET off == [t EXCEPT !.active = FALSE, !.flows = {}] IN Ended(IF ok THEN off ELSE Disable(Poison(off)), "stopped")

\* External: what the modem does by itself when it sends such a notification.
ModemDid(t, e) == IF e \in {"reset", "stopped"} THEN Disable(t) ELSE t

\* reconcile: the network wanted is activated, any other is given up.  A
\* notification handled while waiting for the answer comes before it.  r, how the
\* start went: well, refused, of no use when it was answered, or not answered.
Wanted(t) == IF t.up /\ t.v4 /\ t.nets # {} THEN CHOOSE n \in t.nets : TRUE ELSE "none"
Switched(t, r) == IF t.active /\ Wanted(t) # t.net THEN Deactivate(t, r # "silent") ELSE t
Reconciled(t, r) ==
  LET off == Switched(t, r) IN ~t.failed /\ ~off.failed /\ (Wanted(t) = "none" \/ off.active \/ r = "ok")

Control(t, e, r) ==
  LET told == Notification(ModemDid(t, e), e, TRUE) IN IF r = "silent" THEN Disable(Poison(told)) ELSE told

Reconcile(t, e, r) ==
  LET off == Switched(t, r)
      asked == Control([off EXCEPT !.net = Wanted(t)], e, r)
      active == [asked EXCEPT !.active = TRUE, !.on = TRUE]
  IN IF t.failed \/ off.failed \/ Wanted(t) = "none" \/ off.active THEN off
     ELSE CASE r = "ok" -> Notice(active, "supported")
            [] r = "late" -> Deactivate(active, TRUE)
            [] OTHER -> asked

\* admit, with the check of what is exempt.
Admit(t, f) == t.active /\ t.v4 /\ f \notin t.exempt /\ t.net \in t.nets

-----------------------------------------------------------------------------
Alive == ~s.exited /\ ~s.failed

InitOffload(r) ==
  LET t == [s EXCEPT !.gen = @ + 1, !.notices = <<>>]
  IN /\ Alive /\ s.sent = <<>> /\ ~s.ready /\ s.gen < MaxGen
     /\ s' = IF r = "ok" THEN Notice([t EXCEPT !.ready = TRUE], "started")
             ELSE IF r = "silent" THEN Disable(Poison(t)) ELSE Disable(t)

\* stopOffload: what was stopped stays so when the modem refuses the end.
StopOffload(r) ==
  LET off == IF s.failed THEN s ELSE Deactivate(s, r # "silent")
  IN /\ ~s.exited /\ s.sent = <<>> /\ s.ready /\ s.gen < MaxGen
     /\ s' = IF r = "refused" \/ (~s.failed /\ ~Deactivated(s, r # "silent")) THEN off
             ELSE [Disable(off) EXCEPT !.ready = FALSE, !.gen = @ + 1, !.up = FALSE, !.nets = {}, !.exempt = {},
                                       !.notices = <<>>, !.flows = {}, !.v4 = FALSE, !.quota = FALSE]

SetLocalPrefixes(p, ok) ==
  /\ Alive /\ s.ready
  /\ s' = IF ok THEN [FlushFlows(s) EXCEPT !.exempt = p] ELSE s

\* setDataWarningAndLimit: a warning of the old quota is not delivered any more.
SetDataWarningAndLimit ==
  /\ Alive /\ s.ready /\ s.sent = <<>> /\ s.active
  /\ s' = [s EXCEPT !.quota = TRUE, !.warned = FALSE, !.notices = SelectSeq(@, LAMBDA n : n[2] # "warning")]

SetUpstreamParameters(up, v4, e, r) ==
  LET off == Deactivate(s, r # "silent")
  IN /\ Alive /\ s.ready
     /\ s' = IF ~Deactivated(s, r # "silent") THEN off ELSE Reconcile([off EXCEPT !.up = up, !.v4 = up /\ v4], e, r)

\* addDownstream: only one network; taken back if it could not be activated.
AddDownstream(n, e, r) ==
  LET u == [s EXCEPT !.nets = @ \cup {n}]
      t == Reconcile(u, e, r)
  IN /\ Alive /\ s.ready /\ s.nets \subseteq {n}
     /\ s' = IF ~Reconciled(u, r) THEN [t EXCEPT !.nets = @ \ ({n} \ s.nets)] ELSE t

RemoveDownstream(n, e, ok, r) ==
  LET t == FlushFlows(s)
  IN /\ Alive /\ s.ready /\ n \in s.nets
     /\ s' = IF ~ok THEN s ELSE Reconcile([t EXCEPT !.nets = @ \ {n}], e, r)

-----------------------------------------------------------------------------
\* The event thread, under the lock: a notification, a flow seen or gone.

Receive(e, ok) ==
  /\ Alive /\ s.ready /\ s.gen < MaxGen /\ e # "none"
  /\ s' = Notification(ModemDid(s, e), e, ok)

\* conntrack: what is known of the flow is replaced; a flow allowed is given to
\* the modem if its neighbour is known.
Conntrack(f, destroyed, known) ==
  LET t == [s EXCEPT !.flows = @ \ {f}, !.inModem = @ \ (s.flows \cap {f})]
  IN /\ Alive /\ s.ready
     /\ s' = IF ~destroyed /\ Admit(s, f) /\ known THEN [t EXCEPT !.flows = @ \cup {f}, !.inModem = @ \cup {f}] ELSE t

\* A malformed message, or the modem no longer in connection mode.
EventsBreak(ok) ==
  /\ Alive /\ s.ready
  /\ s' = Notice(Poison(Disable(Deactivate(s, ok))), "stopped")

\* poll() fails, or a descriptor is in error: no notice then.
PollBreaks == /\ Alive /\ s' = Poison(Disable(s))

\* A notice is taken under the lock and delivered without it.
Deliver ==
  LET n == Head(s.notices)
      t == [s EXCEPT !.notices = Tail(@)]
  IN /\ ~s.exited /\ s.sent = <<>> /\ s.notices # <<>>
     /\ s' = IF n[1] # s.gen \/ ~s.ready THEN t ELSE [t EXCEPT !.sent = n]

Delivered == /\ s.sent # <<>> /\ s' = [s EXCEPT !.sent = <<>>]

\* A broken session ends the process once its notices are delivered.
Exit ==
  /\ ~s.exited /\ s.failed /\ s.sent = <<>> /\ s.notices = <<>>
  /\ s' = [s EXCEPT !.exited = TRUE]

Events == {"none", "timeout", "reset", "warning", "limit", "lost", "stopped"}
Outcomes == {"ok", "refused", "late", "silent"}

Next ==
  \/ SetDataWarningAndLimit \/ PollBreaks \/ Deliver \/ Delivered \/ Exit
  \/ \E r \in Outcomes : InitOffload(r) \/ StopOffload(r)
  \/ \E ok \in BOOLEAN : EventsBreak(ok)
  \/ \E ok \in BOOLEAN, p \in SUBSET Flows : SetLocalPrefixes(p, ok)
  \/ \E ok \in BOOLEAN, e \in Events, r \in Outcomes :
       /\ e = "reset" => s.gen < MaxGen
       /\ \/ Receive(e, ok)
          \/ \E up, v4 \in BOOLEAN : SetUpstreamParameters(up, v4, e, r)
          \/ \E n \in Nets : AddDownstream(n, e, r) \/ RemoveDownstream(n, e, ok, r)
  \/ \E f \in Flows, d, k \in BOOLEAN : Conntrack(f, d, k)

-----------------------------------------------------------------------------

\* A notice reaches only a callback in use: none is being
\* delivered once stopOffload has returned.
NoticesCurrent == s.sent # <<>> => s.ready
=============================================================================
