----------------------------- MODULE WfcaRelay -----------------------------
(***************************************************************************)
(* The Wi-Fi-calling agent's media relay (wfca/wfca.c): datagrams of a     *)
(* call are copied into two bounded queues, which a data thread carries to *)
(* the media monitor while it has asked for them and a call is up.  The    *)
(* control thread starts and stops the data thread through two flags.      *)
(***************************************************************************)
EXTENDS Integers, Sequences, FiniteSets

CONSTANTS UlCap, DlCap,  \* RELAY_UL_CAP and RELAY_DL_CAP
          MaxMedia       \* datagrams of either direction offered

VARIABLE s

\* flags: started, incall, running, stop.  thread: where the data thread is;
\* "none" before it is created and when it has cleared the running flag.
\* taken: what it carried, per direction; lost: what a full queue dropped.
Init == s = [flags |-> {}, thread |-> "none", ul |-> <<>>, dl |-> <<>>, taken |-> <<<<>>, <<>>>>,
             lost |-> <<{}, {}>>, given |-> <<0, 0>>]

Open(t) == {"started", "incall"} \subseteq t.flags

RelayPush(q, cap, x) == IF Len(q) >= cap THEN q ELSE Append(q, x)
First(q) == IF q = <<>> THEN <<>> ELSE <<Head(q)>>
RelayPop(q) == IF q = <<>> THEN q ELSE Tail(q)

\* handle_imsa_send queues what the modem sends before it looks for a socket.
Uplink ==
  LET n == s.given[1] + 1
  IN /\ n <= MaxMedia
     /\ s' = [s EXCEPT !.given[1] = n, !.ul = RelayPush(@, UlCap, n),
                       !.lost[1] = IF Len(s.ul) >= UlCap THEN @ \cup {n} ELSE @]

\* The polling thread queues every datagram of a known filter.
Downlink ==
  LET n == s.given[2] + 1
  IN /\ n <= MaxMedia
     /\ s' = [s EXCEPT !.given[2] = n, !.dl = RelayPush(@, DlCap, n),
                       !.lost[2] = IF Len(s.dl) >= DlCap THEN @ \cup {n} ELSE @]

DataThreadStop(t) == IF "running" \in t.flags THEN [t EXCEPT !.flags = @ \cup {"stop"}] ELSE t

\* A gate that opens while the thread still runs leaves a stop that was asked
\* for standing.
ApplyGate(t, fails) ==
  IF ~Open(t) THEN DataThreadStop(t)
  ELSE IF "running" \in t.flags THEN t
  ELSE IF fails THEN [t EXCEPT !.flags = @ \ {"stop"}]
  ELSE [t EXCEPT !.flags = (@ \ {"stop"}) \cup {"running"}, !.thread = "top"]

\* MDM_CTRL_CMD_START, STOP, INCALL, NOT_INCALL and any other command.
ControlCmd(cmd, fails) ==
  LET set == CASE cmd = "start" -> s.flags \cup {"started"}
               [] cmd = "stop" -> s.flags \ {"started"}
               [] cmd = "incall" -> s.flags \cup {"incall"}
               [] cmd = "not_incall" -> s.flags \ {"incall"}
               [] OTHER -> s.flags
  IN s' = ApplyGate([s EXCEPT !.flags = set], fails)

Gone(t) == [t EXCEPT !.flags = @ \ {"running", "stop"}, !.thread = "none"]

\* The top of the thread's loop: the stop is taken in one critical section;
\* otherwise it tries to connect, again after three seconds if it cannot.
DataConnect(ok) ==
  /\ s.thread = "top"
  /\ s' = IF "stop" \in s.flags THEN Gone(s)
          ELSE [s EXCEPT !.thread = IF ok THEN "carry" ELSE "top"]

\* One record of each queue, as long as the monitor reads.
DataCarry ==
  /\ s.thread = "carry"
  /\ s' = [s EXCEPT !.thread = "ask", !.ul = RelayPop(@), !.dl = RelayPop(@),
                    !.taken = <<@[1] \o First(s.ul), @[2] \o First(s.dl)>>]


\* Inside the loop the stop is read in one critical section and answered in
\* another, the descriptor being closed between them.
DataAsk == /\ s.thread = "ask"
           /\ s' = [s EXCEPT !.thread = IF "stop" \in s.flags THEN "close" ELSE "carry"]

DataClose == /\ s.thread = "close" /\ s' = Gone(s)

Next ==
  \/ Uplink \/ Downlink \/ DataCarry \/ DataAsk \/ DataClose
  \/ \E cmd \in {"start", "stop", "incall", "not_incall", "other"}, fails \in BOOLEAN : ControlCmd(cmd, fails)
  \/ \E ok \in BOOLEAN : DataConnect(ok)

DataThread == (\E ok \in BOOLEAN : DataConnect(ok)) \/ DataCarry \/ DataAsk \/ DataClose

-----------------------------------------------------------------------------
\* The running flag and the thread agree, so that no second thread is ever
\* created beside one that works, and a thread that works while the gate is
\* closed has been told to stop: media leaves the device only in a call the
\* monitor asked for, but for the one record under way.
GateObeyed ==
  /\ (s.thread # "none") = ("running" \in s.flags)
  /\ s.thread # "none" /\ ~Open(s) => "stop" \in s.flags

\* In either direction the monitor gets records in the order they came, each
\* once, and the only ones it never gets are those a full queue refused.
MediaExact ==
  \A d \in {1, 2} :
    LET had == s.taken[d] \o (IF d = 1 THEN s.ul ELSE s.dl)
    IN /\ \A i, j \in DOMAIN had : i < j => had[i] < had[j]
       /\ {had[i] : i \in DOMAIN had} \cup s.lost[d] = 1 .. s.given[d]
       /\ {had[i] : i \in DOMAIN had} \cap s.lost[d] = {}

\* A closed gate ends the thread, unless it opens again first: the thread
\* looks at the flag every time round, connected or not.
RelayStops == ("running" \in s.flags /\ ~Open(s)) ~> (s.thread = "none" \/ Open(s))
=============================================================================
