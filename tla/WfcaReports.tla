---------------------------- MODULE WfcaReports ----------------------------
(***************************************************************************)
(* Packet-loss reports of the Wi-Fi-calling agent (wfca/wfca.c).  The      *)
(* modem's reports are kept per data connection until they are queried or  *)
(* go stale; a collector thread sleeps on a condition variable until the   *)
(* next of its 50-second deadlines, or for good when nothing is fresh.     *)
(***************************************************************************)
EXTENDS Integers, FiniteSets

CONSTANTS Pdns,        \* data connections
          Period,      \* ticks between two collections, 50 s
          MaxClock,    \* last tick of the model
          MaxReports   \* reports the modem sends

VARIABLE s

\* main(): every slot empty, the first collection one period ahead.  query:
\* the listener between its answer and its second critical section; n, the
\* report a slot holds; told: the reports a query has called fresh.
Init == s = [now |-> 0, due |-> Period, gc |-> "run",
             pdn |-> [p \in Pdns |-> [status |-> "empty", n |-> 0, at |-> 0]],
             query |-> {}, n |-> 0, told |-> {}, toldTwice |-> FALSE]

Fresh(t) == {p \in Pdns : t.pdn[p].status = "fresh"}

\* pdn_gc_advance_locked: at or after the deadline all fresh reports become
\* stale and the deadline moves past the present in whole periods.
GcAdvance(t) ==
  IF t.now < t.due THEN t
  ELSE [t EXCEPT !.pdn = [p \in Pdns |-> IF p \in Fresh(t) THEN [@[p] EXCEPT !.status = "stale"] ELSE @[p]],
                 !.due = @ + ((t.now - @) \div Period + 1) * Period]

Signal(t) == [t EXCEPT !.gc = "run"]


PktLossReport(p) ==
  /\ s.n < MaxReports
  /\ s' = Signal([GcAdvance(s) EXCEPT !.n = @ + 1,
                    !.pdn[p] = [status |-> "fresh", n |-> s.n + 1, at |-> s.now]])

\* The listener answers a query with the slot's status; configuring a slot
\* answers nothing of it.
RdsAnswer(p, cmd) ==
  /\ s.query = {}
  /\ LET r == s.pdn[p]
         news == cmd = "query" /\ r.status = "fresh"
     IN s' = [s EXCEPT !.query = {p},
                       !.toldTwice = @ \/ (news /\ r.n \in s.told),
                       !.told = IF news THEN @ \cup {r.n} ELSE @]

\* After the answer, whether or not it could be written.
RdsMark ==
  \E p \in s.query :
    s' = Signal([s EXCEPT !.query = {},
                          !.pdn[p].status = IF @ = "empty" THEN @ ELSE "stale"])

\* One turn of the collector: then it waits, for good or until the deadline.
GcTurn ==
  /\ s.gc = "run"
  /\ LET t == GcAdvance(s)
     IN s' = [t EXCEPT !.gc = IF Fresh(t) = {} THEN "wait" ELSE "timed"]

\* The deadline passes, or the wait ends for no reason.
GcWakes == /\ s.gc = "timed" \/ s.gc = "wait"
           /\ s' = [s EXCEPT !.gc = "run"]

\* The clock waits for a collector that is runnable and whose time has come.
Tick == /\ s.now < MaxClock
        /\ ~(s.now >= s.due /\ s.gc \in {"run", "timed"})
        /\ s' = [s EXCEPT !.now = @ + 1]

Next ==
  \/ \E p \in Pdns : PktLossReport(p)
  \/ \E p \in Pdns, cmd \in {"config", "query"} : RdsAnswer(p, cmd)
  \/ RdsMark \/ GcTurn \/ GcWakes \/ Tick

-----------------------------------------------------------------------------
\* A report is called fresh for at most one period, and to one query only:
\* the collector is awake, or will be at the deadline, whenever something is
\* fresh, although it sleeps without a timeout when nothing is.
FreshWhileNew ==
  /\ \A p \in Fresh(s) : s.now - s.pdn[p].at <= Period
  /\ ~s.toldTwice
=============================================================================
