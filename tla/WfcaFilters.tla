---------------------------- MODULE WfcaFilters ----------------------------
(***************************************************************************)
(* The Wi-Fi-calling agent's filter and socket tables (wfca/wfca.c).  The  *)
(* modem registers filters; the thread that reads its channel, the thread  *)
(* that takes sockets from applications and the thread that polls them     *)
(* share both tables under g_filters_lock, but use the descriptors they    *)
(* copied from them after they have let the lock go.                       *)
(***************************************************************************)
EXTENDS Integers, Sequences, FiniteSetsExt, SequencesExt

CONSTANTS MAX_FILTERS,  \* slots of either table
          Ids,          \* request ids of the modem, naturals
          Addrs         \* local addresses <<ip, port>>, ip 0 being any

VARIABLE s

Slots == 0 .. MAX_FILTERS - 1
NoFilter == [used |-> FALSE, id |-> 0, sid |-> -1]
NoSocket == [used |-> FALSE, fd |-> -1, filter |-> -1, addr |-> <<0, 0>>]

\* main() and the static tables.  open: descriptors and the address each is
\* bound to; held: the one the listener took from a connection; poll: the
\* polling thread.
Init == s = [filters |-> [i \in Slots |-> NoFilter],
             sockets |-> [i \in Slots |-> NoSocket],
             open |-> <<>>, event |-> FALSE, held |-> -1,
             poll |-> [at |-> "rebuild", set |-> <<>>, ready |-> <<>>]]

\* The first slot that fits, searching from n; -1 for none.
Probe(n, fits) ==
  LET hit == {k \in Slots : (n + k) % MAX_FILTERS \in fits}
  IN IF hit = {} THEN -1 ELSE (n + Min(hit)) % MAX_FILTERS

FindById(t, id) == Probe(id, {i \in Slots : t.filters[i].used /\ t.filters[i].id = id})
FindFree(t, id) == Probe(id, {i \in Slots : ~t.filters[i].used})

\* Two addresses meet when a socket of one receives for the other.
Meets(a, b) == a[2] = b[2] /\ (a[1] = 0 \/ b[1] = 0 \/ a[1] = b[1])
SocketFind(t, a) == Probe(a[2], {i \in Slots : t.sockets[i].used /\ Meets(a, t.sockets[i].addr)})
SocketFindFree(t, a) == Probe(a[2], {i \in Slots : ~t.sockets[i].used})

\* The kernel: the lowest free number, and a descriptor that goes away.
NewFd(t) == CHOOSE n \in 0 .. MAX_FILTERS + 2 :
              n \notin DOMAIN t.open /\ \A k \in 0 .. n - 1 : k \in DOMAIN t.open
Opened(t, fd, a) == [t EXCEPT !.open = @ @@ (fd :> a)]
Closed(t, fd) == [t EXCEPT !.open = [f \in DOMAIN @ \ {fd} |-> @[f]]]

FiltersChanged(t) == [t EXCEPT !.event = TRUE]

\* Every socket of one local address is shared; the slot's earlier socket, if
\* the address moved, stays in the table.  fails: no descriptor to be had.
BindSocket(t, slot, a, fails) ==
  LET found == SocketFind(t, a)
      sid == IF found >= 0 THEN found ELSE SocketFindFree(t, a)
      fd == NewFd(t)
      u == IF found >= 0 THEN t
           ELSE [Opened(t, fd, a) EXCEPT
                   !.sockets[sid] = [used |-> TRUE, fd |-> fd, filter |-> -1, addr |-> a]]
  IN IF slot < 0 \/ (found < 0 /\ (sid < 0 \/ fails)) THEN {}
     ELSE {[u EXCEPT !.sockets[sid].filter = slot, !.filters[slot].sid = sid]}

SocketRelease(t, sid) ==
  IF sid \notin Slots \/ ~t.sockets[sid].used THEN t
  ELSE [Closed(t, t.sockets[sid].fd) EXCEPT !.sockets[sid] = NoSocket]


\* A registration that finds no slot or no socket changes nothing and is not
\* acknowledged; an id that is registered already takes another slot.
FilterRegister(id, a, fails) ==
  LET slot == FindFree(s, id)
  IN \E t \in BindSocket(s, slot, a, fails) :
       s' = FiltersChanged([t EXCEPT !.filters[slot].used = TRUE, !.filters[slot].id = id])

FilterUpdate(id, a, fails) ==
  \E t \in BindSocket(s, FindById(s, id), a, fails) : s' = FiltersChanged(t)

FilterDeregister(id) ==
  LET slot == FindById(s, id)
  IN /\ slot >= 0
     /\ s' = FiltersChanged([SocketRelease(s, s.filters[slot].sid)
                               EXCEPT !.filters[slot] = NoFilter])

Reset ==
  LET fds == {s.sockets[i].fd : i \in {j \in Slots : s.sockets[j].used}}
  IN s' = FiltersChanged([s EXCEPT !.open = [f \in DOMAIN @ \ fds |-> @[f]],
                                   !.sockets = [i \in Slots |-> NoSocket],
                                   !.filters = [i \in Slots |-> NoFilter]])

\* The listener thread: exactly one descriptor per message.
RecvFd(a) == /\ s.held = -1
             /\ LET fd == NewFd(s) IN s' = [Opened(s, fd, a) EXCEPT !.held = fd]

InsertSocket(named) ==
  /\ s.held # -1
  /\ LET a == s.open[s.held]
         sid == SocketFind(s, a)
         free == SocketFindFree(s, a)
         t == [s EXCEPT !.held = -1]
     IN s' = IF ~named \/ (sid < 0 /\ free < 0) THEN Closed(t, s.held)
             ELSE IF sid >= 0
                  THEN FiltersChanged([Closed(t, s.sockets[sid].fd)
                                         EXCEPT !.sockets[sid].fd = s.held])
             ELSE FiltersChanged([t EXCEPT !.sockets[free] =
                    [used |-> TRUE, fd |-> s.held, filter |-> -1, addr |-> a]])

\* The sockets to poll: those that have served a filter.
Pollable(t) ==
  LET serving == {i \in Slots : t.sockets[i].used /\ t.sockets[i].filter >= 0}
  IN {<<t.sockets[i].fd, i>> : i \in serving}

PollRebuild ==
  /\ s.poll.at = "rebuild"
  /\ s' = [s EXCEPT !.event = FALSE,
                    !.poll = [at |-> "poll", set |-> Pollable(s), ready |-> <<>>]]

\* poll() returns: the notification first, otherwise the readable sockets,
\* in the order of the set.
PollReturns(ready) ==
  /\ s.poll.at = "poll"
  /\ s.event \/ (ready # {} /\ ready \subseteq s.poll.set)
  /\ s' = IF s.event THEN [s EXCEPT !.poll.at = "rebuild"]
          ELSE [s EXCEPT !.poll.at = "serve",
                         !.poll.ready = SetToSortSeq(ready, LAMBDA x, y : x[2] < y[2])]

\* recvfrom() on the polled number: nothing there, or a datagram that is then
\* looked up by the slot's index and passed on (WfcaRelay).
PollServe(data) ==
  /\ s.poll.at = "serve"
  /\ s.poll.ready # <<>>
  /\ data => Head(s.poll.ready)[1] \in DOMAIN s.open
  /\ s' = [s EXCEPT !.poll.ready = IF data THEN @ ELSE Tail(@),
                    !.poll.at = IF data THEN "look" ELSE @]

PollLook ==
  /\ s.poll.at = "look"
  /\ s' = [s EXCEPT !.poll.at = "serve", !.poll.ready = Tail(@)]

PollDone == /\ s.poll.at = "serve" /\ s.poll.ready = <<>>
            /\ s' = [s EXCEPT !.poll.at = "poll"]

Next ==
  \/ \E id \in Ids, a \in Addrs, fails \in BOOLEAN :
       FilterRegister(id, a, fails) \/ FilterUpdate(id, a, fails)
  \/ \E id \in Ids : FilterDeregister(id)
  \/ Reset
  \/ \E a \in Addrs : RecvFd(a)
  \/ \E b \in BOOLEAN : InsertSocket(b) \/ PollServe(b)
  \/ PollRebuild \/ PollLook \/ PollDone
  \/ \E ready \in SUBSET s.poll.set : PollReturns(ready)

-----------------------------------------------------------------------------
\* The polling thread never sleeps on, or attributes a datagram by, a set the
\* tables have left behind: while no notification is pending, the set it
\* polls is exactly the sockets that serve filters (wfc_filter_poll_thread
\* reads the event under the lock that every change holds).
PollSetCurrent ==
  s.poll.at # "rebuild" /\ ~s.event => s.poll.set = Pollable(s)

\* Every descriptor is in one slot of the table, or with the listener, and
\* every used slot has an open one of its own: none leaks, none is closed
\* twice, whatever is registered, moved, replaced and reset.
FdsAccounted ==
  LET used == {i \in Slots : s.sockets[i].used}
      inTable == {s.sockets[i].fd : i \in used}
  IN /\ DOMAIN s.open = inTable \cup ({s.held} \ {-1})
     /\ Cardinality(inTable) = Cardinality(used)
     /\ s.held \notin inTable

=============================================================================
