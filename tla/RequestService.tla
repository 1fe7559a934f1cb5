--------------------------- MODULE RequestService ---------------------------
(***************************************************************************)
(* What the AT engine promises its host, without phases, writes, deadlines *)
(* or quarantine: requests are numbered as they are accepted and served    *)
(* one at a time in that order; each is answered once, with a failure at   *)
(* any time or with Ok only while it is the one being served; an answer    *)
(* given is never changed.                                                 *)
(***************************************************************************)
EXTENDS Naturals

CONSTANTS Ids,      \* the ids requests may get
          Errors    \* the failures

VARIABLES given,    \* the last id handed out
          open,     \* requests not answered yet
          serving,  \* the one being served, 0 for none
          answer    \* what was answered to each

vars == <<given, open, serving, answer>>

Init ==
    /\ given = 0 /\ open = {} /\ serving = 0
    /\ answer = [i \in Ids |-> "none"]

Accept ==
    /\ given + 1 \in Ids
    /\ given' = given + 1 /\ open' = open \cup {given + 1}
    /\ UNCHANGED <<serving, answer>>

\* Some open requests are answered; the served one may be among them, and when
\* none was being served the oldest that stays open may become it.
Turn(done) ==
    /\ done \subseteq open /\ open' = open \ done
    /\ \/ serving' = IF serving \in done THEN 0 ELSE serving
       \/ serving = 0 /\ serving' \in open' /\ \A j \in open' : serving' <= j
    /\ \A i \in Ids : IF i \in done
                      THEN answer'[i] \in Errors \/ (answer'[i] = "Ok" /\ i = serving)
                      ELSE answer'[i] = answer[i]
    /\ UNCHANGED given

Next == Accept \/ \E done \in SUBSET open : Turn(done)

Spec == Init /\ [][Next]_vars

=============================================================================
