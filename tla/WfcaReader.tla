---------------------------- MODULE WfcaReader -----------------------------
(***************************************************************************)
(* How the Wi-Fi-calling agent cuts the modem's byte stream into messages  *)
(* (imsa_reader_drain of wfca/wfca.c): header, fixed body, and for two     *)
(* types an extension whose length is in the body.  The parser's state     *)
(* lasts from one wake-up to the next, so a message may come in any number *)
(* of reads.  Lengths are counted in units of the model.                   *)
(***************************************************************************)
EXTENDS Integers, Sequences

CONSTANTS Types,     \* message types, each known or not
          Extras,    \* lengths of an extension
          Room,      \* what a frame holds beyond header and fixed body
          MaxFrames  \* messages in the stream

VARIABLE s

HDR == 2
Fixed(type) == IF type \in {"reset", "unknown"} THEN 0 ELSE 1
Extended(type) == type = "send"
Known(type) == type # "unknown"

\* unread: the messages the channel still has to deliver, the first of them
\* short of `gone' units; have, need, stage and discard are the parser's
\* static variables; first, the message whose header is in the frame.
Init == s = [unread |-> <<>>, gone |-> 0, fed |-> 0, have |-> 0, need |-> HDR, stage |-> 0,
             discard |-> 0, first |-> [type |-> "none"], out |-> <<>>, sent |-> <<>>, awake |-> FALSE]

Size(f) == HDR + Fixed(f.type) + (IF Extended(f.type) THEN f.extra ELSE 0)
Begin(t) == [t EXCEPT !.have = 0, !.need = HDR, !.stage = 0, !.discard = 0]

\* The modem sends one more message; one of a type the agent does not know is
\* a bare header, since nothing says how long it would be.
ModemSends(f) ==
  /\ s.fed < MaxFrames
  /\ s' = [s EXCEPT !.unread = Append(@, f), !.fed = @ + 1, !.sent = Append(@, f)]

\* imsa_reader_thread: poll() returns and the wake lock is held for a drain.
Wakes == /\ ~s.awake /\ s.unread # <<>>
         /\ s' = [s EXCEPT !.awake = TRUE]

\* Dispatch to the handler, and the parser starts afresh.
Dispatch(t) == [Begin(t) EXCEPT !.out = Append(@, t.first)]

\* Stage 2: an extension that does not fit is thrown away with its message.
Extension(t) ==
  LET extra == t.first.extra
      u == [t EXCEPT !.stage = 2, !.need = @ + extra]
  IN IF extra > Room THEN [t EXCEPT !.stage = 2, !.discard = extra]
     ELSE IF u.have = u.need THEN Dispatch(u) ELSE u

Body(t) == IF Extended(t.first.type) /\ t.stage = 1 THEN Extension(t) ELSE Dispatch(t)

\* A complete part: the header's, the body's or the extension's.
Complete(t) ==
  IF t.stage > 0 THEN Body(t)
  ELSE LET u == [t EXCEPT !.stage = 1, !.need = @ + Fixed(t.first.type)]
       IN IF ~Known(t.first.type) THEN [t EXCEPT !.have = 0, !.awake = FALSE]
          ELSE IF u.have = u.need THEN Body(u) ELSE u

\* The channel gives up n units of its first message.
Consumed(t, n) ==
  LET f == Head(t.unread)
  IN IF t.gone + n = Size(f) THEN [t EXCEPT !.unread = Tail(@), !.gone = 0]
     ELSE [t EXCEPT !.gone = @ + n]

\* One read() of the drain loop: it asks for what the part, or the rest of
\* what is to be discarded, still lacks and may get less.
Read(n) ==
  /\ s.awake /\ s.unread # <<>>
  /\ LET f == Head(s.unread)
         want == IF s.discard > 0 THEN s.discard ELSE s.need - s.have
         t == [Consumed(s, n) EXCEPT !.first = IF s.have = 0 THEN f ELSE @]
         got == [t EXCEPT !.have = @ + n]
     IN /\ n <= want /\ s.gone + n <= Size(f)
        /\ s' = IF s.discard > n THEN [t EXCEPT !.discard = @ - n]
                ELSE IF s.discard > 0 THEN Begin(t)
                ELSE IF got.have # got.need THEN got ELSE Complete(got)

\* Nothing more to read (EAGAIN), or the channel ended: then the parser, and
\* whatever was on its way, start afresh.
ReadEnds(eof) ==
  /\ s.awake /\ (eof \/ s.unread = <<>>)
  /\ s' = [IF eof THEN [Begin(s) EXCEPT !.unread = <<>>, !.gone = 0, !.sent = <<>>, !.out = <<>>,
                                        !.first = [type |-> "none"]]
           ELSE s EXCEPT !.awake = FALSE]

Next ==
  \/ \E type \in Types, extra \in Extras :
       (Extended(type) \/ extra = 0) /\ ModemSends([type |-> type, extra |-> extra])
  \/ Wakes
  \/ \E n \in 1 .. 3 : Read(n)
  \/ \E eof \in BOOLEAN : ReadEnds(eof)

-----------------------------------------------------------------------------
\* What the modem sent is what the handlers get, message by message and in
\* order, however the stream is cut into reads; only a message too large for
\* the frame, or unknown, is left out, and it takes no other with it.
FramesExact ==
  LET fits(f) == Known(f.type) /\ (Extended(f.type) => f.extra <= Room)
      arrived == SubSeq(s.sent, 1, Len(s.sent) - Len(s.unread))
      whole == SelectSeq(arrived, fits)
  IN /\ s.out = whole
     /\ s.unread = <<>> => s.have = 0 /\ s.discard = 0
=============================================================================
