--------------------------- MODULE StreamParsers ---------------------------
(***************************************************************************)
(* The parsers of encoded streams (codec2/common).  First the units        *)
(* (NalParser.cpp, EncodeHelpers.cpp and the type tests of H264NalParser   *)
(* .cpp and HEVCNalParser.cpp): a scan for start codes that the encoder's  *)
(* header extraction and the decoder's search run over; a step is one turn *)
(* of a loop.                                                              *)
(*                                                                         *)
(* Then the colour description of a sequence parameter set, which          *)
(* H264NalParser.cpp and HEVCNalParser.cpp dig out by skipping everything  *)
(* before it.  A parse is the list of its reads, in order: a number of     *)
(* bits, or of exponential Golomb codes below zero, and a name for a value *)
(* that steers it, in sections.  It is compared with the syntax of the     *)
(* standards, for whole parameter sets within their limits.                *)
(***************************************************************************)
EXTENDS Integers, Sequences, FiniteSets, SequencesExt, FiniteSetsExt

CONSTANTS Units,     \* units as sequences of bytes
          MaxUnits,  \* units in a stream
          Room       \* bytes of the buffer prependSPSPPSToIDR writes to

VARIABLE s

\* The type tests, and the types each job looks for.
H264Type(b) == b % 32
HEVCType(b) == (b % 128) \div 2
Kind(hevc, b) ==
  LET t == IF hevc THEN HEVCType(b) ELSE H264Type(b)
  IN CASE hevc /\ t = 32 -> "vps" [] t = (IF hevc THEN 33 ELSE 7) -> "sps" [] t = (IF hevc THEN 34 ELSE 8) -> "pps"
       [] t = (IF hevc THEN 19 ELSE 5) -> "idr" [] OTHER -> "other"

\* The position of the next start code from p on, or the end.
FindNextStartCodePos(d, p) ==
  LET at == {i \in p .. Len(d) - 2 : SubSeq(d, i, i + 2) = <<0, 0, 1>>}
  IN IF at = {} THEN Len(d) + 1 ELSE Min(at)

\* External: a stream, its units behind start codes of three or four bytes.
Coded(units, long) ==
  FlattenSeq([i \in DOMAIN units |-> (IF i \in long THEN <<0, 0, 0, 1>> ELSE <<0, 0, 1>>) \o units[i]])

UnitJobs == {"csd", "csd_hevc", "sps", "sps_hevc", "idr", "idr_hevc", "prepend"}

\* units, the truth; got, the units located; kept, the parameter sets at hand, left
\* from an earlier buffer for prependSPSPPSToIDR; out, units written; left, room.
UnitsInit ==
  \E n \in 0 .. MaxUnits, job \in UnitJobs :
    \E units \in [1 .. n -> Units], long \in SUBSET (1 .. n), old \in {<<>>, <<7, 3>>} :
      LET d == Coded(units, long)
      IN s = [job |-> job, units |-> units, data |-> d, pos |-> 1, next |-> FindNextStartCodePos(d, 1), got |-> <<>>,
              kept |-> [k \in {"vps", "sps", "pps"} |-> IF job # "prepend" THEN <<>> ELSE IF k = "pps" /\ old # <<>> THEN <<8, 3>> ELSE old],
              found |-> {}, out |-> <<>>, left |-> Room, result |-> "running"]

Length(t) ==
  IF t.next = Len(t.data) + 1 THEN t.next - t.pos
  ELSE IF t.data[t.next - 1] = 0 THEN t.next - t.pos - 1 ELSE t.next - t.pos

LocateNextNal(t) ==
  LET u == [t EXCEPT !.pos = t.next + 3, !.next = FindNextStartCodePos(t.data, t.next + 3)]
  IN [u EXCEPT !.got = Append(@, SubSeq(u.data, u.pos, u.pos + Length(u) - 1))]
More(t) == t.next # Len(t.data) + 1

Keep(t, k) == [t EXCEPT !.kept[k] = Last(t.got), !.found = @ \cup {k}]

\* A turn of the loops that run until one of each kind was seen.
Extracted(t, hevc, needed) ==
  LET u == LocateNextNal(t)
      k == Kind(hevc, Last(u.got)[1])
      whole == needed \subseteq t.found
  IN IF whole \/ ~More(t) THEN [t EXCEPT !.result = IF whole THEN "ok" ELSE "no"]
     ELSE IF k \in needed THEN Keep(u, k) ELSE u

ExtractCSDInfo == s.job = "csd" /\ s.result = "running" /\ s' = Extracted(s, FALSE, {"sps", "pps"})
ExtractCSDInfoHevc == s.job = "csd_hevc" /\ s.result = "running" /\ s' = Extracted(s, TRUE, {"vps", "sps", "pps"})

\* locateSPS and locateIDR: units of no bytes are passed over.
Located(t, hevc, kind) ==
  LET u == LocateNextNal(t)
  IN IF ~More(t) THEN [t EXCEPT !.result = "no"]
     ELSE IF Length(u) > 0 /\ Kind(hevc, Last(u.got)[1]) = kind THEN [u EXCEPT !.result = "ok"] ELSE u

LocateSPS == s.job = "sps" /\ s.result = "running" /\ s' = Located(s, FALSE, "sps")
LocateSPSHevc == s.job = "sps_hevc" /\ s.result = "running" /\ s' = Located(s, TRUE, "sps")
LocateIDR == s.job = "idr" /\ s.result = "running" /\ s' = Located(s, FALSE, "idr")
LocateIDRHevc == s.job = "idr_hevc" /\ s.result = "running" /\ s' = Located(s, TRUE, "idr")

\* copyNALUPrependingStartCode.
Fits(t, u) == Len(u) + 4 <= t.left
Copy(t, u) == [t EXCEPT !.out = Append(@, u), !.left = @ - Len(u) - 4]

Inject(t, k) == k = "idr" /\ t.found = {}

\* prependSPSPPSToIDR: the headers kept go in front of a first slice that comes
\* without any.
PrependSPSPPSToIDR ==
  LET t == LocateNextNal(s)
      u == Last(t.got)
      k == Kind(FALSE, u[1])
      known == IF k \in {"sps", "pps"} THEN Keep(t, k) ELSE t
      headed == Copy(Copy(known, t.kept["sps"]), t.kept["pps"])
      fits == t.kept["sps"] # <<>> /\ t.kept["pps"] # <<>> /\ Fits(known, t.kept["sps"])
              /\ Fits(Copy(known, t.kept["sps"]), t.kept["pps"])
      ready == IF Inject(t, k) THEN headed ELSE known
  IN /\ s.job = "prepend" /\ s.result = "running"
     /\ s' = IF ~More(s) THEN [s EXCEPT !.result = "ok"]
             ELSE IF (Inject(t, k) /\ ~fits) \/ ~Fits(ready, u) THEN [known EXCEPT !.result = "no"]
             ELSE Copy(ready, u)

-----------------------------------------------------------------------------
Bits(n) == <<n, "">>
Flag(x) == <<1, x>>
Golomb == <<-1, "">>
GolombTo(x) == <<-1, x>>
Golombs(n) == IF n = 0 THEN <<>> ELSE <<<<-n, "">>>>
When(c, reads) == IF c THEN reads ELSE <<>>
All(seqs) == FlattenSeq(seqs)

-----------------------------------------------------------------------------
\* H.264.

HighProfiles == {44, 83, 86, 100, 110, 118, 122, 128, 244}

\* skipScalingList: a code for each scale up to one of zero, which comes at end.
SkipScalingList(size, end) == Golombs(IF end < size THEN end ELSE size)

SkipScalingMatrix(lists, end) ==
  All([i \in DOMAIN lists |-> <<Flag("list")>> \o When(lists[i], SkipScalingList(IF i <= 6 THEN 16 ELSE 64, end))])


HighPart(v) ==
  <<GolombTo("chroma")>> \o When(v.chroma = 3, <<Bits(1)>>) \o <<Golomb, Golomb, Bits(1), Flag("matrix")>>
  \o When(v.matrix, SkipScalingMatrix(SubSeq(v.lists, 1, IF v.chroma # 3 THEN 8 ELSE 12), v.end))

OrderCount(v) ==
  <<Golomb, GolombTo("poc")>> \o When(v.poc = 0, <<Golomb>>)
  \o When(v.poc = 1, <<Bits(1), Golomb, Golomb, GolombTo("refs")>> \o Golombs(v.refs))

\* The usability information, the same code in both parsers.
Vui(v) ==
  <<Flag("vui")>>
  \o When(v.vui, <<Flag("aspect")>> \o When(v.aspect # 0, <<<<8, "idc">>>> \o When(v.aspect = 255, <<Bits(32)>>))
                 \o <<Flag("overscan")>> \o When(v.overscan, <<Bits(1)>>) \o <<Flag("signal")>>
                 \o When(v.signal, <<Bits(3), Flag("range"), Flag("colour")>>
                                   \o When(v.colour, <<<<8, "primaries">>, <<8, "transfer">>, <<8, "coeffs">>>>)))

FindCodedColorAspects264(v) ==
  <<<<<<8, "profile">>, Bits(16), Golomb>> \o When(v.profile \in HighProfiles, HighPart(v)),
    OrderCount(v) \o <<Golomb, Bits(1), Golomb, Golomb, Flag("mbs")>> \o When(~v.mbs, <<Bits(1)>>)
    \o <<Bits(1), Flag("crop")>> \o When(v.crop, Golombs(4)),
    Vui(v)>>

-----------------------------------------------------------------------------
\* HEVC.

SkipProfileTierLevel(v) ==
  <<Bits(96)>> \o All([i \in DOMAIN v.layers |-> <<Flag("p"), Flag("l")>>])
  \o When(Len(v.layers) > 0, <<Bits(2 * (8 - Len(v.layers)))>>)
  \o All([i \in DOMAIN v.layers |-> When(v.layers[i][1], <<Bits(88)>>) \o When(v.layers[i][2], <<Bits(8)>>)])

\* skipScalingListData; coded says which lists are there in full.
SkipScalingListData(coded) ==
  All([size \in 1 .. 4 |->
        All([k \in 1 .. (IF size = 4 THEN 2 ELSE 6) |->
              <<Flag("pred")>>
              \o IF <<size - 1, k>> \notin coded THEN <<Golomb>>
                 ELSE When(size - 1 > 1, <<Golomb>>) \o Golombs(IF size = 1 THEN 16 ELSE 64)])])

\* A reference picture set as the parser keeps it: its distances before (s0) and
\* after (s1).  x is how the set is coded: by itself, or from the one before with a
\* distance and, for each of its members and itself, a use flag.
Sums(ps, d) == [i \in DOMAIN ps |-> ps[i] + d]
Pick(ds, use, side) == LET is == SelectSeq([i \in DOMAIN ds |-> i], LAMBDA i : ds[i] * side > 0 /\ use[i])
                       IN [k \in DOMAIN is |-> ds[is[k]]]

Predicted(ref, x) ==
  LET n == Len(ref.s0)
      neg == SubSeq(x.use, 1, n)
      pos == SubSeq(x.use, n + 1, n + Len(ref.s1))
      own == x.use[n + Len(ref.s1) + 1]
      below == -1
      above == 1
  IN [s0 |-> Pick(Reverse(Sums(ref.s1, x.delta)), Reverse(pos), below) \o When(x.delta < 0 /\ own, <<x.delta>>)
             \o Pick(Sums(ref.s0, x.delta), neg, below),
      s1 |-> Pick(Reverse(Sums(ref.s0, x.delta)), Reverse(neg), above) \o When(x.delta > 0 /\ own, <<x.delta>>)
             \o Pick(Sums(ref.s1, x.delta), pos, above)]

\* Distances are coded as steps less one.
Steps(ds, sign) == [i \in DOMAIN ds |-> sign * FoldLeft(LAMBDA a, b : a + b, 0, SubSeq(ds, 1, i))]

StRefPicSet(x, ref) ==
  IF x.pred THEN Predicted(ref, x) ELSE [s0 |-> Steps(x.before, -1), s1 |-> Steps(x.after, 1)]

StRefPicSetReads(i, x, ref) ==
  When(i # 1, <<Flag("pred")>>)
  \o IF x.pred THEN <<Flag("sign"), GolombTo("delta")>>
                    \o All([j \in 1 .. Len(ref.s0) + Len(ref.s1) + 1 |-> <<Flag("used")>> \o When(~x.used[j], <<Flag("use")>>)])
     ELSE <<GolombTo("negative"), GolombTo("positive")>>
          \o All([j \in 1 .. Len(x.before) + Len(x.after) |-> <<Golomb, Bits(1)>>])

\* The sets in order, each kept for the next.
RefPicSets(xs) ==
  LET set[i \in 0 .. Len(xs)] == IF i = 0 THEN [s0 |-> <<>>, s1 |-> <<>>] ELSE StRefPicSet(xs[i], set[i - 1])
  IN set
SkipStRefPicSets(xs) == [i \in DOMAIN xs |-> StRefPicSetReads(i, xs[i], RefPicSets(xs)[i - 1])]

FindCodedColorAspectsHevc(v) ==
  <<<<Bits(4), <<3, "layers">>, Bits(1)>> \o SkipProfileTierLevel(v),
    <<Golomb, GolombTo("chroma")>> \o When(v.chroma = 3, <<Bits(1)>>) \o <<Golomb, Golomb, Flag("crop")>> \o When(v.crop, Golombs(4))
    \o <<Golomb, Golomb, GolombTo("lsb"), Flag("ordering")>> \o Golombs(IF v.ordering THEN 3 * (Len(v.layers) + 1) ELSE 3) \o Golombs(6),
    <<Flag("scaling")>> \o When(v.scaling, <<Flag("data")>> \o When(v.data, SkipScalingListData(v.coded))),
    <<Bits(2), Flag("pcm")>> \o When(v.pcm, <<Bits(8), Golomb, Golomb, Bits(1)>>) \o <<GolombTo("sets")>>>>
  \o SkipStRefPicSets(v.sets)
  \o <<<<Flag("longterm")>>
       \o When(v.longterm, <<GolombTo("longs")>> \o All([i \in 1 .. v.longs |-> <<Bits(v.lsb + 4), Flag("unused")>>]))
       \o <<Bits(2)>>,
       Vui(v)>>

-----------------------------------------------------------------------------
\* External: the syntax of the standards, field by field, up to the colour
\* description (ITU-T H.264 7.3.2.1.1 and E.1.1, H.265 7.3.2.2, 7.3.3, 7.3.4, 7.3.7, E.2.1).
Total(ds, j) == MapThenSumSet(LAMBDA i : ds[i], 1 .. j)
Ue == Golomb
U1 == Bits(1)
Plain(n) == [i \in 1 .. n |-> U1]

VuiSyntax(v) ==
  <<Flag("vui")>>
  \o IF ~v.vui THEN <<>>
     ELSE <<Flag("aspect")>>
          \o (CASE v.aspect = 0 -> <<>> [] v.aspect = 255 -> <<<<8, "idc">>, Bits(16), Bits(16)>> [] OTHER -> <<<<8, "idc">>>>)
          \o <<Flag("overscan")>> \o Plain(IF v.overscan THEN 1 ELSE 0) \o <<Flag("signal")>>
          \o IF ~v.signal THEN <<>>
             ELSE <<Bits(3), Flag("range"), Flag("colour")>>
                  \o IF v.colour THEN <<<<8, "primaries">>, <<8, "transfer">>, <<8, "coeffs">>>> ELSE <<>>

Syntax264(v) ==
  <<<<<<8, "profile">>>> \o Plain(8) \o <<Bits(8), Ue>>
  \o (IF v.profile \notin {44, 83, 86, 100, 110, 118, 122, 128, 244} THEN <<>>
      ELSE <<GolombTo("chroma")>> \o Plain(IF v.chroma = 3 THEN 1 ELSE 0) \o <<Ue, Ue, U1, Flag("matrix")>>
           \o IF ~v.matrix THEN <<>>
              ELSE All([i \in 1 .. (IF v.chroma = 3 THEN 12 ELSE 8) |->
                         <<Flag("list")>> \o IF v.lists[i] THEN Golombs(Min({v.end, IF i > 6 THEN 64 ELSE 16})) ELSE <<>>])),
  <<Ue, GolombTo("poc")>>
  \o (CASE v.poc = 0 -> <<Ue>> [] v.poc = 1 -> <<U1, Ue, Ue, GolombTo("refs")>> \o Golombs(v.refs) [] OTHER -> <<>>)
  \o <<Ue, U1, Ue, Ue, Flag("mbs")>> \o Plain(IF v.mbs THEN 1 ELSE 2) \o <<Flag("crop")>>
  \o (IF v.crop THEN <<Ue, Ue, Ue, Ue>> ELSE <<>>), VuiSyntax(v)>>

\* A predicted set: the distances of the former and the picture itself, moved.
Moved(ref, x) ==
  LET from == ref.s0 \o ref.s1 \o <<0>>
      all == {from[j] + x.delta : j \in {i \in DOMAIN from : x.use[i]}}
  IN [s0 |-> SetToSortSeq({d \in all : d < 0}, LAMBDA a, b : a > b), s1 |-> SetToSortSeq({d \in all : d > 0}, LAMBDA a, b : a < b)]
SetsSyntax(xs) ==
  LET set[i \in 0 .. Len(xs)] == IF i = 0 THEN [s0 |-> <<>>, s1 |-> <<>>]
                                 ELSE IF xs[i].pred THEN Moved(set[i - 1], xs[i])
                                 ELSE [s0 |-> [j \in DOMAIN xs[i].before |-> -Total(xs[i].before, j)],
                                       s1 |-> [j \in DOMAIN xs[i].after |-> Total(xs[i].after, j)]]
  IN set

SyntaxHevc(v) ==
  LET n == Len(v.layers)
      sets == SetsSyntax(v.sets)
      layer(x) == (IF x[1] THEN <<Bits(2), U1, Bits(5), Bits(32), Bits(48)>> ELSE <<>>) \o IF x[2] THEN <<Bits(8)>> ELSE <<>>
      coef(size, k) == IF <<size, k>> \notin v.coded THEN <<Ue>>
                       ELSE Golombs((IF size > 1 THEN 1 ELSE 0) + Min({64, 2 ^ (4 + 2 * size)}))
      set(i) == (IF i = 1 THEN <<>> ELSE <<Flag("pred")>>)
                \o IF v.sets[i].pred
                   THEN <<Flag("sign"), GolombTo("delta")>>
                        \o All([j \in 1 .. Len(sets[i - 1].s0 \o sets[i - 1].s1) + 1 |->
                                  IF v.sets[i].used[j] THEN <<Flag("used")>> ELSE <<Flag("used"), Flag("use")>>])
                   ELSE <<GolombTo("negative"), GolombTo("positive")>> \o All([j \in DOMAIN (v.sets[i].before \o v.sets[i].after) |-> <<Ue, U1>>])
  IN <<<<Bits(4), <<3, "layers">>, U1>> \o layer(<<TRUE, TRUE>>) \o All([i \in 1 .. n |-> <<Flag("p"), Flag("l")>>])
       \o (IF n = 0 THEN <<>> ELSE [i \in 1 .. 8 - n |-> Bits(2)]) \o All([i \in 1 .. n |-> layer(v.layers[i])]),
       <<Ue, GolombTo("chroma")>> \o Plain(IF v.chroma = 3 THEN 1 ELSE 0) \o <<Ue, Ue, Flag("crop")>>
       \o (IF v.crop THEN <<Ue, Ue, Ue, Ue>> ELSE <<>>) \o <<Ue, Ue, GolombTo("lsb"), Flag("ordering")>>
       \o All([i \in 1 .. (IF v.ordering THEN n + 1 ELSE 1) |-> <<Ue, Ue, Ue>>]) \o <<Ue, Ue, Ue, Ue, Ue, Ue>>,
       CASE ~v.scaling -> <<Flag("scaling")>> [] v.scaling /\ ~v.data -> <<Flag("scaling"), Flag("data")>>
         [] OTHER -> <<Flag("scaling"), Flag("data")>> \o All([q \in 1 .. 20 |-> <<Flag("pred")>> \o
                       IF q > 18 THEN coef(3, q - 18) ELSE coef((q - 1) \div 6, ((q - 1) % 6) + 1)]),
       <<U1, U1, Flag("pcm")>> \o (IF v.pcm THEN <<Bits(4), Bits(4), Ue, Ue, U1>> ELSE <<>>) \o <<GolombTo("sets")>>>>
     \o [i \in DOMAIN v.sets |-> set(i)]
     \o <<<<Flag("longterm")>>
          \o (IF v.longterm THEN <<GolombTo("longs")>> \o All([i \in 1 .. v.longs |-> <<Bits(v.lsb + 4), Flag("unused")>>]) ELSE <<>>)
          \o <<U1, U1>>,
          VuiSyntax(v)>>

-----------------------------------------------------------------------------
\* Parameter sets to parse: the fields vary in groups.
Ordinary264 == [profile |-> 66, chroma |-> 1, matrix |-> FALSE, lists |-> [i \in 1 .. 12 |-> FALSE], end |-> 64,
                poc |-> 0, refs |-> 0, mbs |-> TRUE, crop |-> FALSE, vui |-> TRUE, aspect |-> 0, overscan |-> FALSE, signal |-> TRUE, colour |-> TRUE]
OrdinaryHevc == [layers |-> <<>>, chroma |-> 1, crop |-> FALSE, lsb |-> 0, ordering |-> FALSE, scaling |-> FALSE, data |-> FALSE, coded |-> {},
                 pcm |-> FALSE, sets |-> <<>>, longterm |-> FALSE, longs |-> 0,
                 vui |-> TRUE, aspect |-> 0, overscan |-> FALSE, signal |-> TRUE, colour |-> TRUE]
WithVui(v) ==
  {[v EXCEPT !.vui = a, !.aspect = b, !.overscan = c, !.signal = d, !.colour = e] :
     a \in BOOLEAN, b \in {0, 1, 255}, c \in BOOLEAN, d \in BOOLEAN, e \in BOOLEAN}
Head264 ==
  {[Ordinary264 EXCEPT !.profile = a, !.chroma = b, !.matrix = c, !.lists = [i \in 1 .. 12 |-> i % d = 0], !.end = e] :
     a \in {66, 100}, b \in {1, 3}, c \in BOOLEAN, d \in {1, 2, 13}, e \in {3, 20, 64}}
Tail264 ==
  {[Ordinary264 EXCEPT !.poc = a, !.refs = b, !.mbs = c, !.crop = d] : a \in 0 .. 2, b \in {0, 2}, c \in BOOLEAN, d \in BOOLEAN}
HeadHevc ==
  {[OrdinaryHevc EXCEPT !.layers = a, !.chroma = b, !.crop = c, !.ordering = d] :
     a \in {<<>>, <<<<TRUE, FALSE>>>>, <<<<FALSE, TRUE>>, <<TRUE, TRUE>>>>, [i \in 1 .. 6 |-> <<TRUE, TRUE>>]},
     b \in {1, 3}, c \in BOOLEAN, d \in BOOLEAN}
TailHevc ==
  {[OrdinaryHevc EXCEPT !.scaling = a, !.data = b, !.coded = c, !.pcm = d, !.longterm = e, !.longs = f, !.lsb = g] :
     a \in BOOLEAN, b \in BOOLEAN, c \in {{}, {<<0, 1>>, <<2, 3>>}, (0 .. 3) \X (1 .. 6)}, d \in BOOLEAN, e \in BOOLEAN, f \in {0, 2}, g \in {0, 12}}
Alone(b, a) == [pred |-> FALSE, before |-> b, after |-> a]
From(d, code) == [pred |-> TRUE, delta |-> d, used |-> [j \in DOMAIN code |-> code[j] = 2], use |-> [j \in DOMAIN code |-> code[j] > 0]]
SetsHevc ==
  UNION {LET pair == <<Alone(b, a), From(d, code)>>
             two == SetsSyntax(pair)[2]
         IN {[OrdinaryHevc EXCEPT !.sets = Append(pair, From(1, [j \in 1 .. Len(two.s0 \o two.s1) + 1 |-> 2]))]} :
           <<b, a, d, code>> \in UNION {{b} \X {a} \X {-2, -1, 1, 2} \X [1 .. Len(a) + Len(b) + 1 -> 0 .. 2] :
                                        b \in {<<>>, <<1>>, <<1, 2>>}, a \in {<<>>, <<2>>, <<1, 1>>}}}

ColoursInit ==
  \/ \E v \in Head264 \cup Tail264 \cup WithVui(Ordinary264) : s = [job |-> "colours", v |-> v, reads |-> <<>>]
  \/ \E v \in HeadHevc \cup TailHevc \cup SetsHevc \cup WithVui(OrdinaryHevc) : s = [job |-> "colours_hevc", v |-> v, reads |-> <<>>]

Parse264 == s.job = "colours" /\ s.reads = <<>> /\ s' = [s EXCEPT !.reads = FindCodedColorAspects264(s.v)]
ParseHevc == s.job = "colours_hevc" /\ s.reads = <<>> /\ s' = [s EXCEPT !.reads = FindCodedColorAspectsHevc(s.v)]

-----------------------------------------------------------------------------
Init == UnitsInit \/ ColoursInit

Next ==
  \/ ExtractCSDInfo \/ ExtractCSDInfoHevc \/ LocateSPS \/ LocateSPSHevc
  \/ LocateIDR \/ LocateIDRHevc \/ PrependSPSPPSToIDR \/ Parse264 \/ ParseHevc

-----------------------------------------------------------------------------
\* The scan finds the units of the stream and nothing else, whichever start codes
\* they have; the header data handed to the framework is the stream's latest of each
\* when the set was complete; and a buffer with headers in front keeps every unit in
\* order and has headers before the first slice that came without.
UnitsFound ==
  s.job \in UnitJobs =>
  LET hevc == s.job \in {"csd_hevc", "sps_hevc", "idr_hevc"}
      needed == IF hevc THEN {"vps", "sps", "pps"} ELSE {"sps", "pps"}
      kinds == [i \in DOMAIN s.units |-> Kind(hevc, s.units[i][1])]
      latest(k) == s.got[Max({i \in DOMAIN s.got : kinds[i] = k})]
      written == SelectSeq(s.out, LAMBDA u : u \in Range(s.units))
  IN /\ IsPrefix(s.got, s.units)
     /\ s.job \in {"csd", "csd_hevc"} /\ s.result # "running" =>
          /\ (s.result = "ok") = (needed \subseteq {kinds[i] : i \in DOMAIN s.units})
          /\ s.result = "ok" => \A k \in needed : s.kept[k] = latest(k)
     /\ s.job \in {"sps", "sps_hevc", "idr", "idr_hevc"} /\ s.result # "running" =>
          (s.result = "ok") = (\E i \in DOMAIN kinds : kinds[i] = IF s.job \in {"sps", "sps_hevc"} THEN "sps" ELSE "idr")
     /\ s.job = "prepend" /\ s.result = "ok" =>
          /\ written = s.units
          /\ \A i \in DOMAIN s.out : Kind(FALSE, s.out[i][1]) = "idr" =>
               \E j \in 1 .. i - 1 : Kind(FALSE, s.out[j][1]) \in {"sps", "pps"}
          /\ (\E i \in DOMAIN kinds : kinds[i] \in {"sps", "pps"} /\ \A j \in 1 .. i : kinds[j] # "idr") => s.out = s.units

\* Where the named values and the codes are.
Layout(reads) ==
  LET size(i) == IF reads[i][1] < 0 THEN -reads[i][1] ELSE reads[i][1]
      at[i \in 1 .. Len(reads) + 1] == IF i = 1 THEN 0 ELSE at[i - 1] + size(i - 1)
  IN [named |-> {<<at[i], reads[i][2]>> : i \in {j \in DOMAIN reads : reads[j][2] # ""}},
      codes |-> UNION {at[i] + 1 .. at[i] + size(i) : i \in {j \in DOMAIN reads : reads[j][1] < 0}},
      length |-> at[Len(reads) + 1]]

\* The parser stays in step with the stream: on every parameter set it reads each
\* value that steers it, and the colour description, exactly where the standard puts
\* them; a skip one bit off would hand wrong colours to the display.
ColoursInStep ==
  s.job \notin UnitJobs =>
  LET syntax == IF s.job = "colours_hevc" THEN SyntaxHevc(s.v) ELSE Syntax264(s.v)
  IN s.reads # <<>> => Len(s.reads) = Len(syntax) /\ \A i \in DOMAIN s.reads : Layout(s.reads[i]) = Layout(syntax[i])
=============================================================================
