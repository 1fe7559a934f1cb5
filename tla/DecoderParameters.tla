-------------------------- MODULE DecoderParameters --------------------------
(***************************************************************************)
(* The parameters of the video decoder: the interface built from what the  *)
(* device reports (DecodeInterface), the settings a client makes, and the  *)
(* colour description of the stream, which the decoder thread finds in the *)
(* codec data, merges with the client's defaults and attaches to the       *)
(* frames (DecodeComponent).  Profiles and levels are numbered in the order *)
(* of the lists; one colour aspect stands for the four, which are treated  *)
(* alike: 0 is unspecified, Other the last known.                          *)
(***************************************************************************)
EXTENDS Integers, Sequences, FiniteSets, FiniteSetsExt

CONSTANTS Codecs,    \* of the codecs of ProfilesOf
          Devices,   \* what a device reports: profiles, default, levels, default, size
          Sizes, Inputs,  \* picture and input buffer sizes a client sets
          Aspects,   \* values of the colour aspect
          MaxWorks,  \* works queued in a session
          MaxStarts

VARIABLE s

Other == 3
None == 0 - 1
Frame == 0 - 2
Plain == 0 - 3
UNUSED == 0
Area1080p == 1920 * 1088
BufferFor1080p == 16 * 1024 * 1024
BufferFor4K == 4 * BufferFor1080p

Least(a, b) == IF a < b THEN a ELSE b

-----------------------------------------------------------------------------
\* The profiles and levels assumed when the device reports none.
ProfilesOf ==
  [H264 |-> 1..4, VP8 |-> {1}, VP9 |-> {1}, HEVC |-> {1}, AV1 |-> {1}, MPEG4 |-> {1, 2}, H263 |-> {1}]

LevelsOf ==
  [H264 |-> 1..17, VP8 |-> {UNUSED}, VP9 |-> 1..9, HEVC |-> 1..13, AV1 |-> 1..24, MPEG4 |-> 1..7, H263 |-> 1..8]

Profiles(codec, d) == IF d.profiles = {} THEN ProfilesOf[codec] ELSE d.profiles
LevelList(codec, d) == IF d.levels = {} THEN LevelsOf[codec] ELSE d.levels

\* The default the device names, else the least.
Default(reported, offered) == IF reported = UNUSED THEN Min(offered) ELSE reported

\* is10BitProfile: HEVC main 10, VP9 profiles 2 and 3.
Is10BitProfile(codec, p) == (codec = "HEVC" /\ p = 2) \/ (codec = "VP9" /\ p \in {3, 4})

\* The profile and level parameter; constant for VP8.
ProfileLevel(codec, d) ==
  IF codec = "VP8" THEN <<UNUSED, UNUSED>>
  ELSE <<Default(d.profile, Profiles(codec, d)), Default(d.level, LevelList(codec, d))>>

\* The largest picture; the bound of a device that reports no profile.
MaxSize(d) == IF d.profiles = {} THEN <<4096, 4096>> ELSE d.size

SizeParam(d) == <<Least(320, MaxSize(d)[1]), Least(240, MaxSize(d)[2])>>
SizeAllowed(d, size) == \A i \in {1, 2} : size[i] >= 16 /\ size[i] <= MaxSize(d)[i] /\ size[i] % 16 = 0

\* calculateInputBufferSize.
CalculateInputBufferSize(area) == IF area > Area1080p THEN BufferFor4K ELSE BufferFor1080p

\* MaxInputBufferSizeCalculator: never smaller than the picture calls for.
MaxInputBufferSizeCalculator(t) ==
  LET calculated == CalculateInputBufferSize(t.size[1] * t.size[2])
  IN IF t.input < calculated THEN [t EXCEPT !.input = calculated] ELSE t

\* getOutputDelay.
GetOutputDelay == [H264 |-> 16, HEVC |-> 16, VP8 |-> 3, VP9 |-> 8, AV1 |-> 8, MPEG4 |-> 4, H263 |-> 2]

\* The allocators of both ports.
Allocators(secure) ==
  [input |-> IF secure THEN "secure linear" ELSE "linear", output |-> "gralloc",
   surface |-> IF secure THEN "secure graphic" ELSE "bufferqueue", pool |-> "basic graphic"]

\* The stream's colours are looked for, and merged, for these codecs.
HasColours(t) == (t.codec = "H264" /\ ~t.secure) \/ t.codec = "HEVC"

PixelFormats(codec, d) ==
  {"YCBCR_420_888", "IMPLEMENTATION_DEFINED"} \cup
  (IF \E p \in Profiles(codec, d) : Is10BitProfile(codec, p) THEN {"YCBCR_P010"} ELSE {})

-----------------------------------------------------------------------------
\* MergedColorAspectsSetter: the stream's aspect, the client's default where it has none.
MergedColorAspectsSetter(t) == [t EXCEPT !.merged = IF t.coded = 0 THEN t.default ELSE t.coded]

\* DefaultColorAspectsSetter, of the default and of the coded aspect.
DefaultColorAspectsSetter(v) == IF v > Other THEN Other ELSE v

\* DecodeInterface: the parameters and their defaults.  Of the decoder thread: works,
\* each a Frame, Plain (codec data without colours) or the aspect of codec data; out:
\* works whose frames are out; current, None if there are none, pending and from:
\* mCurrentColorAspects and the change of them; last: the aspect of the last frame
\* out; first: what was current, or would be on asking, when the session began;
\* lost: a change took the place of one that frames were still to take.
DecodeInterface(codec, secure, d) ==
  MaxInputBufferSizeCalculator(
    [codec |-> codec, secure |-> secure, device |-> d, pl |-> ProfileLevel(codec, d), size |-> SizeParam(d),
     input |-> BufferFor1080p, allocators |-> Allocators(secure), format |-> "YCBCR_420_888", delay |-> GetOutputDelay[codec],
     default |-> 0, coded |-> 1, merged |-> 1,
     on |-> FALSE, starts |-> 0, works |-> <<>>, out |-> 0, current |-> None, pending |-> FALSE, from |-> 0,
     last |-> None, first |-> {None}, lost |-> FALSE])

Init == \E codec \in Codecs, secure \in BOOLEAN, d \in Devices : s = DecodeInterface(codec, secure, d)

\* ProfileLevelSetter, SizeSetter, InputSizeSetter: validated.  Parameters are set while
\* the component is stopped; values refused are left out.
ProfileLevelSetter(p, l) ==
  /\ s.codec # "VP8" /\ ~s.on
  /\ p \in Profiles(s.codec, s.device) /\ l \in LevelList(s.codec, s.device)
  /\ s' = [s EXCEPT !.pl = <<p, l>>]

SizeSetter(size) == ~s.on /\ SizeAllowed(s.device, size) /\ s' = MaxInputBufferSizeCalculator([s EXCEPT !.size = size])
InputSizeSetter(n) == ~s.on /\ s' = MaxInputBufferSizeCalculator([s EXCEPT !.input = n])
SetPixelFormat(f) == ~s.on /\ f \in PixelFormats(s.codec, s.device) /\ s' = [s EXCEPT !.format = f]
SetDefaultAspects(v) == ~s.on /\ s' = MergedColorAspectsSetter([s EXCEPT !.default = DefaultColorAspectsSetter(v)])

-----------------------------------------------------------------------------
\* startTask.
StartTask ==
  LET asks == s.codec = "H264" /\ ~s.secure
  IN /\ ~s.on /\ s.starts < MaxStarts
     /\ s' = [s EXCEPT !.on = TRUE, !.starts = @ + 1, !.works = <<>>, !.out = 0, !.last = None, !.lost = FALSE,
                       !.current = IF asks THEN s.merged ELSE @, !.pending = IF asks THEN FALSE ELSE @,
                       !.first = IF HasColours(s) THEN {s.current, s.merged} ELSE {s.current}]

Stop == s.on /\ s' = [s EXCEPT !.on = FALSE]

\* Flush: the frames not out are dropped.
Flush == s.on /\ s.out < Len(s.works) /\ s' = [s EXCEPT !.out = Len(s.works), !.last = None]

\* processWork: a frame goes to the decoder.
ProcessWork == s.on /\ Len(s.works) < MaxWorks /\ s' = [s EXCEPT !.works = Append(@, Frame)]

\* Frames from the pending change on that are still in the decoder.
Waiting == \E i \in 1..Len(s.works) : i > s.out /\ i >= s.from /\ s.works[i] = Frame

\* processCSDWork: the colours found are set on the interface at once, and asked for
\* again at the first frame that follows.
ProcessCSDWork(v) ==
  /\ s.on /\ Len(s.works) < MaxWorks
  /\ s' = IF HasColours(s) /\ v # Plain
          THEN [MergedColorAspectsSetter([s EXCEPT !.coded = DefaultColorAspectsSetter(v)]) EXCEPT
                  !.works = Append(@, v), !.pending = TRUE, !.from = Len(s.works) + 1, !.lost = @ \/ (s.pending /\ Waiting)]
          ELSE [s EXCEPT !.works = Append(@, Plain)]

\* onOutputFrameReady, in the order of the works; codec data has no frame.
OnOutputFrameReady ==
  LET n == s.out + 1
      asks == s.pending /\ n >= s.from
      t == IF asks THEN [s EXCEPT !.current = s.merged, !.pending = FALSE, !.lost = FALSE] ELSE s
  IN /\ s.on /\ n <= Len(s.works)
     /\ s' = IF s.works[n] = Frame THEN [t EXCEPT !.out = n, !.last = t.current] ELSE [s EXCEPT !.out = n]

Next ==
  \/ \E p \in {1, 3}, l \in {1, 9} : ProfileLevelSetter(p, l)
  \/ \E size \in Sizes : SizeSetter(size)
  \/ \E n \in Inputs : InputSizeSetter(n)
  \/ \E f \in {"YCBCR_420_888", "YCBCR_P010"} : SetPixelFormat(f)
  \/ \E v \in Aspects : SetDefaultAspects(v) \/ ProcessCSDWork(v)
  \/ StartTask \/ Stop \/ Flush \/ ProcessWork \/ ProcessCSDWork(Plain) \/ OnOutputFrameReady

-----------------------------------------------------------------------------
\* The aspect the stream gives frame n of this session: that of the last codec data
\* with colours before it, or what the session began with.
Expected(n) ==
  LET told == {i \in 1..n : s.works[i] \notin {Frame, Plain}}
      v == DefaultColorAspectsSetter(s.works[Max(told)])
  IN IF told = {} THEN s.first ELSE {IF v = 0 THEN s.default ELSE v}

\* Every frame carries the colours its codec data gave, merged with the client's
\* defaults, not those of codec data queued later, through flushes and restarts;
\* except frames for which a second change arrived while they were in the decoder.
ColoursOnTime == s.on /\ s.last # None /\ ~s.lost /\ s.works[s.out] = Frame => s.last \in Expected(s.out)

\* What the interface offers is consistent, whatever the device reports and in
\* whatever order parameters are set: profile and level are of the lists offered, the
\* picture is within the device's bounds, the input buffer is as large as the picture
\* calls for, and a secure decoder takes secure input only.
DecoderConsistent ==
  /\ s.codec # "VP8" => s.pl[1] \in Profiles(s.codec, s.device) /\ s.pl[2] \in LevelList(s.codec, s.device)
  /\ SizeAllowed(s.device, s.size) /\ s.input >= CalculateInputBufferSize(s.size[1] * s.size[2])
  /\ s.format \in PixelFormats(s.codec, s.device)
  /\ s.secure <=> s.allocators.input = "secure linear" /\ s.allocators.surface = "secure graphic"
=============================================================================
