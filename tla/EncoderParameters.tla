-------------------------- MODULE EncoderParameters --------------------------
(***************************************************************************)
(* The parameters of the video encoder: the interface a client configures  *)
(* (EncodeInterface), which picks an H.264 level that covers size, rate    *)
(* and bitrate, and the encoder thread (EncodeComponent, V4L2Encoder),     *)
(* which follows the parameters from frame to frame, measures the rate and *)
(* forces key frames.  Client and encoder thread interleave.  Profiles and *)
(* levels are numbered by their place in their codec's enumeration.  The   *)
(* bit rate mode, its peak rate and intra refresh are left out.            *)
(***************************************************************************)
EXTENDS Integers, Sequences, FiniteSets, FiniteSetsExt

CONSTANTS Codecs,     \* of "H264", "VP8", "VP9", "HEVC"
          Devices,    \* sets of profiles a device has
          Sizes,      \* picture sizes <<width, height>> a client asks for
          Rates,      \* frame rates asked for or measured
          Bitrates, Levels,
          Intervals,  \* key frame intervals in microseconds; negative for none
          MaxQueued,  \* frames waiting for the driver
          MaxSettings \* parameters set by clients

VARIABLE s

Baseline == 1
Main == 3
High == 5
High10 == 8
High422 == 10
UNUSED == 0

\* kH264Limits: per level the most macroblocks a second, in a frame, and bits a second.
H264Limits ==
  << <<1485, 99, 64000>>, <<1485, 99, 128000>>, <<3000, 396, 192000>>, <<6000, 396, 384000>>,
     <<11880, 396, 768000>>, <<11880, 396, 2000000>>, <<19800, 792, 4000000>>, <<20250, 1620, 4000000>>,
     <<40500, 1620, 10000000>>, <<108000, 3600, 14000000>>, <<216000, 5120, 20000000>>,
     <<245760, 8192, 20000000>>, <<245760, 8192, 50000000>>, <<522240, 8704, 50000000>>,
     <<589824, 22080, 135000000>>, <<983040, 36864, 240000000>>, <<2073600, 36864, 240000000>> >>

FrameSizeMB(size) == ((size[1] + 15) \div 16) * ((size[2] + 15) \div 16)

\* maxFramerateForLevelH264.
MaxFramerateForLevel(level, size) ==
  IF level \in DOMAIN H264Limits THEN H264Limits[level][1] \div FrameSizeMB(size) ELSE 2147483647

\* The bit rate a level allows a profile.
MaxBR(i, profile) ==
  LET br == H264Limits[i][3]
  IN IF profile >= High422 THEN br * 4 ELSE IF profile >= High10 THEN br * 3
     ELSE IF profile >= High THEN (br * 5) \div 4 ELSE br

\* The level covers the picture, at the rate.
CoversPicture(i, t) == FrameSizeMB(t.size) <= H264Limits[i][2] /\ t.bitrate <= MaxBR(i, t.profile)
CoversRate(i, t) == FrameSizeMB(t.size) * t.rate <= H264Limits[i][1]

-----------------------------------------------------------------------------
\* The levels and profiles a codec's interface offers.
LevelsOf == [H264 |-> 1..16, VP8 |-> {UNUSED}, VP9 |-> 1..14, HEVC |-> 1..9]

\* preferredProfile: the first of those preferred that the device has, else the least.
PreferredProfile(profiles, preferred) ==
  LET known == {i \in DOMAIN preferred : preferred[i] \in profiles}
  IN IF known # {} THEN preferred[Min(known)] ELSE Min(profiles)

\* The profile and level parameter before its setter ran, per codec.
ProfileLevel(codec, profiles) ==
  CASE codec = "H264" -> <<PreferredProfile(profiles, <<High, Main>>), 13>>
    [] codec = "VP8" -> <<Baseline, UNUSED>>
    [] codec = "VP9" -> <<Min(profiles), 1>>
    [] codec = "HEVC" -> <<PreferredProfile(profiles, <<Baseline>>), 7>>

\* The profile the setters leave: the least one instead of one the device lacks;
\* UNUSED when it has neither.
Fallback(t) ==
  IF t.profile \in t.profiles THEN t.profile ELSE IF Baseline \in t.profiles THEN Baseline ELSE UNUSED

\* H264ProfileLevelSetter: the level asked for, or a lower one some encoder of the
\* process asked for before (lowestConfigLevel is one for all), raised to the first
\* level that fits when it does not cover the configuration.
H264ProfileLevelSetter(t) ==
  LET p == Fallback(t)
      asked == IF t.lowest # UNUSED /\ t.lowest < t.level THEN t.lowest ELSE t.level
      u == [t EXCEPT !.profile = p, !.level = asked]
      fits == {i \in LevelsOf.H264 : CoversPicture(i, u) /\ CoversRate(i, u)}
      first == Min(fits)
      needsUpdate == asked \notin LevelsOf.H264 \/ asked < first
  IN IF p = UNUSED THEN [t EXCEPT !.ok = FALSE] ELSE IF fits = {} THEN [u EXCEPT !.ok = FALSE]
     ELSE IF needsUpdate THEN [u EXCEPT !.ok = TRUE, !.level = first, !.lowest = asked, !.measured = FALSE]
     ELSE [u EXCEPT !.ok = TRUE, !.measured = FALSE]

\* VP9ProfileLevelSetter and HEVCProfileLevelSetter: the profile only.
VP9ProfileLevelSetter(t) == [t EXCEPT !.profile = IF Fallback(t) = UNUSED THEN @ ELSE Fallback(t), !.ok = Fallback(t) # UNUSED]
HEVCProfileLevelSetter(t) == [t EXCEPT !.profile = IF Fallback(t) = UNUSED THEN @ ELSE Fallback(t), !.ok = Fallback(t) # UNUSED]

\* External: the interface helper runs the setter again when the parameter, or one
\* it depends on, is configured.
Settle(t) ==
  CASE t.codec = "H264" -> H264ProfileLevelSetter(t)
    [] t.codec = "VP9" -> VP9ProfileLevelSetter(t)
    [] t.codec = "HEVC" -> HEVCProfileLevelSetter(t)
    [] t.codec = "VP8" -> t

\* Initialize: the interface of a codec for a device with those profiles, with the
\* defaults 320x240, 30 frames and 64000 bits a second, and a second between key
\* frames.  pc and what follows is the encoder thread's: the frame rate
\* it last gave the driver (fps; the bit rate is left out), the most frames its level allowed (most),
\* the key frame counter and period; owed: a key frame was asked for and none was
\* encoded since.
Initialize(codec, profiles) ==
  Settle([codec |-> codec, profiles |-> profiles, profile |-> ProfileLevel(codec, profiles)[1],
          level |-> ProfileLevel(codec, profiles)[2], lowest |-> UNUSED, size |-> <<320, 240>>, rate |-> 30,
          bitrate |-> 64000, interval |-> 1000000, request |-> FALSE,
          ok |-> TRUE, measured |-> FALSE,
          pc |-> "off", fps |-> 0, most |-> 2147483647,
          counter |-> 0, period |-> 1, queued |-> 0, owed |-> FALSE, settings |-> 0])

Init == \E codec \in Codecs, profiles \in Devices : s = Initialize(codec, profiles)

-----------------------------------------------------------------------------
\* A client sets a parameter.
Set(t) == s.settings < MaxSettings /\ s' = [t EXCEPT !.settings = @ + 1]

\* SizeSetter: a size the device can encode, set before the encoder starts; the level follows.
SizeSetter(size) == s.pc = "off" /\ Set(Settle([s EXCEPT !.size = size]))

SetFrameRate(r) == Set(Settle([s EXCEPT !.rate = r]))
SetBitrate(b) == Set(Settle([s EXCEPT !.bitrate = b]))
SetProfileLevel(p, l) == s.codec # "VP8" /\ Set(Settle([s EXCEPT !.profile = p, !.level = l]))
SetInterval(us) == Set([s EXCEPT !.interval = us])

RequestSyncFrame == Set([s EXCEPT !.request = TRUE, !.owed = TRUE])

\* Another encoder of the process is configured: it shares lowestConfigLevel.
OtherEncoder(l, b) ==
  LET t == H264ProfileLevelSetter([Initialize("H264", {Baseline, High}) EXCEPT !.lowest = s.lowest, !.level = l, !.bitrate = b])
  IN Set([s EXCEPT !.lowest = t.lowest])

-----------------------------------------------------------------------------
\* getKeyFramePeriod, rounded to frames; none for a negative interval.
GetKeyFramePeriod(t) ==
  IF t.interval < 0 THEN 0 ELSE Max({1, ((t.interval \div 1000) * t.rate + 500) \div 1000})

\* initializeEncoder and V4L2Encoder::initialize: the encoder of the parameters as they are.
InitializeEncoder ==
  /\ s.pc = "off" /\ s.ok
  /\ s' = [s EXCEPT !.pc = "idle", !.period = GetKeyFramePeriod(s), !.counter = 0]

Stop == s.pc = "idle" /\ s' = [s EXCEPT !.pc = "off", !.queued = 0]


\* V4L2Encoder::requestKeyframe.
RequestKeyframe(t) == [t EXCEPT !.counter = 0]

\* encode: a measured rate, at most the one the level allowed when last read, replaces
\* the interface's if it is off by more than five.
Measure(t, r) ==
  LET new == Max({1, Min({r, t.most})})
  IN IF r # 0 /\ (new - t.fps > 5 \/ t.fps - new > 5) THEN [t EXCEPT !.rate = new, !.measured = TRUE] ELSE t

\* encode and updateEncodingParameters up to the key frame: bit and frame rate go to the
\* driver, and a key frame asked for is requested, before the request is taken back.
UpdateEncodingParameters(r) ==
  LET t == Measure(s, r)
      u == [t EXCEPT !.fps = t.rate]
  IN /\ s.pc = "idle" /\ s.queued < MaxQueued
     /\ s' = IF s.request THEN [RequestKeyframe(u) EXCEPT !.pc = "reset"] ELSE [u EXCEPT !.pc = "level"]

ResetRequest == s.pc = "reset" /\ s' = [s EXCEPT !.pc = "level", !.request = FALSE]

\* updateEncodingParameters, level; then the frame is queued to the encoder.
EncodeFrame ==
  /\ s.pc = "level"
  /\ s' = [s EXCEPT !.pc = "idle", !.queued = @ + 1,
                    !.most = IF s.codec = "H264" THEN MaxFramerateForLevel(s.level, s.size) ELSE @]

\* handleEncodeRequest: a key frame when the counter is at zero.  The remainder by a
\* period of zero is undefined: the dividend or zero.
HandleEncodeRequest(rest) ==
  /\ s.pc = "idle" /\ s.queued > 0 /\ rest \in {0, s.counter + 1}
  /\ s.period # 0 => rest = (s.counter + 1) % s.period
  /\ s' = [s EXCEPT !.queued = @ - 1, !.owed = @ /\ s.counter # 0, !.counter = Min({rest, 2})]

Next ==
  \/ \E size \in Sizes : SizeSetter(size)
  \/ \E r \in Rates : SetFrameRate(r)
  \/ \E b \in Bitrates : SetBitrate(b)
  \/ InitializeEncoder
  \/ \E l \in Levels : (\E p \in {Main, High10} : SetProfileLevel(p, l)) \/ \E b \in Bitrates : OtherEncoder(l, b)
  \/ \E us \in Intervals : SetInterval(us)
  \/ \E r \in Rates \cup {0} : UpdateEncodingParameters(r)
  \/ \E rest \in {0, s.counter + 1} : HandleEncodeRequest(rest)
  \/ RequestSyncFrame \/ Stop \/ ResetRequest \/ EncodeFrame

-----------------------------------------------------------------------------
\* A configuration the interface accepted is one the stream may declare: the profile
\* and level are offered, and an H.264 level covers the picture size and the bit
\* rate and, until a measured rate replaced the client's, the rate, whatever order
\* the parameters and those of other encoders of the process were set in.
LevelCovers ==
  s.ok /\ s.codec # "VP8" =>
    /\ s.profile \in s.profiles
    /\ s.codec = "H264" => /\ s.level \in LevelsOf.H264 /\ CoversPicture(s.level, s)
                           /\ s.measured \/ CoversRate(s.level, s)

\* A key frame a client asks for comes: the request stands in the interface, or the
\* next frame handed to the driver is one, also when the client asks again while the
\* encoder thread takes the request back.
KeyFramesFollow == s.owed => s.request \/ s.counter = 0

\* V4L2Encoder::initialize asserts that the key frame period it is given is positive;
\* the encoder later counts frames modulo it.
KeyFramePeriodPositive == s.pc # "off" => s.period > 0
=============================================================================
