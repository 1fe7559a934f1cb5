------------------------------ MODULE MCCodec2 ------------------------------
(* TLC instance of the Codec2 service: the encoder with one input and one    *)
(* output buffer, the decoder with one input buffer, the parameters of each, *)
(* the device's buffer queues and its poller, the decoder's frame pool, and  *)
(* the parsers of encoded units.  `part` runs, st is its state.              *)
EXTENDS Integers

CONSTANTS MaxEncodes, MaxDecodes, MaxAsks
VARIABLES part, st

Encode == INSTANCE VideoEncode WITH MaxWorks <- MaxEncodes, INPUTS <- 1, OUTPUTS <- 1, s <- st
Decode == INSTANCE VideoDecode WITH MaxWorks <- MaxDecodes, INPUTS <- 1, s <- st
Queues == INSTANCE V4L2Queues WITH Count <- 3, MaxAllocs <- 2, s <- st
Poller == INSTANCE V4L2Poller WITH MaxQueued <- 2, MaxPosted <- 2, s <- st
Pool == INSTANCE FramePool
    WITH Ids <- 1 .. 3, Max <- 2, DelayInit <- 1, DelayMax <- 6, MaxRequests <- 4, s <- st
Parsers == INSTANCE StreamParsers
    WITH Units <- {<<7, 0, 2>>, <<8, 1>>, <<5, 0, 0, 3, 1>>, <<1, 2>>,
                   <<38, 1>>, <<64, 1>>, <<66, 1>>, <<68, 0, 1>>},
         MaxUnits <- 2, Room <- 40, s <- st
Encoder == INSTANCE EncoderParameters
    WITH Codecs <- {"H264", "VP8", "VP9", "HEVC"}, Devices <- {{1, 5}}, Sizes <- {<<1280, 720>>},
         Rates <- {60}, Bitrates <- {14000001}, Levels <- {1, 17}, Intervals <- {67000, -1},
         MaxQueued <- 1, MaxSettings <- 3, s <- st
\* A device that reports nothing, and one that reports all it has.
Devices ==
    {[profiles |-> {}, profile |-> 0, levels |-> {}, level |-> 0, size |-> <<0, 0>>],
     [profiles |-> {1, 3}, profile |-> 3, levels |-> 1 .. 9, level |-> 9, size |-> <<1920, 1088>>]}
Decoder == INSTANCE DecoderParameters
    WITH Codecs <- {"H264", "HEVC", "VP8"}, Sizes <- {<<2560, 1440>>},
         Inputs <- {1}, Aspects <- {0, 4}, MaxWorks <- 3, MaxStarts <- 2, s <- st

MCInit ==
    \/ part = "encode" /\ Encode!Init
    \/ part = "decode" /\ Decode!Init
    \/ part = "queues" /\ Queues!Init
    \/ part = "poller" /\ Poller!Init
    \/ part = "pool" /\ Pool!Init
    \/ part = "parsers" /\ Parsers!Init
    \/ part = "encoder" /\ Encoder!Init
    \/ part = "decoder" /\ Decoder!Init

MCNext ==
    /\ part' = part
    /\ \/ part = "encode" /\ Encode!Next
       \/ part = "decode" /\ Decode!Next
       \/ part = "queues" /\ Queues!Next
       \/ part = "poller" /\ Poller!Next
       \/ part = "pool" /\ Pool!Next
       \/ part = "parsers" /\ Parsers!Next
       \/ part = "encoder" /\ Encoder!Next
       \/ part = "decoder" /\ Decoder!Next

MCSpec == MCInit /\ [][MCNext]_<<part, st>>

\* Every work that queue_nb() accepted is in exactly one place and is returned at
\* most once; encoded works come back in order, and an end of stream of the decoder
\* after every work before it (EncodeComponent.cpp, DecodeComponent.cpp reportWork,
\* reportEOSWork).
WorksAccounted ==
    /\ part = "encode" => Encode!EncodeAccounted /\ Encode!EncodeInOrder
    /\ part = "decode" => Decode!DecodeAccounted /\ Decode!DecodeInOrder

\* When threads and device are idle, no drain is open and no work waits for an
\* event that has already happened (onDrainDone, pumpPendingWorks).
WorksSettle ==
    /\ part = "encode" => Encode!EncodeSettles
    /\ part = "decode" => Decode!DecodeSettles

\* Every buffer of a device queue is free, with the driver or with one client, a
\* request to the frame pool is in one place and answered once, and the poll thread
\* never waits past a wake-up (V4L2Device.cpp, VideoFramePool.cpp,
\* V4L2DevicePoller.cpp).
BuffersServed ==
    /\ part = "queues" => Queues!BuffersOwned
    /\ part = "pool" => Pool!FetchAccounted
    /\ part = "poller" => Poller!NoWakeupLost



\* V4L2Encoder::initialize asserts that the key frame period it is given is
\* positive; the encoder later counts frames modulo it.
KeyFramePeriodPositive == part = "encoder" => Encoder!KeyFramePeriodPositive
=============================================================================
