--------------------------- MODULE RequestProofs ---------------------------
(* What is proved of a client's request on its way: the log that keeps it     *)
(* (RequestLog), the job that is made of it (RequestMapping) and the media    *)
(* that reach this job (Media), for any requests, limits and configuration.   *)
EXTENDS RequestLog, RequestMapping, Media, TLAPS

-----------------------------------------------------------------------------
(* The request log.                                                          *)

Logged == [call : Calls, kind : Kinds \union {"garbled"}]

\* The cut keeps a prefix that is no longer than the maximum, and all of a log that
\* fits.
LEMMA NewestIsAPrefix ==
    ASSUME NEW S, NEW log \in Seq(S)
    PROVE  /\ Newest(log) \in Seq(S)
           /\ Len(Newest(log)) = IF Len(log) > MaxEntries THEN MaxEntries ELSE Len(log)
           /\ \A i \in 1 .. Len(Newest(log)) : Newest(log)[i] = log[i]
<1> DEFINE n == IF Len(log) > MaxEntries THEN MaxEntries ELSE Len(log)
<1>1. n \in Nat /\ n <= Len(log)
  BY LogAssumption
<1>2. SubSeq(log, 1, n) \in Seq(S) /\ Len(SubSeq(log, 1, n)) = n
      /\ \A i \in 1 .. n : SubSeq(log, 1, n)[i] = log[i]
  <2> HIDE DEF n
  <2>1. CASE n = 0
    BY <1>1, <2>1
  <2>2. CASE n > 0
    BY <1>1, <2>2
  <2> QED
    BY <1>1, <2>1, <2>2
<1> QED
  BY <1>2 DEF Newest

\* What is put in front is the first, and what was there moves on by one.
LEMMA PutInFront ==
    ASSUME NEW S, NEW e \in S, NEW log \in Seq(S)
    PROVE  /\ <<e>> \o log \in Seq(S)
           /\ Len(<<e>> \o log) = Len(log) + 1
           /\ (<<e>> \o log)[1] = e
           /\ \A i \in 2 .. Len(log) + 1 : i - 1 \in 1 .. Len(log) /\ (<<e>> \o log)[i] = log[i - 1]
  OBVIOUS

\* The types part of the log's variables.
LEMMA LogTypes ==
    ASSUME LogTypeOK
    PROVE  /\ kind \in [text : Kinds, len : 3 .. 5]
           /\ entries \in Seq(Logged) /\ logFile \in Seq(Logged)
           /\ history \in Seq(Calls)
  BY DEF LogTypeOK, Logged

\* A reader makes a kind of the variable, or something garbled.
LEMMA ReadingIsAKind ==
    ASSUME LogTypeOK
    PROVE  Reading \in Kinds \union {"garbled"}
  BY DEF Reading, LogTypeOK

\* A request that ends enters the log in front of those that ended before.
LEMMA AddKeepsTheNewest ==
    ASSUME LogIsTheNewest, NEW r \in Calls, Add(r)
    PROVE  LogIsTheNewest'
<1>0. LogTypeOK
  BY DEF LogIsTheNewest
<1> DEFINE longer == <<[call |-> r, kind |-> Reading]>> \o entries
<1>1. [call |-> r, kind |-> Reading] \in Logged /\ [call |-> r, kind |-> Reading].call = r
  BY <1>0, ReadingIsAKind DEF Logged
<1>2. PICK e \in Logged : e = [call |-> r, kind |-> Reading] /\ e.call = r
  BY <1>1
<1>3. longer = <<e>> \o entries
  BY <1>2
<1>4. /\ longer \in Seq(Logged) /\ Len(longer) = Len(entries) + 1 /\ longer[1] = e
      /\ \A i \in 2 .. Len(entries) + 1 : i - 1 \in 1 .. Len(entries) /\ longer[i] = entries[i - 1]
  BY <1>0, <1>3, LogTypes, PutInFront
<1>5. entries' = Newest(longer) /\ logFile' \in {logFile, entries'} /\ history' = <<r>> \o history
  BY DEF Add
<1> HIDE DEF longer
<1>6. /\ entries' \in Seq(Logged)
      /\ Len(entries') = IF Len(longer) > MaxEntries THEN MaxEntries ELSE Len(longer)
      /\ \A i \in 1 .. Len(entries') : entries'[i] = longer[i]
  BY <1>4, <1>5, NewestIsAPrefix
<1>7. /\ history' \in Seq(Calls) /\ Len(history') = Len(history) + 1 /\ history'[1] = r
      /\ \A i \in 2 .. Len(history) + 1 : i - 1 \in 1 .. Len(history) /\ history'[i] = history[i - 1]
  BY <1>0, <1>5, LogTypes, PutInFront
<1>8. Len(entries) \in Nat /\ Len(history) \in Nat /\ Len(logFile) \in Nat /\ MaxEntries \in Nat \ {0}
  BY <1>0, LogTypes, LogAssumption
<1>9. LogTypeOK'
  <2>1. kind' \in [text : Kinds, len : 3 .. 5]
    BY <1>0 DEF Add, LogTypeOK
  <2>2. stage' \in [Calls -> {"handling", "setting", "textSet", "lenSet", "logging", "done"}]
    BY <1>0 DEF Add, LogTypeOK
  <2>3. \A log \in {entries', logFile'} : log \in Seq(Logged)
    BY <1>0, <1>5, <1>6, LogTypes
  <2> QED
    BY <2>1, <2>2, <2>3, <1>7 DEF LogTypeOK, Logged
<1>10. Len(entries') <= MaxEntries /\ Len(logFile') <= MaxEntries
  BY <1>4, <1>5, <1>6, <1>8 DEF LogIsTheNewest
<1>11. ASSUME NEW i \in 1 .. Len(history'), i <= MaxEntries
       PROVE  i <= Len(entries') /\ entries'[i].call = history'[i]
  <2>1. CASE i = 1
    BY <2>1, <1>2, <1>4, <1>6, <1>7, <1>8
  <2>2. CASE i > 1
    <3>1. i - 1 \in 1 .. Len(history) /\ i - 1 <= MaxEntries /\ i \in 2 .. Len(history) + 1
      BY <2>2, <1>7, <1>8, <1>11
    <3>2. i - 1 <= Len(entries) /\ entries[i - 1].call = history[i - 1]
      BY <3>1 DEF LogIsTheNewest
    <3>3. i \in 2 .. Len(entries) + 1 /\ i <= Len(entries')
      BY <3>1, <3>2, <1>4, <1>6, <1>8, <1>11
    <3>4. entries'[i] = entries[i - 1] /\ history'[i] = history[i - 1]
      BY <3>1, <3>3, <1>4, <1>6, <1>7, <1>8
    <3> QED
      BY <3>2, <3>3, <3>4
  <2> QED
    BY <2>1, <2>2, <1>8, <1>7
<1> QED
  BY <1>9, <1>10, <1>11 DEF LogIsTheNewest

\* The log that a restart reads back was the log once, cut as it was.
LEMMA RestartKeepsTheNewest ==
    ASSUME LogIsTheNewest, LogRestart
    PROVE  LogIsTheNewest'
<1>0. LogTypeOK
  BY DEF LogIsTheNewest
<1>1. logFile \in Seq(Logged) /\ Len(logFile) \in Nat
  BY <1>0, LogTypes
<1>2. ASSUME NEW i \in 1 .. Len(logFile)
      PROVE  logFile[i].call \in Calls
  <2>1. PICK e \in Logged : e = logFile[i]
    BY <1>1
  <2> QED
    BY <2>1 DEF Logged
<1>3. history' = [i \in 1 .. Len(logFile) |-> logFile[i].call]
  BY DEF LogRestart
<1>4. history' \in Seq(Calls) /\ Len(history') = Len(logFile)
  BY <1>1, <1>2, <1>3
<1>5. entries' = logFile /\ logFile' = logFile
  BY DEF LogRestart
<1>6. LogTypeOK'
  <2>1. kind' \in [text : Kinds, len : 3 .. 5]
    BY LogAssumption DEF LogRestart, Kinds, Length
  <2>2. stage' \in [Calls -> {"handling", "setting", "textSet", "lenSet", "logging", "done"}]
    BY DEF LogRestart
  <2>3. \A log \in {entries', logFile'} : log \in Seq(Logged)
    BY <1>1, <1>5
  <2> QED
    BY <2>1, <2>2, <2>3, <1>4 DEF LogTypeOK, Logged
<1>7. Len(entries') <= MaxEntries /\ Len(logFile') <= MaxEntries
  BY <1>5 DEF LogIsTheNewest
<1>8. \A i \in 1 .. Len(history') : i <= Len(entries') /\ entries'[i].call = history'[i]
  BY <1>1, <1>3, <1>4, <1>5
<1> QED
  BY <1>6, <1>7, <1>8 DEF LogIsTheNewest

\* The wrapper's other steps leave the log alone and move only kind and stage.
LEMMA WrapperKeepsTheLog ==
    ASSUME LogIsTheNewest, NEW r \in Calls,
           Classify(r) \/ SetText(r) \/ SetLength(r) \/ NextRequest(r)
    PROVE  LogIsTheNewest'
<1>0. LogTypeOK
  BY DEF LogIsTheNewest
<1>1. UNCHANGED <<entries, logFile, history>>
  BY DEF Classify, SetText, SetLength, NextRequest
<1>2. ModelKind[r] \in Kinds /\ \A text : Length(text) \in 3 .. 5
  BY LogAssumption DEF Kinds, Length
<1>3. kind' \in [text : Kinds, len : 3 .. 5]
  BY <1>0, <1>2 DEF LogTypeOK, Classify, SetText, SetLength, NextRequest
<1>4. stage' \in [Calls -> {"handling", "setting", "textSet", "lenSet", "logging", "done"}]
  BY <1>0 DEF LogTypeOK, Classify, SetText, SetLength, NextRequest
<1>5. LogTypeOK'
  BY <1>0, <1>1, <1>3, <1>4 DEF LogTypeOK
<1> QED
  BY <1>1, <1>5 DEF LogIsTheNewest

\* The log is the newest MaxEntries requests in the order in which they ended,
\* whatever ends together, however long the process runs and whenever it restarts.
THEOREM LogAlwaysTheNewest == LogSpec => []LogIsTheNewest
<1>1. LogInit => LogIsTheNewest
  BY LogAssumption DEF LogInit, LogIsTheNewest, LogTypeOK, Kinds, Length
<1>2. LogIsTheNewest /\ [LogNext]_logVars => LogIsTheNewest'
  <2> SUFFICES ASSUME LogIsTheNewest, [LogNext]_logVars
               PROVE  LogIsTheNewest'
    OBVIOUS
  <2>1. CASE \E r \in Calls : Add(r)
    BY <2>1, AddKeepsTheNewest
  <2>2. CASE \E r \in Calls : Classify(r) \/ SetText(r) \/ SetLength(r) \/ NextRequest(r)
    BY <2>2, WrapperKeepsTheLog
  <2>3. CASE LogRestart
    BY <2>3, RestartKeepsTheNewest
  <2>4. CASE UNCHANGED logVars
    BY <2>4 DEF logVars, LogIsTheNewest, LogTypeOK
  <2> QED
    BY <2>1, <2>2, <2>3, <2>4 DEF LogNext
<1> QED
  BY <1>1, <1>2, PTL DEF LogSpec

-----------------------------------------------------------------------------
(* The translation of requests.                                              *)

\* What is made of the request is what its route makes of it.
MadeAsRouted ==
    /\ asked \in Request
    /\ \/ made = Nothing
       \/ asked.route = "images" /\ made = ImagesGenerations(asked)
       \/ asked.route = "videos" /\ made = VideosGenerations(asked)
       \/ asked.route = "generate" /\ made = Generate(asked)
       \/ asked.route = "canvas" /\ made = VideosCreate(asked)

LEMMA AlwaysMadeAsRouted == MappingSpec => []MadeAsRouted
<1>1. MappingInit => MadeAsRouted
  BY MappingAssumption DEF MappingInit, MadeAsRouted
<1>2. MadeAsRouted /\ [MappingNext]_mappingVars => MadeAsRouted'
  BY DEF MadeAsRouted, MappingNext, Translate, mappingVars
<1> QED
  BY <1>1, <1>2, PTL DEF MappingSpec

\* The virtual model's mode leaves the other parameters as they are.
LEMMA ImageParamsPass ==
    ASSUME NEW spec, NEW r
    PROVE  /\ With(spec, ImageParams(r)).job = spec.job
           /\ With(spec, ImageParams(r)).params.kind = "image"
  BY DEF With, ApplyExtraParams, ImageParams, NoParams

LEMMA VideoParamsPass ==
    ASSUME NEW spec, NEW r
    PROVE  /\ With(spec, VideoParams(r)).job = spec.job
           /\ With(spec, VideoParams(r)).params.kind = "video"
           /\ With(spec, VideoParams(r)).params.aspect = VideoParams(r).aspect
           /\ With(spec, VideoParams(r)).params.resolution = VideoParams(r).resolution
           /\ With(spec, VideoParams(r)).params.duration = VideoParams(r).duration
  BY DEF With, ApplyExtraParams, VideoParams, NoParams

\* Which job the default models are, whatever the aliases.
LEMMA DefaultsFit ==
    /\ ResolveModelSpec(NoModel).job = DefaultImageModel
    /\ KindOfJob(DefaultImageModel) = "image" /\ GuessKind(DefaultImageModel) = "image"
    /\ KindOfJob(ResolveModelSpec(DefaultVideoModel).job) = "video"
    /\ ~SaysSeedance(NoModel)
<1>1. ResolveModelSpec(NoModel).job = DefaultImageModel
  BY MappingAssumption DEF ResolveModelSpec
<1>2. KindOfJob(DefaultImageModel) = "image" /\ GuessKind(DefaultImageModel) = "image"
  BY MappingAssumption DEF KindOfJob, GuessKind
<1>3. ResolveModelSpec(DefaultVideoModel).job \in VideoJobs
  <2>1. DefaultVideoModel # NoModel
    BY MappingAssumption
  <2> QED
    BY MappingAssumption, <2>1 DEF ResolveModelSpec
<1>4. ~SaysSeedance(NoModel)
  BY MappingAssumption DEF SaysSeedance
<1> QED
  BY <1>1, <1>2, <1>3, <1>4 DEF KindOfJob

\* What POST /v1/images/generations makes.
LEMMA ImagesFit ==
    ASSUME asked.route = "images", made = ImagesGenerations(asked)
    PROVE  KindFitsTheJob
<1>1. made.params.kind = "image" /\ made.job = ResolveModelSpec(asked.model).job
  BY ImageParamsPass DEF ImagesGenerations
<1>2. CASE asked.model = NoModel
  BY <1>1, <1>2, DefaultsFit
     DEF KindFitsTheJob
<1>3. CASE asked.model # NoModel
  BY <1>1, <1>3 DEF KindFitsTheJob, KindOfJob
<1> QED
  BY <1>2, <1>3

\* What the routes that make only videos make.
LEMMA VideosFit ==
    ASSUME asked.route \in {"videos", "canvas"},
           made.params.kind = "video",
           made.job = ResolveModelSpec(IF asked.model = NoModel THEN DefaultVideoModel
                                       ELSE asked.model).job
    PROVE  KindFitsTheJob
<1>1. CASE asked.model = NoModel
  BY <1>1, DefaultsFit DEF KindFitsTheJob
<1>2. CASE asked.model # NoModel
  BY Zenon, <1>2 DEF KindFitsTheJob, KindOfJob
<1> QED
  BY <1>1, <1>2

\* What POST /v1/generate makes.
LEMMA GenerateFits ==
    ASSUME asked.route = "generate", made = Generate(asked)
    PROVE  KindFitsTheJob
<1> DEFINE spec == ResolveModelSpec(asked.model)
           sort == CASE asked.kind # "" -> asked.kind
                     [] asked.kind = "" /\ SaysSeedance(asked.model) -> "video"
                     [] OTHER -> GuessKind(spec.job)
<1>1. made = With(spec, IF sort = "video" THEN VideoParams(asked) ELSE ImageParams(asked))
  BY Zenon DEF Generate
<1>2. made.job = spec.job /\ made.params.kind = IF sort = "video" THEN "video" ELSE "image"
  <2> HIDE DEF spec, sort
  <2> QED
    BY <1>1, ImageParamsPass, VideoParamsPass
<1>3. CASE asked.kind = ""
  <2>1. sort = IF SaysSeedance(asked.model) THEN "video" ELSE GuessKind(spec.job)
    BY Zenon, <1>3
  <2>2. KindOfJob(spec.job) \in {"video", "image"} /\ GuessKind(spec.job) \in {"video", "image"}
    BY DEF KindOfJob, GuessKind
  <2> QED
    BY Zenon, <1>2, <1>3, <2>1, <2>2 DEF KindFitsTheJob
<1>4. CASE asked.kind # ""
  <2>1. sort = asked.kind
    BY Zenon, <1>4
  <2>2. CASE asked.model = NoModel
    BY Zenon, <1>2, <1>4, <2>1, <2>2, DefaultsFit DEF KindFitsTheJob
  <2>3. CASE asked.model # NoModel
    BY Zenon, <1>2, <1>4, <2>1, <2>3 DEF KindFitsTheJob, KindOfJob
  <2> QED
    BY <2>2, <2>3
<1> QED
  BY Zenon, <1>3, <1>4

\* What a canvas's request makes: a video, of the ratio and the resolution it names or
\* of what is read from the pixels that stand for them.
AtPixels == [asked EXCEPT !.size = NormalizeCanvasSize(asked.size, asked.resolution)]

LEMMA CanvasMakesVideos ==
    ASSUME made = VideosCreate(asked)
    PROVE  /\ made.params.kind = "video"
           /\ made.job = ResolveModelSpec(IF asked.model = NoModel THEN DefaultVideoModel
                                          ELSE asked.model).job
           /\ made.params.duration = VideoParams(AtPixels).duration
           /\ made.params.aspect = IF IsRatio(asked.size) THEN asked.size.name
                                   ELSE VideoParams(AtPixels).aspect
           /\ made.params.resolution = IF IsRatio(asked.size) /\ asked.resolution # ""
                                       THEN NormalizeRes(asked.resolution)
                                       ELSE VideoParams(AtPixels).resolution
<1> DEFINE params == VideoParams(AtPixels)
           res == IF asked.resolution = "" THEN params.resolution
                  ELSE NormalizeRes(asked.resolution)
           named == [params EXCEPT !.aspect = asked.size.name,
                                   !.resolution = IF asked.resolution = "" THEN @
                                                  ELSE NormalizeRes(asked.resolution)]
           spec == ResolveModelSpec(IF asked.model = NoModel THEN DefaultVideoModel ELSE asked.model)
<1>1. made = With(spec, IF IsRatio(asked.size) THEN named ELSE params)
  BY Zenon DEF VideosCreate, AtPixels
<1>2. named = [VideoParams(AtPixels) EXCEPT !.aspect = asked.size.name, !.resolution = res]
  BY Zenon DEF VideoParams, NoParams
<1>3. /\ With(spec, named).job = spec.job
      /\ With(spec, named).params.kind = "video"
      /\ With(spec, named).params.aspect = asked.size.name
      /\ With(spec, named).params.resolution = res
      /\ With(spec, named).params.duration = params.duration
  <2>1. PICK s, a, t, n : s = spec /\ a = asked.size.name /\ t = res /\ n = named
    BY Zenon
  <2>2. n = [VideoParams(AtPixels) EXCEPT !.aspect = a, !.resolution = t]
    BY Zenon, <1>2, <2>1
  <2>3. /\ With(s, n).job = s.job
        /\ With(s, n).params.kind = "video"
        /\ With(s, n).params.aspect = a
        /\ With(s, n).params.resolution = t
        /\ With(s, n).params.duration = VideoParams(AtPixels).duration
    BY <2>2 DEF With, ApplyExtraParams, VideoParams, NoParams
  <2> QED
    BY Zenon, <2>1, <2>3
<1>4. /\ With(spec, params).job = spec.job
      /\ With(spec, params).params.kind = "video"
      /\ With(spec, params).params.aspect = params.aspect
      /\ With(spec, params).params.resolution = params.resolution
      /\ With(spec, params).params.duration = params.duration
  BY Zenon, VideoParamsPass
<1>5. CASE IsRatio(asked.size)
  <2>1. made = With(spec, named)
    BY Zenon, <1>1, <1>5
  <2> HIDE DEF named, params
  <2> QED
    BY Zenon, <2>1, <1>3, <1>5 DEF params
<1>6. CASE ~IsRatio(asked.size)
  <2>1. made = With(spec, params)
    BY Zenon, <1>1, <1>6
  <2> HIDE DEF named
  <2> QED
    BY Zenon, <2>1, <1>4, <1>6
<1> QED
  BY Zenon, <1>5, <1>6

\* A request gets the parameters of the kind of job it starts, whatever the aliases,
\* the default models and the names of jobs, on every route: but for the requests
\* that contradict themselves and the names that mislead.
THEOREM KindAlwaysFitsTheJob == MappingSpec => []KindFitsTheJob
<1>1. MadeAsRouted => KindFitsTheJob
  <2> SUFFICES ASSUME MadeAsRouted
               PROVE  KindFitsTheJob
    OBVIOUS
  <2>1. CASE made = Nothing
    BY Zenon, <2>1 DEF KindFitsTheJob
  <2>2. CASE asked.route = "images" /\ made = ImagesGenerations(asked)
    BY <2>2, ImagesFit
  <2>3. CASE asked.route = "videos" /\ made = VideosGenerations(asked)
    BY <2>3, VideoParamsPass, VideosFit DEF VideosGenerations
  <2>4. CASE asked.route = "generate" /\ made = Generate(asked)
    BY <2>4, GenerateFits
  <2>5. CASE asked.route = "canvas" /\ made = VideosCreate(asked)
    BY Zenon, <2>5, CanvasMakesVideos, VideosFit
  <2> QED
    BY <2>1, <2>2, <2>3, <2>4, <2>5 DEF MadeAsRouted
<1> QED
  BY <1>1, AlwaysMadeAsRouted, PTL

-----------------------------------------------------------------------------
(* The sizes of canvases.                                                    *)

\* The digits that are looked for in a size in pixels.
LEMMA DigitsOf ==
    ASSUME NEW w \in Nat, NEW h \in Nat, NEW d \in Nat
    PROVE  /\ Contains(Pixels(w, h), d, 3) <=>
                  \E n \in {w, h} : d \in {n % 1000, (n \div 10) % 1000, (n \div 100) % 1000}
           /\ Contains(Pixels(w, h), d, 4) <=>
                  \E n \in {w, h} : d \in {n % 10000, (n \div 10) % 10000, (n \div 100) % 10000}
<1>1. Pixels(w, h).w = w /\ Pixels(w, h).h = h
  BY Zenon DEF Pixels
<1>2. 10 ^ 0 = 1 /\ 10 ^ 1 = 10 /\ 10 ^ 2 = 100 /\ 10 ^ 3 = 1000 /\ 10 ^ 4 = 10000
  BY SMT
<1>3. 0 .. 2 = {0, 1, 2} /\ \A n \in Nat : n \div 1 = n
  BY SMT
<1> QED
  BY <1>1, <1>2, <1>3 DEF Contains

\* The pixels that stand for a canvas's ratio and resolution say the resolution again.
LEMMA PixelsSayResolutions ==
    /\ Resolution(Pixels(854, 480)) = "480p"
    /\ \A size \in {Pixels(1280, 720), Pixels(720, 1280), Pixels(720, 720)} :
          Resolution(size) = "720p"
    /\ Resolution(Pixels(1920, 1080)) = "1080p"
<1>1. /\ ~Contains(Pixels(854, 480), 1080, 4) /\ ~Contains(Pixels(854, 480), 720, 3)
      /\ Contains(Pixels(854, 480), 480, 3)
  BY DigitsOf
<1>2. \A w, h \in {720, 1280} : ~Contains(Pixels(w, h), 1080, 4)
  BY DigitsOf
<1>3. /\ Contains(Pixels(1280, 720), 720, 3) /\ Contains(Pixels(720, 1280), 720, 3)
      /\ Contains(Pixels(720, 720), 720, 3)
  BY DigitsOf
<1>4. Contains(Pixels(1920, 1080), 1080, 4)
  BY DigitsOf
<1>5. \A w, h : Pixels(w, h).name # "4k"
  BY Zenon DEF Pixels
<1>6. ASSUME NEW size, size.name # "4k"
      PROVE  /\ Contains(size, 1080, 4) => Resolution(size) = "1080p"
             /\ ~Contains(size, 1080, 4) /\ Contains(size, 720, 3) => Resolution(size) = "720p"
             /\ ~Contains(size, 1080, 4) /\ ~Contains(size, 720, 3) /\ Contains(size, 480, 3)
                    => Resolution(size) = "480p"
  <2> DEFINE nothing == ""
  <2>1. Resolution(size) =
            CASE Contains(size, 1080, 4) -> "1080p"
              [] ~Contains(size, 1080, 4) /\ Contains(size, 720, 3) -> "720p"
              [] ~Contains(size, 1080, 4) /\ ~Contains(size, 720, 3) /\ Contains(size, 480, 3) -> "480p"
              [] size.name = "4k" -> "4k"
              [] OTHER -> nothing
    BY Zenon DEF Resolution
  <2> HIDE DEF nothing
  <2> QED
    BY <1>6, <2>1
<1> QED
  BY <1>1, <1>2, <1>3, <1>4, <1>5, <1>6

\* The three sizes that stand for no size are wide.
LEMMA WidePixels ==
    \A size \in {Pixels(854, 480), Pixels(1280, 720), Pixels(1920, 1080)} :
        SizeToAspect(size) = "16:9"
<1>1. ASSUME NEW w \in Nat, NEW h \in Nat, w > h, h > 0, 2 * w > 3 * h
      PROVE  SizeToAspect(Pixels(w, h)) = "16:9"
  <2>1. Pixels(w, h).w = w /\ Pixels(w, h).h = h
        /\ Pixels(w, h).name \notin {"16:9", "9:16", "4:3", "3:4", "3:2", "2:3"}
    BY Zenon DEF Pixels
  <2> QED
    BY <2>1, <1>1 DEF SizeToAspect
<1> QED
  BY <1>1

\* A resolution means what its normal form means.
LEMMA NormalMeansTheSame ==
    ASSUME NEW res \in {"low", "medium", "high", "auto", "480p", "720p", "1080p"}
    PROVE  NormalizeRes(res) = MeantBy(res)
  BY Zenon DEF NormalizeRes, MeantBy

\* The job's duration is the possible one nearest to the one asked for.
LEMMA DurationIsNearest ==
    ASSUME NEW seconds \in Int, seconds > 0
    PROVE  /\ Duration(seconds) \in 4 .. 15
           /\ \A d \in 4 .. 15 : Distance(Duration(seconds), seconds) <= Distance(d, seconds)
<1>1. CASE seconds \in 1 .. 3
  <2>1. Duration(seconds) = 4
    BY <1>1 DEF Duration
  <2> QED
    BY <1>1, <2>1 DEF Distance
<1>2. CASE seconds \in 4 .. 15
  <2>1. Duration(seconds) = seconds
    BY <1>2 DEF Duration
  <2> QED
    BY <1>2, <2>1 DEF Distance
<1>3. CASE seconds > 15
  <2>1. Duration(seconds) = 15
    BY <1>3 DEF Duration
  <2> QED
    BY <1>3, <2>1 DEF Distance
<1> QED
  BY <1>1, <1>2, <1>3

\* What the parameters of the request at its pixels are.
LEMMA ParamsAtPixels ==
    ASSUME asked \in Request
    PROVE  LET size == NormalizeCanvasSize(asked.size, asked.resolution) IN
           /\ VideoParams(AtPixels).duration = Duration(asked.seconds)
           /\ size # NoSize => /\ VideoParams(AtPixels).aspect = SizeToAspect(size)
                               /\ VideoParams(AtPixels).resolution = Resolution(size)
<1> DEFINE size == NormalizeCanvasSize(asked.size, asked.resolution)
<1>1. AtPixels.size = size /\ AtPixels.seconds = asked.seconds
  <2> HIDE DEF size
  <2> QED
    BY DEF Request, AtPixels, size
<1> HIDE DEF size
<1>2. VideoParams(AtPixels).duration = Duration(AtPixels.seconds)
  BY Zenon DEF VideoParams, NoParams
<1>3. AtPixels.size # NoSize =>
          /\ VideoParams(AtPixels).aspect = SizeToAspect(AtPixels.size)
          /\ VideoParams(AtPixels).resolution = Resolution(AtPixels.size)
  BY Zenon DEF VideoParams, NoParams
<1> QED
  BY Zenon, <1>1, <1>2, <1>3 DEF size

\* The size that is no size is no ratio.
LEMMA NoSizeIsNoRatio == ~IsRatio(NoSize)
<1>1. NoSize.name \notin {"16:9", "9:16", "1:1", "4:3", "3:4", "21:9", "adaptive", "auto"}
  BY Zenon DEF NoSize, Named
<1> QED
  BY Zenon, <1>1 DEF IsRatio

\* Which pixels stand for what a canvas names.
LEMMA PixelsOfWide ==
    NormalizeCanvasSize(NoSize, asked.resolution) =
        LET res == NormalizeRes(asked.resolution) IN
        IF res = "480p" THEN Pixels(854, 480)
        ELSE IF res = "1080p" THEN Pixels(1920, 1080) ELSE Pixels(1280, 720)
<1>1. NoSize.name \notin {"9:16", "1:1"}
  BY Zenon DEF NoSize, Named
<1> QED
  BY Zenon, <1>1 DEF NormalizeCanvasSize

LEMMA PixelsOfRatio ==
    ASSUME NEW size, IsRatio(size), NEW res, NormalizeRes(res) \notin {"480p", "1080p"}
    PROVE  NormalizeCanvasSize(size, res)
               \in {Pixels(1280, 720), Pixels(720, 1280), Pixels(720, 720)}
<1>1. size # NoSize
  BY NoSizeIsNoRatio
<1> QED
  BY <1>1 DEF NormalizeCanvasSize

\* The resolutions that a canvas can name.
Nameable == {"", "low", "medium", "high", "auto", "480p", "720p", "1080p"}

LEMMA PixelsAreASize ==
    ASSUME NEW w \in Nat \ {0}, NEW h
    PROVE  Pixels(w, h) # NoSize
<1>1. Pixels(w, h).w = w /\ NoSize.w = 0
  BY Zenon DEF Pixels, NoSize, Named
<1> QED
  BY <1>1

\* The pixels of a ratio without a resolution say 720p.
LEMMA RatioAlone ==
    ASSUME NEW size, NEW res, IsRatio(size), NormalizeRes(res) \notin {"480p", "1080p"}
    PROVE  NormalizeCanvasSize(size, res) # NoSize
           /\ Resolution(NormalizeCanvasSize(size, res)) = "720p"
  BY PixelsOfRatio, PixelsAreASize, PixelsSayResolutions

\* The canvas that names no ratio.
LEMMA CanvasWithoutRatio ==
    ASSUME asked \in Request, made = VideosCreate(asked), asked.size = NoSize,
           asked.resolution \in Nameable
    PROVE  made.params.aspect = "16:9" /\ made.params.resolution = MeantBy(asked.resolution)
<1> DEFINE size == NormalizeCanvasSize(asked.size, asked.resolution)
           res == NormalizeRes(asked.resolution)
<1>1. size = IF res = "480p" THEN Pixels(854, 480)
             ELSE IF res = "1080p" THEN Pixels(1920, 1080) ELSE Pixels(1280, 720)
  BY Zenon, PixelsOfWide
<1>2. MeantBy(asked.resolution) =
          IF res = "480p" THEN "480p" ELSE IF res = "1080p" THEN "1080p" ELSE "720p"
  BY Zenon DEF MeantBy, NormalizeRes, Nameable
<1> HIDE DEF size, res
<1>3. size \in {Pixels(854, 480), Pixels(1280, 720), Pixels(1920, 1080)}
  BY <1>1
<1>4. size # NoSize
  BY <1>3, PixelsAreASize
<1>5. SizeToAspect(size) = "16:9" /\ Resolution(size) = MeantBy(asked.resolution)
  BY <1>1, <1>2, <1>3, WidePixels, PixelsSayResolutions
<1>6. ~IsRatio(asked.size)
  BY Zenon, NoSizeIsNoRatio
<1>7. VideoParams(AtPixels).aspect = SizeToAspect(size)
      /\ VideoParams(AtPixels).resolution = Resolution(size)
  BY Zenon, <1>4, ParamsAtPixels DEF size
<1> QED
  BY Zenon, <1>5, <1>6, <1>7, CanvasMakesVideos

\* The canvas that names one.
LEMMA CanvasWithRatio ==
    ASSUME asked \in Request, made = VideosCreate(asked), IsRatio(asked.size),
           asked.resolution \in Nameable
    PROVE  made.params.aspect = asked.size.name
           /\ made.params.resolution = MeantBy(asked.resolution)
<1>1. made.params.aspect = asked.size.name
  BY Zenon, CanvasMakesVideos
<1>2. CASE asked.resolution = ""
  <2> DEFINE size == NormalizeCanvasSize(asked.size, asked.resolution)
  <2>1. NormalizeRes(asked.resolution) \notin {"480p", "1080p"}
    BY Zenon, <1>2 DEF NormalizeRes
  <2>2. size # NoSize /\ Resolution(size) = "720p"
    BY Zenon, <2>1, RatioAlone
  <2>3. VideoParams(AtPixels).resolution = "720p"
    BY Zenon, <2>2, ParamsAtPixels
  <2>4. MeantBy(asked.resolution) = "720p"
    BY Zenon, <1>2 DEF MeantBy
  <2>5. made.params.resolution = VideoParams(AtPixels).resolution
    BY Zenon, <1>2, CanvasMakesVideos
  <2> QED
    BY Zenon, <1>1, <2>3, <2>4, <2>5
<1>3. CASE asked.resolution # ""
  <2>1. made.params.resolution = NormalizeRes(asked.resolution)
    BY Zenon, <1>3, CanvasMakesVideos
  <2> QED
    BY Zenon, <1>1, <1>3, <2>1, NormalMeansTheSame DEF Nameable
<1> QED
  BY Zenon, <1>2, <1>3

\* What a canvas names passes through a size in pixels and comes out as it was: the
\* ratio, the resolution and the nearest possible duration, for every request with any
\* duration, model and mode.
THEOREM CanvasAlwaysAsksForWhatItNames == MappingSpec => []CanvasAsksForWhatItNames
<1>1. MadeAsRouted => CanvasAsksForWhatItNames
  <2> SUFFICES ASSUME MadeAsRouted, made # Nothing, asked.route = "canvas",
                      asked.size = NoSize \/ IsRatio(asked.size),
                      asked.resolution \in Nameable
               PROVE  /\ made.params.aspect = IF asked.size = NoSize THEN "16:9"
                                              ELSE asked.size.name
                      /\ made.params.resolution = MeantBy(asked.resolution)
                      /\ asked.seconds > 0 =>
                            /\ made.params.duration \in 4 .. 15
                            /\ \A d \in 4 .. 15 : Distance(made.params.duration, asked.seconds)
                                                      <= Distance(d, asked.seconds)
    BY Zenon DEF CanvasAsksForWhatItNames, Nameable
  <2>1. asked \in Request /\ made = VideosCreate(asked)
    BY Zenon DEF MadeAsRouted
  <2>2. asked.seconds \in Int
    BY <2>1 DEF Request
  <2>3. made.params.duration = Duration(asked.seconds)
    BY Zenon, <2>1, CanvasMakesVideos, ParamsAtPixels
  <2>4. asked.seconds > 0 =>
            /\ made.params.duration \in 4 .. 15
            /\ \A d \in 4 .. 15 : Distance(made.params.duration, asked.seconds)
                                      <= Distance(d, asked.seconds)
    <3> HIDE DEF NoSize
    <3> QED
      BY <2>2, <2>3, DurationIsNearest
  <2>5. CASE asked.size = NoSize
    BY Zenon, <2>1, <2>4, <2>5, CanvasWithoutRatio
  <2>6. CASE asked.size # NoSize
    BY Zenon, <2>1, <2>4, <2>6, CanvasWithRatio
  <2> QED
    BY Zenon, <2>5, <2>6
<1> QED
  BY <1>1, AlwaysMadeAsRouted, PTL

-----------------------------------------------------------------------------
(* The media.                                                                *)

Names == Nat \X {Extension[m] : m \in Content}
File == [kind : {"file"}, what : Content]
Stored == [kind : {"stored"}, what : Names]
Item == Sent \union File \union Stored
Value == Stored \union [kind : {"path"}, what : Paths]

OrderState ==
    [pc : {"unsent", "saving", "resolving", "built", "refused"}, order : Order,
     todo : [Groups -> Seq(Item)], saved : [Groups -> Seq(Stored)], flags : [Groups -> Seq(Value)]]

\* Of all the items those in todo are left; the values in done show the others, in their
\* order, all of them but some of the optional kinds.
HandledTo(dir, done, all, todo, optional, handled) ==
    /\ Len(todo) <= Len(all)
    /\ \A i \in 1 .. Len(todo) : todo[i] = all[handled + i]
    /\ \E at \in [1 .. Len(done) -> 1 .. Len(all)] :
          /\ Picks(dir, at, done, all)
          /\ \A i \in 1 .. Len(done) : at[i] <= handled
          /\ \A k \in 1 .. handled :
                all[k].kind \notin optional => \E i \in 1 .. Len(done) : at[i] = k

Halfway(dir, done, all, todo, optional) ==
    HandledTo(dir, done, all, todo, optional, Len(all) - Len(todo))

\* A request, given as its record r: its files are stored in their order, then its
\* references and files become the values of the command in theirs.
GroupOnItsWay(dir, r, g) ==
    /\ r.pc = "saving" =>
          /\ Halfway(dir, r.saved[g], r.order.files[g], r.todo[g], MayFail)
          /\ r.flags[g] = <<>>
    /\ r.pc \in {"resolving", "built"} =>
          /\ Halfway(dir, r.saved[g], r.order.files[g], <<>>, MayFail)
          /\ Halfway(dir, r.flags[g], References(r.order, r.saved, g), r.todo[g], {"blank"})
    /\ r.pc = "built" => r.todo[g] = <<>>

OnItsWay(dir, r) == \A g \in Groups : GroupOnItsWay(dir, r, g)

DirectoryOK == \A name \in DOMAIN uploads : uploads[name].at = name[1]

MediaTypeOK ==
    /\ tick \in Nat
    /\ mine \in [Senders -> Names \union {NoName}]
    /\ orders \in [Senders -> OrderState]

\* Who sends a request that names an uploaded file has uploaded it.
HasUploaded(s, r) ==
    r.pc \in {"saving", "resolving", "built"} /\ NeedsUpload(r.order) => mine[s] # NoName

MediaInvariant ==
    /\ MediaTypeOK
    /\ DirectoryOK
    /\ \A s \in Senders :
          /\ mine[s] # NoName => LeadsTo(uploads, mine[s], Uploaded)
          /\ HasUploaded(s, orders[s])
          /\ OnItsWay(uploads, orders[s])

\* What a value shows it still shows when each name leads to what it led to.
LEMMA ShowsStays ==
    ASSUME NEW d1, NEW d2, NEW v, NEW ref, Shows(d1, v, ref),
           \A n, m : LeadsTo(d1, n, m) => LeadsTo(d2, n, m)
    PROVE  Shows(d2, v, ref)
  BY DEF Shows

LEMMA PicksStays ==
    ASSUME NEW d1, NEW d2, NEW at, NEW values, NEW sources, Picks(d1, at, values, sources),
           \A n, m : LeadsTo(d1, n, m) => LeadsTo(d2, n, m)
    PROVE  Picks(d2, at, values, sources)
<1>1. \A i \in 1 .. Len(values) : Shows(d2, values[i], sources[at[i]])
  BY ShowsStays DEF Picks
<1> QED
  BY <1>1 DEF Picks

LEMMA HalfwayStays ==
    ASSUME NEW d1, NEW d2, NEW done, NEW all, NEW todo, NEW optional,
           Halfway(d1, done, all, todo, optional),
           \A n, m : LeadsTo(d1, n, m) => LeadsTo(d2, n, m)
    PROVE  Halfway(d2, done, all, todo, optional)
<1>1. PICK at \in [1 .. Len(done) -> 1 .. Len(all)] :
          /\ Picks(d1, at, done, all)
          /\ \A i \in 1 .. Len(done) : at[i] <= Len(all) - Len(todo)
          /\ \A k \in 1 .. Len(all) - Len(todo) :
                all[k].kind \notin optional => \E i \in 1 .. Len(done) : at[i] = k
  BY Zenon DEF Halfway, HandledTo
<1>2. Picks(d2, at, done, all)
  BY Zenon, <1>1, PicksStays
<1> QED
  BY Zenon, <1>1, <1>2 DEF Halfway, HandledTo

LEMMA HalfwayStarts ==
    ASSUME NEW dir, NEW S, NEW all \in Seq(S), NEW optional
    PROVE  Halfway(dir, <<>>, all, all, optional)
<1> DEFINE at == [i \in 1 .. Len(<<>>) |-> 1]
<1>1. Len(all) \in Nat /\ Len(<<>>) = 0 /\ 1 .. 0 = {}
  OBVIOUS
<1>2. at \in [1 .. Len(<<>>) -> 1 .. Len(all)] /\ Picks(dir, at, <<>>, all)
  BY <1>1 DEF Picks
<1>3. Len(all) - Len(all) = 0 /\ Len(all) <= Len(all)
  BY <1>1
<1>4. \A i \in 1 .. Len(all) : all[i] = all[0 + i]
  BY <1>1
<1> HIDE DEF at
<1>5. /\ \A i \in 1 .. Len(<<>>) : at[i] <= 0
      /\ \A k \in 1 .. 0 : all[k].kind \notin optional => \E i \in 1 .. Len(<<>>) : at[i] = k
  BY <1>1
<1> QED
  BY Zenon, <1>2, <1>3, <1>4, <1>5 DEF Halfway, HandledTo

\* The first item comes to value v.
LEMMA HalfwayTakes ==
    ASSUME NEW dir, NEW S, NEW T, NEW done \in Seq(T), NEW all \in Seq(S), NEW todo \in Seq(S),
           NEW optional, Halfway(dir, done, all, todo, optional),
           todo # <<>>, NEW v \in T, Shows(dir, v, Head(todo))
    PROVE  Halfway(dir, Append(done, v), all, Tail(todo), optional)
<1> DEFINE handled == Len(all) - Len(todo)
           more == Append(done, v)
           rest == Tail(todo)
<1>1. PICK at \in [1 .. Len(done) -> 1 .. Len(all)] :
          /\ Picks(dir, at, done, all)
          /\ \A i \in 1 .. Len(done) : at[i] <= handled
          /\ \A k \in 1 .. handled :
                all[k].kind \notin optional => \E i \in 1 .. Len(done) : at[i] = k
  BY Zenon DEF Halfway, HandledTo
<1>2. /\ Len(todo) <= Len(all)
      /\ \A i \in 1 .. Len(todo) : todo[i] = all[handled + i]
  BY Zenon DEF Halfway, HandledTo
<1>3. /\ Len(done) \in Nat /\ Len(all) \in Nat /\ Len(todo) \in Nat /\ Len(todo) >= 1
      /\ Len(more) = Len(done) + 1
      /\ \A i \in 1 .. Len(done) : more[i] = done[i]
      /\ more[Len(done) + 1] = v
      /\ Len(rest) = Len(todo) - 1
      /\ \A i \in 1 .. Len(rest) : rest[i] = todo[i + 1]
      /\ Head(todo) = todo[1]
  OBVIOUS
<1> DEFINE at2 == [i \in 1 .. Len(more) |-> IF i <= Len(done) THEN at[i] ELSE handled + 1]
<1> HIDE DEF more, rest
<1>4. handled \in Nat /\ handled + 1 \in 1 .. Len(all) /\ all[handled + 1] = Head(todo)
  BY <1>2, <1>3
<1>5. ASSUME NEW i \in 1 .. Len(done)
       PROVE  at[i] \in Nat /\ at[i] < handled + 1
  <2>1. at[i] \in 1 .. Len(all) /\ at[i] <= handled
    BY <1>1
  <2> QED
    BY <1>3, <1>4, <2>1
<1>6. at2 \in [1 .. Len(more) -> 1 .. Len(all)]
  BY <1>3, <1>4
<1>7. /\ \A i \in 1 .. Len(done) : at2[i] = at[i] /\ i \in 1 .. Len(more)
      /\ Len(more) \in 1 .. Len(more) /\ at2[Len(more)] = handled + 1
      /\ \A i \in 1 .. Len(more) : i \in 1 .. Len(done) \/ i = Len(more)
  BY <1>3
<1> HIDE DEF at2
<1>8. Picks(dir, at2, more, all)
  <2>1. ASSUME NEW i \in 1 .. Len(more), NEW j \in 1 .. Len(more), i < j
        PROVE  at2[i] < at2[j]
    <3>1. CASE j \in 1 .. Len(done)
      <4>1. i \in 1 .. Len(done)
        BY <1>3, <2>1, <3>1
      <4>2. at[i] < at[j]
        BY Zenon, <1>1, <2>1, <3>1, <4>1 DEF Picks
      <4> QED
        BY <1>7, <3>1, <4>1, <4>2
    <3>2. CASE j = Len(more)
      <4>1. i \in 1 .. Len(done)
        BY <1>3, <2>1, <3>2
      <4> QED
        BY <1>7, <1>5, <3>2, <4>1
    <3> QED
      BY <1>7, <3>1, <3>2
  <2>2. ASSUME NEW i \in 1 .. Len(more)
        PROVE  Shows(dir, more[i], all[at2[i]])
    <3>1. CASE i \in 1 .. Len(done)
      BY <1>1, <1>3, <1>7, <3>1 DEF Picks
    <3>2. CASE i = Len(more)
      BY <1>3, <1>4, <1>7, <3>2
    <3> QED
      BY <1>7, <3>1, <3>2
  <2> QED
    BY <1>6, <2>1, <2>2 DEF Picks
<1>9. Len(all) - Len(rest) = handled + 1
  BY <1>3
<1>10. \A i \in 1 .. Len(more) : at2[i] <= handled + 1
  BY <1>4, <1>7, <1>5
<1>11. ASSUME NEW k \in 1 .. handled + 1, all[k].kind \notin optional
       PROVE  \E i \in 1 .. Len(more) : at2[i] = k
  <2>1. CASE k \in 1 .. handled
    BY <1>1, <1>7, <1>11, <2>1
  <2>2. CASE k = handled + 1
    BY <1>7, <2>2
  <2> HIDE DEF handled
  <2>3. k \in 1 .. handled \/ k = handled + 1
    BY <1>4
  <2> QED
    BY <2>1, <2>2, <2>3
<1>12. Len(rest) <= Len(all) /\ \A i \in 1 .. Len(rest) : rest[i] = all[handled + 1 + i]
  <2>1. Len(rest) <= Len(all)
    BY <1>2, <1>3
  <2>2. ASSUME NEW i \in 1 .. Len(rest)
        PROVE  rest[i] = all[handled + 1 + i]
    <3>1. i + 1 \in 1 .. Len(todo) /\ handled + 1 + i = handled + (i + 1)
      BY <1>2, <1>3
    <3> QED
      BY <1>2, <1>3, <3>1
  <2> QED
    BY <2>1, <2>2
<1> HIDE DEF handled
<1>13. Halfway(dir, more, all, rest, optional)
  <2>1. \E on \in [1 .. Len(more) -> 1 .. Len(all)] :
           /\ Picks(dir, on, more, all)
           /\ \A i \in 1 .. Len(more) : on[i] <= handled + 1
           /\ \A k \in 1 .. handled + 1 :
                 all[k].kind \notin optional => \E i \in 1 .. Len(more) : on[i] = k
    BY Zenon, <1>6, <1>8, <1>10, <1>11
  <2>2. HandledTo(dir, more, all, rest, optional, handled + 1)
    BY Zenon, <1>12, <2>1 DEF HandledTo
  <2> QED
    BY Zenon, <1>9, <2>2 DEF Halfway
<1> QED
  BY Zenon, <1>13 DEF more, rest

\* The first item, of an optional kind, comes to nothing.
LEMMA HalfwayPasses ==
    ASSUME NEW dir, NEW S, NEW T, NEW done \in Seq(T), NEW all \in Seq(S), NEW todo \in Seq(S),
           NEW optional, Halfway(dir, done, all, todo, optional),
           todo # <<>>, Head(todo).kind \in optional
    PROVE  Halfway(dir, done, all, Tail(todo), optional)
<1> DEFINE handled == Len(all) - Len(todo)
           rest == Tail(todo)
<1>1. PICK at \in [1 .. Len(done) -> 1 .. Len(all)] :
          /\ Picks(dir, at, done, all)
          /\ \A i \in 1 .. Len(done) : at[i] <= handled
          /\ \A k \in 1 .. handled :
                all[k].kind \notin optional => \E i \in 1 .. Len(done) : at[i] = k
  BY Zenon DEF Halfway, HandledTo
<1>2. /\ Len(todo) <= Len(all)
      /\ \A i \in 1 .. Len(todo) : todo[i] = all[handled + i]
  BY Zenon DEF Halfway, HandledTo
<1>3. /\ Len(done) \in Nat /\ Len(all) \in Nat /\ Len(todo) \in Nat /\ Len(todo) >= 1
      /\ Len(rest) = Len(todo) - 1
      /\ \A i \in 1 .. Len(rest) : rest[i] = todo[i + 1]
      /\ Head(todo) = todo[1]
  OBVIOUS
<1> HIDE DEF rest
<1>4. handled + 1 \in 1 .. Len(all) /\ all[handled + 1] = Head(todo)
  BY <1>2, <1>3
<1>5. Len(all) - Len(rest) = handled + 1
  BY <1>3
<1>6. ASSUME NEW i \in 1 .. Len(done)
      PROVE  at[i] <= handled + 1
  <2>1. at[i] \in 1 .. Len(all) /\ at[i] <= handled
    BY <1>1
  <2> QED
    BY <1>3, <2>1
<1>7. ASSUME NEW k \in 1 .. handled + 1, all[k].kind \notin optional
      PROVE  \E i \in 1 .. Len(done) : at[i] = k
  <2>1. k \in 1 .. handled
    BY <1>2, <1>3, <1>4, <1>7
  <2> QED
    BY <1>1, <1>7, <2>1
<1>8. Len(rest) <= Len(all) /\ \A i \in 1 .. Len(rest) : rest[i] = all[handled + 1 + i]
  <2>1. Len(rest) <= Len(all)
    BY <1>2, <1>3
  <2>2. ASSUME NEW i \in 1 .. Len(rest)
        PROVE  rest[i] = all[handled + 1 + i]
    <3>1. i + 1 \in 1 .. Len(todo) /\ handled + 1 + i = handled + (i + 1)
      BY <1>2, <1>3
    <3> QED
      BY <1>2, <1>3, <3>1
  <2> QED
    BY <2>1, <2>2
<1> HIDE DEF handled
<1>9. Halfway(dir, done, all, rest, optional)
  <2>1. \E on \in [1 .. Len(done) -> 1 .. Len(all)] :
           /\ Picks(dir, on, done, all)
           /\ \A i \in 1 .. Len(done) : on[i] <= handled + 1
           /\ \A k \in 1 .. handled + 1 :
                 all[k].kind \notin optional => \E i \in 1 .. Len(done) : on[i] = k
    BY Zenon, <1>1, <1>6, <1>7
  <2>2. HandledTo(dir, done, all, rest, optional, handled + 1)
    BY Zenon, <1>8, <2>1 DEF HandledTo
  <2> QED
    BY Zenon, <1>5, <2>2 DEF Halfway
<1> QED
  BY Zenon, <1>9 DEF rest

\* The values show all the items but some of the optional kinds.
Shown(dir, values, all, optional) ==
    \E at \in [1 .. Len(values) -> 1 .. Len(all)] :
       /\ Picks(dir, at, values, all)
       /\ \A k \in 1 .. Len(all) :
             all[k].kind \notin optional => \E i \in 1 .. Len(values) : at[i] = k

LEMMA HalfwayEnds ==
    ASSUME NEW dir, NEW done, NEW all, Len(all) \in Nat, NEW optional,
           Halfway(dir, done, all, <<>>, optional)
    PROVE  Shown(dir, done, all, optional)
<1>1. Len(all) - Len(<<>>) = Len(all)
  OBVIOUS
<1>2. HandledTo(dir, done, all, <<>>, optional, Len(all))
  BY Zenon, <1>1 DEF Halfway
<1> QED
  BY Zenon, <1>2 DEF HandledTo, Shown

\* The references stand for sources, in their order: src tells for which.
StandFor(dir, src, refs, sources) ==
    /\ src \in [1 .. Len(refs) -> 1 .. Len(sources)]
    /\ \A k, l \in 1 .. Len(refs) : k < l => src[k] < src[l]
    /\ \A k \in 1 .. Len(refs), v \in Value : Shows(dir, v, refs[k]) => Shows(dir, v, sources[src[k]])

Through(src, at, n) == [i \in 1 .. n |-> src[at[i]]]

\* A selection from references is a selection from the sources that they stand for.
LEMMA PicksCompose ==
    ASSUME NEW dir, NEW values \in Seq(Value), NEW refs, NEW sources, NEW at, NEW src,
           Picks(dir, at, values, refs), StandFor(dir, src, refs, sources)
    PROVE  Picks(dir, Through(src, at, Len(values)), values, sources)
<1> DEFINE both == Through(src, at, Len(values))
<1>1. \A i \in 1 .. Len(values) : at[i] \in 1 .. Len(refs) /\ values[i] \in Value
  BY DEF Picks
<1>2. \A k \in 1 .. Len(refs) : src[k] \in 1 .. Len(sources)
  BY DEF StandFor
<1>3. both \in [1 .. Len(values) -> 1 .. Len(sources)]
  BY <1>1, <1>2 DEF Through
<1>4. \A i \in 1 .. Len(values) : both[i] = src[at[i]]
  BY DEF Through
<1> HIDE DEF both
<1>5. \A i, j \in 1 .. Len(values) : i < j => both[i] < both[j]
  BY <1>1, <1>4 DEF Picks, StandFor
<1>6. \A i \in 1 .. Len(values) : Shows(dir, values[i], sources[both[i]])
  BY <1>1, <1>4 DEF Picks, StandFor
<1> QED
  BY Zenon, <1>3, <1>5, <1>6 DEF Picks, both

\* What shows a stored file shows the form's file that was stored.
LEMMA StoredShows ==
    ASSUME NEW dir, NEW v, NEW ref, NEW source,
           ref.kind = "stored", source.kind = "file",
           Shows(dir, ref, source), Shows(dir, v, ref)
    PROVE  Shows(dir, v, source)
  BY DEF Shows

LEMMA SeqOfMore ==
    ASSUME NEW S, NEW T, S \subseteq T, NEW list \in Seq(S)
    PROVE  list \in Seq(T)
  OBVIOUS

\* A frame has at most one reference in its field.
LEMMA InGroupTypes ==
    ASSUME NEW o \in Order, NEW g \in Groups
    PROVE  /\ InGroup(o, g) \in Seq(Sent)
           /\ g \in Frames => Len(InGroup(o, g)) <= 1
           /\ o.files[g] \in Seq(File)
<1>1. /\ o.single[g] \in Sent \union {Absent}
      /\ g \in Lists => o.refs[g] \in Seq(Sent)
      /\ o.files[g] \in Seq(File)
  BY DEF Order, File
<1>2. g \in Lists \/ g \in Frames
  BY DEF Groups
<1>3. ~(g \in Lists /\ g \in Frames)
  BY DEF Lists, Frames
<1> DEFINE alone == IF o.single[g] = Absent THEN <<>> ELSE <<o.single[g]>>
           more == IF g \in Lists THEN o.refs[g] ELSE <<>>
<1>4. alone \in Seq(Sent) /\ Len(alone) <= 1
  BY <1>1
<1>5. more \in Seq(Sent) /\ (g \in Frames => Len(more) = 0)
  BY <1>1, <1>3
<1>6. InGroup(o, g) = alone \o more
  BY DEF InGroup
<1> HIDE DEF alone, more
<1>7. alone \o more \in Seq(Sent) /\ Len(alone \o more) = Len(alone) + Len(more)
  BY <1>4, <1>5
<1> QED
  BY <1>1, <1>4, <1>5, <1>6, <1>7

\* The values show the sources of group g, and all of those that are due.
AllArrive(dir, values, o, g) ==
    \E at \in [1 .. Len(values) -> 1 .. Len(Sources(o, g))] :
       /\ Picks(dir, at, values, Sources(o, g))
       /\ \A k \in Due(o, g) : \E i \in 1 .. Len(values) : at[i] = k

\* Values that show the references of a group show its sources.
LEMMA ReferencesShowSources ==
    ASSUME NEW dir, NEW o \in Order, NEW saved \in [Groups -> Seq(Stored)], NEW g \in Groups,
           NEW values \in Seq(Value),
           Halfway(dir, saved[g], o.files[g], <<>>, MayFail),
           Halfway(dir, values, References(o, saved, g), <<>>, {"blank"})
    PROVE  AllArrive(dir, values, o, g)
<1> DEFINE named == InGroup(o, g)
           files == o.files[g]
           stored == saved[g]
           refs == References(o, saved, g)
           sources == Sources(o, g)
<1>1. /\ named \in Seq(Sent) /\ (g \in Frames => Len(named) <= 1)
      /\ files \in Seq(File) /\ stored \in Seq(Stored)
  BY InGroupTypes
<1>13. Halfway(dir, stored, files, <<>>, MayFail)
  OBVIOUS
<1> HIDE DEF named, files, stored
<1>3. PICK kept \in [1 .. Len(stored) -> 1 .. Len(files)] :
          /\ Picks(dir, kept, stored, files)
          /\ \A k \in 1 .. Len(files) :
                files[k].kind \notin MayFail => \E i \in 1 .. Len(stored) : kept[i] = k
  <2>1. Shown(dir, stored, files, MayFail)
    BY <1>1, <1>13, HalfwayEnds
  <2> QED
    BY Zenon, <2>1 DEF Shown
<1>4. /\ \A i \in 1 .. Len(stored) : stored[i].kind = "stored"
      /\ \A k \in 1 .. Len(files) : files[k].kind = "file"
  <2>1. /\ \A i \in 1 .. Len(stored) : stored[i] \in Stored
        /\ \A k \in 1 .. Len(files) : files[k] \in File
    BY <1>1
  <2> QED
    BY <2>1 DEF Stored, File
<1>5. refs \in Seq(Sent \union Stored) /\ sources \in Seq(Sent \union File)
  <2>1. /\ named \in Seq(Sent \union Stored) /\ stored \in Seq(Sent \union Stored)
        /\ named \in Seq(Sent \union File) /\ files \in Seq(Sent \union File)
    BY <1>1, SeqOfMore
  <2>2. named \o stored \in Seq(Sent \union Stored) /\ named \o files \in Seq(Sent \union File)
    BY <2>1
  <2>3. stored # <<>> => <<stored[1]>> \in Seq(Sent \union Stored)
    BY <2>1
  <2>4. <<>> \in Seq(Sent \union Stored)
    OBVIOUS
  <2> QED
    BY Zenon, <2>1, <2>2, <2>3, <2>4 DEF References, Sources, named, files, stored
<1>14. Halfway(dir, values, refs, <<>>, {"blank"})
  OBVIOUS
<1> HIDE DEF refs, sources
<1>6. PICK at \in [1 .. Len(values) -> 1 .. Len(refs)] :
          /\ Picks(dir, at, values, refs)
          /\ \A k \in 1 .. Len(refs) :
                refs[k].kind \notin {"blank"} => \E i \in 1 .. Len(values) : at[i] = k
  <2>1. Shown(dir, values, refs, {"blank"})
    BY <1>5, <1>14, HalfwayEnds
  <2> QED
    BY Zenon, <2>1 DEF Shown
<1>7. g \in Lists \/ g \in Frames
  BY DEF Groups
<1>8. SUFFICES
        \E src :
          /\ StandFor(dir, src, refs, sources)
          /\ \A k \in Due(o, g) : \E l \in 1 .. Len(refs) : src[l] = k /\ refs[l].kind # "blank"
  <2>1. PICK src :
          /\ StandFor(dir, src, refs, sources)
          /\ \A k \in Due(o, g) : \E l \in 1 .. Len(refs) : src[l] = k /\ refs[l].kind # "blank"
    BY Zenon, <1>8
  <2> DEFINE both == Through(src, at, Len(values))
  <2>2. Picks(dir, both, values, sources)
    BY Zenon, <1>6, <2>1, PicksCompose
  <2>3. both \in [1 .. Len(values) -> 1 .. Len(sources)]
    BY Zenon, <2>2 DEF Picks
  <2>4. ASSUME NEW k \in Due(o, g)
        PROVE  \E i \in 1 .. Len(values) : both[i] = k
    <3>1. PICK l \in 1 .. Len(refs) : src[l] = k /\ refs[l].kind # "blank"
      BY Zenon, <2>1
    <3>2. PICK i \in 1 .. Len(values) : at[i] = l
      BY <1>6, <3>1
    <3>3. both[i] = k
      BY Zenon, <3>1, <3>2 DEF Through
    <3> QED
      BY Zenon, <3>3
  <2> QED
    BY Zenon, <2>2, <2>3, <2>4 DEF AllArrive, sources
<1>9. \A i \in 1 .. Len(stored), v \in Value :
         Shows(dir, v, stored[i]) => Shows(dir, v, files[kept[i]])
  BY Zenon, <1>3, <1>4, StoredShows DEF Picks
<1>10. CASE g \in Lists
  <2> DEFINE src == [k \in 1 .. Len(refs) |->
                        IF k <= Len(named) THEN k ELSE Len(named) + kept[k - Len(named)]]
  <2>1. refs = named \o stored /\ sources = named \o files
    <3>1. g \notin Frames
      BY <1>10 DEF Lists, Frames
    <3> QED
      BY Zenon, <1>10, <3>1 DEF References, Sources, refs, sources, named, files, stored
  <2>2. /\ Len(named) \in Nat /\ Len(stored) \in Nat /\ Len(files) \in Nat
        /\ Len(refs) = Len(named) + Len(stored) /\ Len(sources) = Len(named) + Len(files)
        /\ \A k \in 1 .. Len(named) : refs[k] = named[k] /\ sources[k] = named[k]
        /\ \A i \in 1 .. Len(stored) : refs[Len(named) + i] = stored[i]
        /\ \A i \in 1 .. Len(files) : sources[Len(named) + i] = files[i]
    BY <1>1, <2>1
  <2>3. /\ \A k \in 1 .. Len(named) : k \in 1 .. Len(refs) /\ src[k] = k
        /\ \A i \in 1 .. Len(stored) :
              Len(named) + i \in 1 .. Len(refs) /\ src[Len(named) + i] = Len(named) + kept[i]
        /\ \A i \in 1 .. Len(stored) : kept[i] \in 1 .. Len(files)
        /\ \A k \in 1 .. Len(refs) :
              k \in 1 .. Len(named) \/ \E i \in 1 .. Len(stored) : k = Len(named) + i
    <3>1. \A k \in 1 .. Len(named) : k \in 1 .. Len(refs) /\ src[k] = k
      BY <2>2
    <3>2. ASSUME NEW i \in 1 .. Len(stored)
          PROVE  /\ Len(named) + i \in 1 .. Len(refs)
                 /\ src[Len(named) + i] = Len(named) + kept[i]
                 /\ kept[i] \in 1 .. Len(files)
      <4>1. Len(named) + i \in 1 .. Len(refs) /\ ~(Len(named) + i <= Len(named))
        BY <2>2
      <4>2. Len(named) + i - Len(named) = i
        BY <2>2
      <4>3. src[Len(named) + i] = Len(named) + kept[Len(named) + i - Len(named)]
        BY <4>1
      <4>4. kept[i] \in 1 .. Len(files)
        BY <1>3
      <4> QED
        BY Zenon, <4>1, <4>2, <4>3, <4>4
    <3>3. ASSUME NEW k \in 1 .. Len(refs), k \notin 1 .. Len(named)
          PROVE  \E i \in 1 .. Len(stored) : k = Len(named) + i
      <4>1. k - Len(named) \in 1 .. Len(stored) /\ k = Len(named) + (k - Len(named))
        BY <2>2, <3>3
      <4> QED
        BY <4>1
    <3> QED
      BY <3>1, <3>2, <3>3
  <2>4. ASSUME NEW k \in 1 .. Len(refs)
        PROVE  src[k] \in 1 .. Len(sources)
    <3> HIDE DEF src
    <3>1. CASE k \in 1 .. Len(named)
      BY <2>2, <2>3, <3>1
    <3>2. ASSUME NEW i \in 1 .. Len(stored), k = Len(named) + i
          PROVE  src[k] \in 1 .. Len(sources)
      BY <2>2, <2>3, <3>2
    <3> QED
      BY Zenon, <2>3, <3>1, <3>2
  <2>5. src \in [1 .. Len(refs) -> 1 .. Len(sources)]
    BY <2>4
  <2> HIDE DEF src
  <2>6. ASSUME NEW k \in 1 .. Len(refs), NEW l \in 1 .. Len(refs), k < l
        PROVE  src[k] < src[l]
    <3>1. CASE l \in 1 .. Len(named)
      <4>1. k \in 1 .. Len(named)
        BY <2>2, <2>6, <3>1
      <4> QED
        BY <2>3, <2>6, <3>1, <4>1
    <3>2. ASSUME NEW j \in 1 .. Len(stored), l = Len(named) + j
          PROVE  src[k] < src[l]
      <4>1. CASE k \in 1 .. Len(named)
        BY <2>2, <2>3, <3>2, <4>1
      <4>2. ASSUME NEW i \in 1 .. Len(stored), k = Len(named) + i
            PROVE  src[k] < src[l]
        <5>1. i < j
          BY <2>2, <2>6, <3>2, <4>2
        <5>2. kept[i] < kept[j]
          BY <1>3, <5>1 DEF Picks
        <5>3. src[k] = Len(named) + kept[i] /\ src[l] = Len(named) + kept[j]
          BY Zenon, <2>3, <3>2, <4>2
        <5>4. kept[i] \in 1 .. Len(files) /\ kept[j] \in 1 .. Len(files)
          BY Zenon, <2>3
        <5> QED
          BY <2>2, <5>2, <5>3, <5>4
      <4> QED
        BY Zenon, <2>3, <4>1, <4>2
    <3> QED
      BY Zenon, <2>3, <3>1, <3>2
  <2>7. ASSUME NEW k \in 1 .. Len(refs), NEW v \in Value, Shows(dir, v, refs[k])
        PROVE  Shows(dir, v, sources[src[k]])
    <3>1. CASE k \in 1 .. Len(named)
      BY Zenon, <2>2, <2>3, <2>7, <3>1
    <3>2. ASSUME NEW i \in 1 .. Len(stored), k = Len(named) + i
          PROVE  Shows(dir, v, sources[src[k]])
      <4>1. /\ refs[k] = stored[i]
            /\ src[k] = Len(named) + kept[i] /\ kept[i] \in 1 .. Len(files)
        BY Zenon, <2>2, <2>3, <3>2
      <4>2. sources[src[k]] = files[kept[i]]
        BY Zenon, <2>2, <4>1
      <4> QED
        BY Zenon, <1>9, <2>7, <4>1, <4>2
    <3> QED
      BY Zenon, <2>3, <3>1, <3>2
  <2>8. ASSUME NEW k \in Due(o, g)
        PROVE  \E l \in 1 .. Len(refs) : src[l] = k /\ refs[l].kind # "blank"
    <3>1. /\ k \in 1 .. Len(sources) /\ sources[k].kind # "blank"
          /\ sources[k].kind \notin MayFail
      BY DEF Due, sources
    <3>2. CASE k \in 1 .. Len(named)
      BY <2>2, <2>3, <3>1, <3>2
    <3>3. CASE k \notin 1 .. Len(named)
      <4> DEFINE i == k - Len(named)
      <4>1. i \in 1 .. Len(files) /\ k = Len(named) + i
        BY <2>2, <3>1, <3>3
      <4> HIDE DEF i
      <4>2. files[i].kind = "file" /\ sources[k] = files[i]
        BY <1>4, <2>2, <4>1
      <4>3. PICK j \in 1 .. Len(stored) : kept[j] = i
        BY <1>3, <3>1, <4>1, <4>2
      <4>4. /\ Len(named) + j \in 1 .. Len(refs) /\ src[Len(named) + j] = k
            /\ refs[Len(named) + j].kind = "stored"
        <5>1. /\ Len(named) + j \in 1 .. Len(refs)
              /\ src[Len(named) + j] = Len(named) + kept[j]
          BY Zenon, <2>3
        <5>2. refs[Len(named) + j] = stored[j]
          BY Zenon, <2>2
        <5> QED
          BY Zenon, <1>4, <4>1, <4>3, <5>1, <5>2
      <4> QED
        BY <4>4
    <3> QED
      BY <3>2, <3>3
  <2> QED
    BY Zenon, <2>5, <2>6, <2>7, <2>8 DEF StandFor
<1>11. CASE g \in Frames /\ named # <<>>
  <2>1. refs = named /\ sources = named
    <3>1. g \notin Lists
      BY <1>11 DEF Lists, Frames
    <3> QED
      BY Zenon, <1>11, <3>1 DEF References, Sources, refs, sources, named
  <2> DEFINE src == [k \in 1 .. Len(refs) |-> k]
  <2>2. /\ src \in [1 .. Len(refs) -> 1 .. Len(sources)]
        /\ \A k \in 1 .. Len(refs) : src[k] = k
    BY <2>1
  <2> HIDE DEF src
  <2>3. /\ \A k, l \in 1 .. Len(refs) : k < l => src[k] < src[l]
        /\ \A k \in 1 .. Len(refs), v \in Value :
              Shows(dir, v, refs[k]) => Shows(dir, v, sources[src[k]])
    BY <2>1, <2>2
  <2>4. \A k \in Due(o, g) : k \in 1 .. Len(sources) /\ sources[k].kind # "blank"
    BY DEF Due, sources
  <2>5. \A k \in Due(o, g) : \E l \in 1 .. Len(refs) : src[l] = k /\ refs[l].kind # "blank"
    BY Zenon, <2>1, <2>2, <2>4
  <2> QED
    BY Zenon, <2>2, <2>3, <2>5 DEF StandFor
<1>12. CASE g \in Frames /\ named = <<>>
  <2> DEFINE src == [k \in 1 .. Len(refs) |-> kept[1]]
  <2>1. g \notin Lists
    BY <1>12 DEF Lists, Frames
  <2>2. /\ refs = IF stored # <<>> THEN <<stored[1]>> ELSE <<>>
        /\ sources = named \o files
    BY Zenon, <1>12, <2>1 DEF References, Sources, refs, sources, named, files, stored
  <2>3. sources = files
    BY <1>1, <1>12, <2>2
  <2>4. /\ Len(stored) \in Nat /\ Len(refs) \in Nat
        /\ \A k \in 1 .. Len(refs) : k = 1 /\ 1 \in 1 .. Len(stored) /\ refs[1] = stored[1]
        /\ 1 \in 1 .. Len(stored) => 1 \in 1 .. Len(refs)
    <3>1. CASE stored = <<>>
      BY <2>2, <3>1
    <3>2. CASE stored # <<>>
      <4>1. Len(stored) \in Nat /\ Len(stored) >= 1 /\ refs = <<stored[1]>>
        BY <1>1, <2>2, <3>2
      <4> QED
        BY <4>1
    <3> QED
      BY <3>1, <3>2
  <2>5. \A k \in Due(o, g) :
           /\ k = 1 /\ k \in 1 .. Len(sources)
           /\ sources[k].kind \notin MayFail
    BY <1>12 DEF Due, sources
  <2>6. /\ src \in [1 .. Len(refs) -> 1 .. Len(sources)]
        /\ \A k \in 1 .. Len(refs) : src[k] = kept[1]
    BY <1>3, <2>3, <2>4
  <2> HIDE DEF src
  <2>7. \A k, l \in 1 .. Len(refs) : k < l => src[k] < src[l]
    BY <2>4
  <2>8. \A k \in 1 .. Len(refs), v \in Value :
           Shows(dir, v, refs[k]) => Shows(dir, v, sources[src[k]])
    BY Zenon, <1>9, <2>3, <2>4, <2>6
  <2>9. ASSUME NEW k \in Due(o, g)
        PROVE  \E l \in 1 .. Len(refs) : src[l] = k /\ refs[l].kind # "blank"
    <3>1. k = 1 /\ 1 \in 1 .. Len(files) /\ files[1].kind \notin MayFail
      BY <1>4, <2>3, <2>5
    <3>2. PICK j \in 1 .. Len(stored) : kept[j] = 1
      BY <1>3, <3>1
    <3>3. 1 \in 1 .. Len(stored) /\ kept[1] \in 1 .. Len(files)
      BY <1>3, <2>4, <3>2
    <3>4. kept[1] = 1
      <4>1. 1 < j => kept[1] < kept[j]
        BY <1>3, <3>2, <3>3 DEF Picks
      <4> QED
        BY <3>2, <3>3, <4>1
    <3>5. 1 \in 1 .. Len(refs) /\ src[1] = k /\ refs[1].kind = "stored"
      BY <1>4, <2>4, <2>6, <3>1, <3>3, <3>4
    <3> QED
      BY <3>5
  <2> QED
    BY Zenon, <2>6, <2>7, <2>8, <2>9 DEF StandFor
<1> QED
  BY Zenon, <1>7, <1>10, <1>11, <1>12

\* What the directory leads to it still leads to.
StillLeads(d1, d2) == \A n, m : LeadsTo(d1, n, m) => LeadsTo(d2, n, m)

LEMMA GroupStays ==
    ASSUME NEW d1, NEW d2, NEW r, NEW g, GroupOnItsWay(d1, r, g), StillLeads(d1, d2)
    PROVE  GroupOnItsWay(d2, r, g)
<1>1. \A n, m : LeadsTo(d1, n, m) => LeadsTo(d2, n, m)
  BY Zenon DEF StillLeads
<1>2. ASSUME NEW done, NEW all, NEW todo, NEW optional, Halfway(d1, done, all, todo, optional)
      PROVE  Halfway(d2, done, all, todo, optional)
  BY <1>1, <1>2, HalfwayStays
<1> QED
  BY <1>2 DEF GroupOnItsWay

LEMMA OthersStay ==
    ASSUME NEW d1, NEW d2, NEW r, OnItsWay(d1, r), StillLeads(d1, d2)
    PROVE  OnItsWay(d2, r)
  BY Zenon, GroupStays DEF OnItsWay

LEMMA StateTypes ==
    ASSUME NEW r \in OrderState, NEW g \in Groups
    PROVE  /\ r.order \in Order /\ r.order.files[g] \in Seq(File)
           /\ r.todo[g] \in Seq(Item) /\ r.saved[g] \in Seq(Stored) /\ r.flags[g] \in Seq(Value)
           /\ r.saved \in [Groups -> Seq(Stored)]
           /\ File \subseteq Item /\ r.order.files[g] \in Seq(Item)
<1>1. /\ r.order \in Order /\ r.todo[g] \in Seq(Item) /\ r.saved[g] \in Seq(Stored)
      /\ r.flags[g] \in Seq(Value) /\ r.saved \in [Groups -> Seq(Stored)]
  BY DEF OrderState
<1>2. r.order.files[g] \in Seq(File)
  BY <1>1, InGroupTypes
<1>3. File \subseteq Item
  BY DEF Item
<1>4. r.order.files[g] \in Seq(Item)
  BY Zenon, <1>2, <1>3, SeqOfMore
<1> QED
  BY <1>1, <1>2, <1>3, <1>4

LEMMA ReferencesTypes ==
    ASSUME NEW o \in Order, NEW saved \in [Groups -> Seq(Stored)], NEW g \in Groups
    PROVE  References(o, saved, g) \in Seq(Item)
<1> DEFINE named == InGroup(o, g)
           stored == saved[g]
<1>1. named \in Seq(Item) /\ stored \in Seq(Item)
  <2>1. named \in Seq(Sent) /\ stored \in Seq(Stored)
    BY InGroupTypes
  <2>2. Sent \subseteq Item /\ Stored \subseteq Item
    BY DEF Item
  <2> QED
    BY Zenon, <2>1, <2>2, SeqOfMore
<1> HIDE DEF named, stored
<1>2. named \o stored \in Seq(Item) /\ <<>> \in Seq(Item)
  BY <1>1
<1>3. stored # <<>> => <<stored[1]>> \in Seq(Item)
  BY <1>1
<1> QED
  BY Zenon, <1>1, <1>2, <1>3 DEF References, named, stored

\* The request after the first item of group g, which came to nothing or to value v.
After(q, g) == [q EXCEPT !.todo[g] = Tail(@)]
AfterSaving(q, g, v) == [After(q, g) EXCEPT !.saved[g] = Append(@, v)]
AfterPassing(q, g, v) == [After(q, g) EXCEPT !.flags[g] = Append(@, v)]

LEMMA RestTypes ==
    ASSUME NEW q \in OrderState, NEW g \in Groups, q.todo[g] # <<>>,
           NEW r, r = After(q, g)
    PROVE  /\ r \in OrderState
           /\ r.pc = q.pc /\ r.order = q.order /\ r.saved = q.saved /\ r.flags = q.flags
           /\ r.todo[g] = Tail(q.todo[g])
           /\ \A h \in Groups : h # g => r.todo[h] = q.todo[h]
<1>1. q.todo \in [Groups -> Seq(Item)]
  BY DEF OrderState
<1>2. Tail(q.todo[g]) \in Seq(Item)
  BY <1>1
<1>3. r.todo \in [Groups -> Seq(Item)] /\ r.todo = [q.todo EXCEPT ![g] = Tail(@)]
  BY <1>1, <1>2 DEF OrderState, After
<1> QED
  BY <1>1, <1>3 DEF OrderState, After

LEMMA PassesOver ==
    ASSUME NEW dir, NEW q \in OrderState, NEW g \in Groups, q.todo[g] # <<>>, OnItsWay(dir, q),
           \/ q.pc = "saving" /\ Head(q.todo[g]).kind \in MayFail
           \/ q.pc = "resolving" /\ Head(q.todo[g]).kind = "blank",
           NEW r, r = After(q, g)
    PROVE  OnItsWay(dir, r)
<1> DEFINE refs == References(q.order, q.saved, g)
<1>1. GroupOnItsWay(dir, q, g)
  BY Zenon DEF OnItsWay
<1>2. /\ q.pc = "saving" => Halfway(dir, q.saved[g], q.order.files[g], q.todo[g], MayFail)
      /\ q.pc = "resolving" => Halfway(dir, q.flags[g], refs, q.todo[g], {"blank"})
  BY Zenon, <1>1 DEF GroupOnItsWay
<1>3. refs \in Seq(Item)
  BY Zenon, StateTypes, ReferencesTypes
<1>4. /\ q.pc = "saving" => Head(q.todo[g]).kind \in MayFail
      /\ q.pc = "resolving" => Head(q.todo[g]).kind \in {"blank"}
  OBVIOUS
<1> HIDE DEF refs
<1>5. q.pc = "saving" => Halfway(dir, q.saved[g], q.order.files[g], Tail(q.todo[g]), MayFail)
  BY Zenon, <1>2, <1>4, HalfwayPasses, StateTypes
<1>6. q.pc = "resolving" => Halfway(dir, q.flags[g], refs, Tail(q.todo[g]), {"blank"})
  BY Zenon, <1>2, <1>3, <1>4, HalfwayPasses, StateTypes
<1>7. GroupOnItsWay(dir, r, g)
  <2>1. /\ r.pc = q.pc /\ r.order = q.order /\ r.saved = q.saved /\ r.flags = q.flags
        /\ r.todo[g] = Tail(q.todo[g])
    BY RestTypes
  <2>2. q.pc # "built"
    OBVIOUS
  <2> QED
    BY <1>1, <1>5, <1>6, <2>1, <2>2 DEF GroupOnItsWay, refs
<1>8. ASSUME NEW h \in Groups, h # g
      PROVE  GroupOnItsWay(dir, r, h)
  <2>1. GroupOnItsWay(dir, q, h)
    BY Zenon DEF OnItsWay
  <2>2. /\ r.pc = q.pc /\ r.order = q.order /\ r.saved = q.saved /\ r.flags = q.flags
        /\ r.todo[h] = q.todo[h]
    BY <1>8, RestTypes
  <2> QED
    BY Zenon, <2>1, <2>2 DEF GroupOnItsWay
<1> QED
  BY Zenon, <1>7, <1>8 DEF OnItsWay

LEMMA TakesFile ==
    ASSUME NEW dir, NEW q \in OrderState, NEW g \in Groups, q.todo[g] # <<>>, OnItsWay(dir, q),
           q.pc = "saving", NEW v \in Stored, Shows(dir, v, Head(q.todo[g])),
           NEW r, r = AfterSaving(q, g, v)
    PROVE  /\ r \in OrderState /\ r.pc = q.pc /\ r.order = q.order
           /\ OnItsWay(dir, r)
<1>1. PICK p : p = After(q, g)
  BY Zenon
<1>2. /\ p \in OrderState
      /\ p.pc = q.pc /\ p.order = q.order /\ p.saved = q.saved /\ p.flags = q.flags
      /\ p.todo[g] = Tail(q.todo[g])
      /\ \A h \in Groups : h # g => p.todo[h] = q.todo[h]
  BY <1>1, RestTypes
<1>3. r = [p EXCEPT !.saved[g] = Append(@, v)]
  BY <1>1 DEF AfterSaving
<1>4. p.saved \in [Groups -> Seq(Stored)] /\ Append(p.saved[g], v) \in Seq(Stored)
  BY <1>2 DEF OrderState
<1>5. /\ r \in OrderState
      /\ r.pc = q.pc /\ r.order = q.order /\ r.todo = p.todo /\ r.flags = q.flags
      /\ r.saved = [p.saved EXCEPT ![g] = Append(p.saved[g], v)]
  <2> DEFINE new == Append(p.saved[g], v)
  <2>1. r = [p EXCEPT !.saved = [p.saved EXCEPT ![g] = new]]
    BY <1>2, <1>3 DEF OrderState
  <2> HIDE DEF new
  <2>2. [p.saved EXCEPT ![g] = new] \in [Groups -> Seq(Stored)]
    BY <1>4 DEF new
  <2>3. PICK more : more = [p.saved EXCEPT ![g] = new]
    BY Zenon
  <2>4. r = [p EXCEPT !.saved = more] /\ more \in [Groups -> Seq(Stored)]
    BY Zenon, <2>1, <2>2, <2>3
  <2>5. /\ r \in OrderState
        /\ r.pc = p.pc /\ r.order = p.order /\ r.todo = p.todo /\ r.flags = p.flags /\ r.saved = more
    BY <1>2, <2>4 DEF OrderState
  <2> QED
    BY Zenon, <1>2, <2>3, <2>5 DEF new
<1>6. /\ r.saved[g] = Append(q.saved[g], v)
      /\ \A h \in Groups : h # g => r.saved[h] = q.saved[h]
  BY <1>2, <1>4, <1>5
<1>7. GroupOnItsWay(dir, q, g)
  BY Zenon DEF OnItsWay
<1>8. Halfway(dir, q.saved[g], q.order.files[g], q.todo[g], MayFail) /\ q.flags[g] = <<>>
  BY <1>7 DEF GroupOnItsWay
<1>9. Halfway(dir, Append(q.saved[g], v), q.order.files[g], Tail(q.todo[g]), MayFail)
  BY Zenon, <1>8, HalfwayTakes, StateTypes
<1>10. GroupOnItsWay(dir, r, g)
  BY <1>2, <1>5, <1>6, <1>8, <1>9 DEF GroupOnItsWay
<1>11. ASSUME NEW h \in Groups, h # g
       PROVE  GroupOnItsWay(dir, r, h)
  <2>1. GroupOnItsWay(dir, q, h)
    BY Zenon DEF OnItsWay
  <2> QED
    BY <1>2, <1>5, <1>6, <1>11, <2>1 DEF GroupOnItsWay
<1> QED
  BY Zenon, <1>5, <1>10, <1>11 DEF OnItsWay

LEMMA TakesValue ==
    ASSUME NEW dir, NEW q \in OrderState, NEW g \in Groups, q.todo[g] # <<>>, OnItsWay(dir, q),
           q.pc = "resolving", NEW v \in Value, Shows(dir, v, Head(q.todo[g])),
           NEW r, r = AfterPassing(q, g, v)
    PROVE  /\ r \in OrderState /\ r.pc = q.pc /\ r.order = q.order
           /\ OnItsWay(dir, r)
<1> DEFINE refs == References(q.order, q.saved, g)
<1>1. PICK p : p = After(q, g)
  BY Zenon
<1>2. /\ p \in OrderState
      /\ p.pc = q.pc /\ p.order = q.order /\ p.saved = q.saved /\ p.flags = q.flags
      /\ p.todo[g] = Tail(q.todo[g])
      /\ \A h \in Groups : h # g => p.todo[h] = q.todo[h]
  BY <1>1, RestTypes
<1>3. r = [p EXCEPT !.flags[g] = Append(@, v)]
  BY <1>1 DEF AfterPassing
<1>4. p.flags \in [Groups -> Seq(Value)] /\ Append(p.flags[g], v) \in Seq(Value)
  BY <1>2 DEF OrderState
<1>5. /\ r \in OrderState
      /\ r.pc = q.pc /\ r.order = q.order /\ r.todo = p.todo /\ r.saved = q.saved
      /\ r.flags = [p.flags EXCEPT ![g] = Append(p.flags[g], v)]
  <2> DEFINE new == Append(p.flags[g], v)
  <2>1. r = [p EXCEPT !.flags = [p.flags EXCEPT ![g] = new]]
    BY <1>2, <1>3 DEF OrderState
  <2> HIDE DEF new
  <2>2. [p.flags EXCEPT ![g] = new] \in [Groups -> Seq(Value)]
    BY <1>4 DEF new
  <2>3. PICK more : more = [p.flags EXCEPT ![g] = new]
    BY Zenon
  <2>4. r = [p EXCEPT !.flags = more] /\ more \in [Groups -> Seq(Value)]
    BY Zenon, <2>1, <2>2, <2>3
  <2>5. /\ r \in OrderState
        /\ r.pc = p.pc /\ r.order = p.order /\ r.todo = p.todo /\ r.saved = p.saved /\ r.flags = more
    BY <1>2, <2>4 DEF OrderState
  <2> QED
    BY Zenon, <1>2, <2>3, <2>5 DEF new
<1>6. /\ r.flags[g] = Append(q.flags[g], v)
      /\ \A h \in Groups : h # g => r.flags[h] = q.flags[h]
  BY <1>2, <1>4, <1>5
<1>7. GroupOnItsWay(dir, q, g)
  BY Zenon DEF OnItsWay
<1>8. Halfway(dir, q.flags[g], refs, q.todo[g], {"blank"})
  BY <1>7 DEF GroupOnItsWay
<1>9. refs \in Seq(Item)
  BY Zenon, StateTypes, ReferencesTypes
<1> HIDE DEF refs
<1>10. Halfway(dir, Append(q.flags[g], v), refs, Tail(q.todo[g]), {"blank"})
  BY Zenon, <1>8, <1>9, HalfwayTakes, StateTypes
<1>11. GroupOnItsWay(dir, r, g)
  BY <1>2, <1>5, <1>6, <1>7, <1>10 DEF GroupOnItsWay, refs
<1>12. ASSUME NEW h \in Groups, h # g
       PROVE  GroupOnItsWay(dir, r, h)
  <2>1. GroupOnItsWay(dir, q, h)
    BY Zenon DEF OnItsWay
  <2> QED
    BY <1>2, <1>5, <1>6, <1>12, <2>1 DEF GroupOnItsWay
<1> QED
  BY Zenon, <1>5, <1>11, <1>12 DEF OnItsWay

\* What a step of the request of s, which becomes r, has to show.
LEMMA RequestMoves ==
    ASSUME MediaInvariant, NEW s \in Senders, NEW r \in OrderState,
           orders' = [orders EXCEPT ![s] = r], tick' = tick, mine' = mine,
           DirectoryOK', StillLeads(uploads, uploads'),
           HasUploaded(s, r), OnItsWay(uploads', r)
    PROVE  MediaInvariant'
<1>1. orders \in [Senders -> OrderState]
  BY DEF MediaInvariant, MediaTypeOK
<1>2. /\ orders' \in [Senders -> OrderState]
      /\ orders'[s] = r
      /\ \A t \in Senders : t # s => orders'[t] = orders[t]
  BY <1>1
<1>3. MediaTypeOK'
  BY <1>2 DEF MediaInvariant, MediaTypeOK
<1>4. ASSUME NEW t \in Senders
      PROVE  /\ mine'[t] # NoName => LeadsTo(uploads', mine'[t], Uploaded)
             /\ HasUploaded(t, orders[t])
             /\ OnItsWay(uploads', orders[t])
  <2>1. /\ mine[t] # NoName => LeadsTo(uploads, mine[t], Uploaded)
        /\ HasUploaded(t, orders[t])
        /\ OnItsWay(uploads, orders[t])
    BY Zenon DEF MediaInvariant
  <2>2. OnItsWay(uploads', orders[t])
    BY Zenon, <2>1, OthersStay
  <2> QED
    BY Zenon, <2>1, <2>2 DEF StillLeads
<1>5. ASSUME NEW t \in Senders
      PROVE  HasUploaded(t, orders[t])' /\ OnItsWay(uploads', orders'[t])
  <2>1. CASE t = s
    BY Zenon, <1>2, <2>1 DEF HasUploaded
  <2>2. CASE t # s
    BY Zenon, <1>2, <1>4, <2>2 DEF HasUploaded
  <2> QED
    BY <2>1, <2>2
<1> QED
  BY Zenon, <1>3, <1>4, <1>5 DEF MediaInvariant

LEMMA NothingWritten ==
    ASSUME DirectoryOK, UNCHANGED uploads
    PROVE  DirectoryOK' /\ StillLeads(uploads, uploads')
  BY DEF DirectoryOK, StillLeads

\* A file that is replaced was written at the same tick, since its name says when.
LEMMA Written ==
    ASSUME DirectoryOK, NEW m, WriteUpload(m)
    PROVE  /\ DirectoryOK' /\ StillLeads(uploads, uploads')
           /\ LeadsTo(uploads', UploadName(m), m)
<1> DEFINE name == UploadName(m)
           clash == name \in DOMAIN uploads /\ uploads[name].at = tick
           file == [what |-> m, at |-> tick, clash |-> clash]
<1>1. uploads' = [n \in DOMAIN uploads \union {name} |-> IF n = name THEN file ELSE uploads[n]]
  BY Zenon DEF WriteUpload
<1>2. /\ DOMAIN uploads' = DOMAIN uploads \union {name}
      /\ uploads'[name] = file
      /\ \A n \in DOMAIN uploads : n # name => uploads'[n] = uploads[n]
  <2> HIDE DEF name, file
  <2> QED
    BY Zenon, <1>1
<1>3. name[1] = tick
  BY DEF UploadName
<1>4. file.at = tick /\ file.what = m /\ file.clash = clash
  OBVIOUS
<1>5. DirectoryOK'
  <2> HIDE DEF name, file
  <2> QED
    BY <1>2, <1>3, <1>4 DEF DirectoryOK
<1>6. name \in DOMAIN uploads => clash
  <2> HIDE DEF name
  <2> QED
    BY <1>3 DEF DirectoryOK
<1> HIDE DEF name, file, clash
<1>7. ASSUME NEW n, NEW x, LeadsTo(uploads, n, x)
      PROVE  LeadsTo(uploads', n, x)
  <2>1. CASE n = name
    BY <1>2, <1>4, <1>6, <1>7, <2>1 DEF LeadsTo
  <2>2. CASE n # name
    BY <1>2, <1>7, <2>2 DEF LeadsTo
  <2> QED
    BY <2>1, <2>2
<1>8. LeadsTo(uploads', name, m)
  BY <1>2, <1>4 DEF LeadsTo
<1> QED
  BY Zenon, <1>5, <1>7, <1>8 DEF StillLeads, name

LEMMA NameTypes ==
    ASSUME tick \in Nat, NEW m \in Content
    PROVE  UploadName(m) \in Names
  BY DEF UploadName, Names

LEMMA StoredTypes ==
    ASSUME NEW name \in Names
    PROVE  /\ Reference("stored", name) \in Stored /\ Reference("stored", name) \in Value
           /\ Reference("stored", name).kind = "stored" /\ Reference("stored", name).what = name
  BY DEF Reference, Stored, Value

\* The types part of the invariant.
LEMMA MediaTypes ==
    ASSUME MediaInvariant, NEW s \in Senders
    PROVE  /\ tick \in Nat /\ DirectoryOK
           /\ mine[s] \in Names \union {NoName}
           /\ orders[s] \in OrderState
           /\ mine[s] # NoName => LeadsTo(uploads, mine[s], Uploaded)
           /\ HasUploaded(s, orders[s]) /\ OnItsWay(uploads, orders[s])
  BY DEF MediaInvariant, MediaTypeOK

LEMMA NowhereTypes ==
    /\ Nowhere \in [Groups -> Seq(Item)] /\ Nowhere \in [Groups -> Seq(Stored)]
    /\ Nowhere \in [Groups -> Seq(Value)]
    /\ \A g \in Groups : Nowhere[g] = <<>>
  BY DEF Nowhere

LEMMA BareIsAnOrder ==
    ASSUME NEW b \in BOOLEAN
    PROVE  Bare(b) \in Order
<1>1. [g \in Groups |-> Absent] \in [Groups -> Sent \union {Absent}]
  OBVIOUS
<1>2. [g \in Lists |-> <<>>] \in [Lists -> Seq(Sent)]
  OBVIOUS
<1>3. [g \in Groups |-> <<>>] \in [Groups -> Seq([kind : {"file"}, what : Content])]
  OBVIOUS
<1> QED
  BY <1>1, <1>2, <1>3 DEF Bare, Order

\* A request that is refused, or not sent yet, has nothing.
LEMMA NothingOnItsWay ==
    ASSUME NEW dir, NEW r, r.pc \in {"unsent", "refused"}
    PROVE  OnItsWay(dir, r)
  BY DEF OnItsWay, GroupOnItsWay

LEMMA RefusedTypes ==
    /\ Unsent \in OrderState /\ Unsent.pc = "unsent" /\ Unsent.flags = Nowhere /\ Unsent.saved = Nowhere
    /\ [Unsent EXCEPT !.pc = "refused"] \in OrderState
    /\ [Unsent EXCEPT !.pc = "refused"].pc = "refused"
  BY NowhereTypes, BareIsAnOrder DEF Unsent, OrderState

LEMMA Refused ==
    ASSUME MediaInvariant, NEW s \in Senders, UNCHANGED <<uploads, tick, mine>>,
           orders' = [orders EXCEPT ![s] = [Unsent EXCEPT !.pc = "refused"]]
    PROVE  MediaInvariant'
<1>1. PICK r : r = [Unsent EXCEPT !.pc = "refused"]
  BY Zenon
<1>2. r \in OrderState /\ r.pc = "refused"
  BY Zenon, <1>1, RefusedTypes
<1>3. HasUploaded(s, r) /\ OnItsWay(uploads', r)
  BY <1>2, NothingOnItsWay DEF HasUploaded
<1>4. DirectoryOK' /\ StillLeads(uploads, uploads')
  BY MediaTypes, NothingWritten
<1>5. orders' = [orders EXCEPT ![s] = r]
  BY <1>1
<1> QED
  BY <1>2, <1>3, <1>4, <1>5, RequestMoves

LEMMA FilesUploadKeepsMedia ==
    ASSUME MediaInvariant, NEW s \in Senders, FilesUpload(s)
    PROVE  MediaInvariant'
<1>1. /\ WriteUpload(Uploaded) /\ mine[s] = NoName
      /\ mine' = [mine EXCEPT ![s] = UploadName(Uploaded)]
      /\ tick' = tick /\ orders' = orders
  BY DEF FilesUpload
<1>2. /\ DirectoryOK' /\ StillLeads(uploads, uploads')
      /\ LeadsTo(uploads', UploadName(Uploaded), Uploaded)
  BY Zenon, <1>1, MediaTypes, Written
<1>3. UploadName(Uploaded) \in Names
  BY MediaTypes, NameTypes, MediaAssumption
<1>4. mine \in [Senders -> Names \union {NoName}]
  BY DEF MediaInvariant, MediaTypeOK
<1>5. /\ mine' \in [Senders -> Names \union {NoName}]
      /\ mine'[s] = UploadName(Uploaded)
      /\ \A t \in Senders : t # s => mine'[t] = mine[t]
  BY <1>1, <1>3, <1>4
<1>6. MediaTypeOK'
  BY <1>1, <1>5 DEF MediaInvariant, MediaTypeOK
<1>7. ASSUME NEW t \in Senders
      PROVE  /\ mine'[t] # NoName => LeadsTo(uploads', mine'[t], Uploaded)
             /\ HasUploaded(t, orders[t])'
             /\ OnItsWay(uploads', orders'[t])
  <2>1. /\ mine[t] # NoName => LeadsTo(uploads, mine[t], Uploaded)
        /\ HasUploaded(t, orders[t]) /\ OnItsWay(uploads, orders[t])
    BY MediaTypes
  <2>2. OnItsWay(uploads', orders'[t])
    BY Zenon, <1>1, <1>2, <2>1, OthersStay
  <2>3. mine'[t] # NoName => LeadsTo(uploads', mine'[t], Uploaded)
    <3>1. CASE t = s
      BY Zenon, <1>2, <1>5, <3>1
    <3>2. CASE t # s
      BY Zenon, <1>2, <1>5, <2>1, <3>2 DEF StillLeads
    <3> QED
      BY <3>1, <3>2
  <2>4. HasUploaded(t, orders[t])'
    <3>1. orders[t].pc \in {"saving", "resolving", "built"} => t # s
      BY <1>1, RefusedTypes DEF FilesUpload
    <3> QED
      BY Zenon, <1>1, <1>5, <2>1, <3>1 DEF HasUploaded
  <2> QED
    BY <2>2, <2>3, <2>4
<1> QED
  BY Zenon, <1>2, <1>6, <1>7 DEF MediaInvariant

LEMMA SendOrderKeepsMedia ==
    ASSUME MediaInvariant, NEW s \in Senders, NEW o \in Orders, SendOrder(s, o)
    PROVE  MediaInvariant'
<1>1. PICK r : r = [Unsent EXCEPT !.pc = "saving", !.order = o, !.todo = o.files]
  BY Zenon
<1>2. o \in Order
  BY MediaAssumption
<1>3. o.files \in [Groups -> Seq(Item)]
  <2>1. o.files \in [Groups -> Seq(File)] /\ File \subseteq Item
    BY <1>2 DEF Order, File, Item
  <2>2. ASSUME NEW g \in Groups
        PROVE  o.files[g] \in Seq(Item)
    BY <2>1, SeqOfMore
  <2> QED
    BY <2>1, <2>2
<1>4. /\ r \in OrderState /\ r.pc = "saving" /\ r.order = o /\ r.todo = o.files
      /\ r.saved = Nowhere /\ r.flags = Nowhere
  BY <1>1, <1>2, <1>3, RefusedTypes DEF OrderState
<1>5. OnItsWay(uploads, r)
  <2>1. ASSUME NEW g \in Groups
        PROVE  Halfway(uploads, <<>>, o.files[g], o.files[g], MayFail)
    <3>1. o.files[g] \in Seq(Item)
      BY <1>3
    <3> QED
      BY Zenon, <3>1, HalfwayStarts
  <2>2. \A g \in Groups : r.saved[g] = <<>> /\ r.flags[g] = <<>>
    BY <1>4, NowhereTypes
  <2> QED
    BY <1>4, <2>1, <2>2 DEF OnItsWay, GroupOnItsWay
<1>6. /\ UNCHANGED <<uploads, tick, mine>> /\ orders' = [orders EXCEPT ![s] = r]
      /\ NeedsUpload(o) => mine[s] # NoName
  BY <1>1 DEF SendOrder
<1>7. HasUploaded(s, r)
  BY <1>4, <1>6 DEF HasUploaded
<1>8. DirectoryOK' /\ StillLeads(uploads, uploads')
  BY <1>6, MediaTypes, NothingWritten
<1> QED
  BY <1>4, <1>5, <1>6, <1>7, <1>8, RequestMoves

\* The request that waits for its turn, and its first item.
LEMMA TurnTypes ==
    ASSUME MediaInvariant, NEW s \in Senders, NEW turns, NEW g \in Groups, Turn(s, turns, g)
    PROVE  /\ orders[s] \in OrderState /\ OnItsWay(uploads, orders[s])
           /\ orders[s].todo[g] # <<>>
           /\ Head(orders[s].todo[g]) \in Item
           /\ Rest(s, g) = After(orders[s], g)
<1>1. orders[s] \in OrderState /\ OnItsWay(uploads, orders[s])
  BY MediaTypes
<1>2. orders[s].todo[g] # <<>>
  BY DEF Turn
<1>3. orders[s].todo[g] \in Seq(Item)
  BY <1>1, StateTypes
<1>4. Head(orders[s].todo[g]) \in Item
  BY <1>2, <1>3
<1> QED
  BY <1>1, <1>2, <1>4 DEF Rest, After

\* A step that only passes over an item.
LEMMA PassingOverKeepsMedia ==
    ASSUME MediaInvariant, NEW s \in Senders, NEW turns, NEW g \in Groups, Turn(s, turns, g),
           \/ orders[s].pc = "saving" /\ Head(orders[s].todo[g]).kind \in MayFail
           \/ orders[s].pc = "resolving" /\ Head(orders[s].todo[g]).kind = "blank",
           orders' = [orders EXCEPT ![s] = Rest(s, g)], UNCHANGED <<uploads, tick, mine>>
    PROVE  MediaInvariant'
<1>1. PICK q : q = orders[s]
  BY Zenon
<1>2. PICK r : r = After(q, g)
  BY Zenon
<1>3. q \in OrderState /\ q.todo[g] # <<>> /\ OnItsWay(uploads, q)
  BY Zenon, <1>1, TurnTypes
<1>4. /\ r \in OrderState /\ r.pc = q.pc /\ r.order = q.order
  BY <1>2, <1>3, RestTypes
<1>5. OnItsWay(uploads, r)
  BY <1>1, <1>2, <1>3, PassesOver
<1>6. HasUploaded(s, r)
  BY <1>1, <1>4, MediaTypes DEF HasUploaded
<1>7. DirectoryOK' /\ StillLeads(uploads, uploads')
  BY MediaTypes, NothingWritten
<1>8. orders' = [orders EXCEPT ![s] = r]
  BY <1>1, <1>2, TurnTypes
<1>9. OnItsWay(uploads', r)
  BY Zenon, <1>5, <1>7, OthersStay
<1> QED
  BY <1>4, <1>6, <1>7, <1>8, <1>9, RequestMoves

LEMMA FilesBringContent ==
    ASSUME MediaInvariant, NEW s \in Senders, NEW g \in Groups, Turn(s, FileTurns, g),
           orders[s].pc = "saving"
    PROVE  /\ Head(orders[s].todo[g]).kind = "file"
           /\ Head(orders[s].todo[g]).what \in Content
<1> DEFINE q == orders[s]
           files == q.order.files[g]
           todo == q.todo[g]
<1>1. q \in OrderState /\ OnItsWay(uploads, q) /\ todo # <<>>
  BY Zenon, TurnTypes
<1>2. files \in Seq(File) /\ todo \in Seq(Item)
  BY Zenon, <1>1, StateTypes
<1>3. Halfway(uploads, q.saved[g], files, todo, MayFail)
  BY <1>1 DEF OnItsWay, GroupOnItsWay
<1> HIDE DEF q, files, todo
<1>4. Len(todo) <= Len(files) /\ \A i \in 1 .. Len(todo) : todo[i] = files[Len(files) - Len(todo) + i]
  BY Zenon, <1>3 DEF Halfway, HandledTo
<1>5. Head(todo) \in File
  BY <1>1, <1>2, <1>4
<1> QED
  BY <1>5 DEF File, q, todo

LEMMA SaveFormFileKeepsMedia ==
    ASSUME MediaInvariant, NEW s \in Senders, NEW g \in Groups, SaveFormFile(s, g)
    PROVE  MediaInvariant'
<1>1. /\ orders[s].pc = "saving" /\ Turn(s, FileTurns, g)
      /\ UNCHANGED <<tick, mine>>
  BY Zenon DEF SaveFormFile
<1>2. PICK m : m = Head(orders[s].todo[g]).what
  BY Zenon
<1>3. PICK v : v = Reference("stored", UploadName(m))
  BY Zenon
<1>4. CASE /\ WriteUpload(m)
           /\ orders' = [orders EXCEPT ![s] = [Rest(s, g) EXCEPT !.saved[g] = Append(@, v)]]
  <2>1. PICK q : q = orders[s]
    BY Zenon
  <2>2. PICK r : r = AfterSaving(q, g, v)
    BY Zenon
  <2>3. q \in OrderState /\ q.todo[g] # <<>> /\ OnItsWay(uploads, q)
    BY Zenon, <1>1, <2>1, TurnTypes
  <2>4. Head(q.todo[g]).kind = "file" /\ Head(q.todo[g]).what = m /\ m \in Content
    BY Zenon, <1>1, <1>2, <2>1, FilesBringContent
  <2>5. v \in Stored /\ v.kind = "stored" /\ v.what = UploadName(m)
    BY Zenon, <1>3, <2>4, MediaTypes, NameTypes, StoredTypes
  <2>6. /\ DirectoryOK' /\ StillLeads(uploads, uploads')
        /\ LeadsTo(uploads', UploadName(m), m)
    BY Zenon, <1>4, MediaTypes, Written
  <2>7. Shows(uploads', v, Head(q.todo[g]))
    BY <2>4, <2>5, <2>6 DEF Shows
  <2>8. OnItsWay(uploads', q)
    BY Zenon, <2>3, <2>6, OthersStay
  <2>9. PICK dir : dir = uploads'
    BY Zenon
  <2>10. r \in OrderState /\ r.pc = q.pc /\ r.order = q.order /\ OnItsWay(uploads', r)
    <3>1. OnItsWay(dir, q) /\ Shows(dir, v, Head(q.todo[g])) /\ q.pc = "saving"
      BY Zenon, <1>1, <2>1, <2>7, <2>8, <2>9
    <3>2. r \in OrderState /\ r.pc = q.pc /\ r.order = q.order /\ OnItsWay(dir, r)
      BY <2>2, <2>3, <2>5, <3>1, TakesFile
    <3> QED
      BY Zenon, <2>9, <3>2
  <2>11. HasUploaded(s, r)
    BY <2>1, <2>10, MediaTypes DEF HasUploaded
  <2>12. orders' = [orders EXCEPT ![s] = r]
    BY <1>1, <1>4, <2>1, <2>2, TurnTypes DEF AfterSaving
  <2> QED
    BY <1>1, <2>6, <2>10, <2>11, <2>12, RequestMoves
<1>5. CASE Fails /\ orders' = [orders EXCEPT ![s] = Rest(s, g)] /\ UNCHANGED uploads
  <2>1. Head(orders[s].todo[g]).kind \in MayFail
    BY <1>1, <1>5, FilesBringContent DEF MayFail
  <2> QED
    BY <1>1, <1>5, <2>1, PassingOverKeepsMedia
<1> QED
  BY <1>2, <1>3, <1>4, <1>5 DEF SaveFormFile

LEMMA AcceptKeepsMedia ==
    ASSUME MediaInvariant, NEW s \in Senders, Accept(s)
    PROVE  MediaInvariant'
<1>1. PICK q : q = orders[s]
  BY Zenon
<1>2. PICK todo : todo = [g \in Groups |-> References(q.order, q.saved, g)]
  BY Zenon
<1>3. PICK r : r = [q EXCEPT !.pc = "resolving", !.todo = todo]
  BY Zenon
<1>4. /\ q.pc = "saving" /\ \A g \in Groups : q.todo[g] = <<>>
      /\ UNCHANGED <<uploads, tick, mine>>
      /\ \/ orders' = [orders EXCEPT ![s] = [Unsent EXCEPT !.pc = "refused"]]
         \/ orders' = [orders EXCEPT ![s] = [q EXCEPT !.pc = "resolving", !.todo = todo]]
  <2>1. orders \in [Senders -> OrderState]
    BY DEF MediaInvariant, MediaTypeOK
  <2> QED
    BY <1>1, <1>2, <2>1 DEF Accept, AllHandled
<1>5. q \in OrderState /\ OnItsWay(uploads, q)
  BY <1>1, MediaTypes
<1>6. /\ \A g \in Groups : References(q.order, q.saved, g) \in Seq(Item)
      /\ todo \in [Groups -> Seq(Item)]
  <2>1. \A g \in Groups : References(q.order, q.saved, g) \in Seq(Item)
    BY Zenon, <1>5, StateTypes, ReferencesTypes
  <2> QED
    BY <1>2, <2>1
<1>7. /\ r \in OrderState /\ r.pc = "resolving" /\ r.order = q.order /\ r.todo = todo
      /\ r.saved = q.saved /\ r.flags = q.flags
  BY <1>3, <1>5, <1>6 DEF OrderState
<1>8. OnItsWay(uploads, r)
  <2>1. ASSUME NEW g \in Groups
        PROVE  GroupOnItsWay(uploads, r, g)
    <3> DEFINE refs == References(q.order, q.saved, g)
    <3>1. Halfway(uploads, q.saved[g], q.order.files[g], <<>>, MayFail) /\ q.flags[g] = <<>>
      BY <1>4, <1>5 DEF OnItsWay, GroupOnItsWay
    <3>2. todo[g] = refs /\ refs \in Seq(Item)
      BY <1>2, <1>6
    <3> HIDE DEF refs
    <3>3. Halfway(uploads, <<>>, refs, refs, {"blank"})
      BY Zenon, <3>2, HalfwayStarts
    <3> QED
      BY <1>7, <3>1, <3>2, <3>3 DEF GroupOnItsWay, refs
  <2> QED
    BY Zenon, <2>1 DEF OnItsWay
<1>9. HasUploaded(s, r)
  BY <1>1, <1>4, <1>7, MediaTypes DEF HasUploaded
<1>10. DirectoryOK' /\ StillLeads(uploads, uploads')
  BY <1>4, MediaTypes, NothingWritten
<1>11. CASE orders' = [orders EXCEPT ![s] = [Unsent EXCEPT !.pc = "refused"]]
  BY <1>4, <1>11, Refused
<1>12. CASE orders' = [orders EXCEPT ![s] = [q EXCEPT !.pc = "resolving", !.todo = todo]]
  <2>1. orders' = [orders EXCEPT ![s] = r]
    BY <1>3, <1>12
  <2> QED
    BY <1>4, <1>7, <1>8, <1>9, <1>10, <2>1, RequestMoves
<1> QED
  BY <1>4, <1>11, <1>12

LEMMA ResolvingTypes ==
    ASSUME MediaInvariant, NEW s \in Senders, NEW g \in Groups, NEW kinds, Resolving(s, g, kinds)
    PROVE  /\ orders[s].pc = "resolving" /\ Turn(s, RefTurns, g)
           /\ Head(orders[s].todo[g]).kind \in kinds /\ Head(orders[s].todo[g]) \in Item
           /\ tick' = tick /\ mine' = mine
<1>1. /\ orders[s].pc = "resolving" /\ Turn(s, RefTurns, g)
      /\ Head(orders[s].todo[g]).kind \in kinds
      /\ tick' = tick /\ mine' = mine
  BY Zenon DEF Resolving
<1>2. Head(orders[s].todo[g]) \in Item
  BY Zenon, <1>1, TurnTypes
<1> QED
  BY Zenon, <1>1, <1>2

\* A step that resolves a reference to value v.
LEMMA ResolvedKeepsMedia ==
    ASSUME MediaInvariant, NEW s \in Senders, NEW g \in Groups, NEW kinds, Resolving(s, g, kinds),
           NEW v \in Value, Passing(s, g, v), Shows(uploads', v, Head(orders[s].todo[g])),
           DirectoryOK', StillLeads(uploads, uploads')
    PROVE  MediaInvariant'
<1>1. PICK q : q = orders[s]
  BY Zenon
<1>2. PICK r : r = AfterPassing(q, g, v)
  BY Zenon
<1>3. PICK dir : dir = uploads'
  BY Zenon
<1>4. /\ q.pc = "resolving" /\ Turn(s, RefTurns, g) /\ tick' = tick /\ mine' = mine
  BY Zenon, <1>1, ResolvingTypes
<1>5. q \in OrderState /\ q.todo[g] # <<>> /\ OnItsWay(uploads, q)
  BY Zenon, <1>1, <1>4, TurnTypes
<1>6. OnItsWay(dir, q) /\ Shows(dir, v, Head(q.todo[g])) /\ q.pc = "resolving"
  BY Zenon, <1>1, <1>3, <1>4, <1>5, OthersStay
<1>7. r \in OrderState /\ r.pc = q.pc /\ r.order = q.order /\ OnItsWay(dir, r)
  BY <1>2, <1>5, <1>6, TakesValue
<1>8. HasUploaded(s, r)
  BY <1>1, <1>7, MediaTypes DEF HasUploaded
<1>9. orders' = [orders EXCEPT ![s] = r]
  BY <1>1, <1>2, <1>4, TurnTypes DEF Passing, AfterPassing
<1>10. OnItsWay(uploads', r)
  BY Zenon, <1>3, <1>7
<1> QED
  BY <1>4, <1>7, <1>8, <1>9, <1>10, RequestMoves

LEMMA ResolveByContentKeepsMedia ==
    ASSUME MediaInvariant, NEW s \in Senders, NEW g \in Groups, ResolveByContent(s, g)
    PROVE  MediaInvariant'
<1>1. PICK ref : ref = Head(orders[s].todo[g])
  BY Zenon
<1>2. PICK v : v = Reference("stored", UploadName(ref.what))
  BY Zenon
<1>3. Resolving(s, g, {"data", "url"}) /\ WriteUpload(ref.what) /\ Passing(s, g, v)
  BY Zenon, <1>1, <1>2 DEF ResolveByContent
<1>4. ref.kind \in {"data", "url"} /\ ref \in Item
  BY Zenon, <1>1, <1>3, ResolvingTypes
<1>5. ref.what \in Content
  BY <1>4 DEF Item, Sent, File, Stored, Blank, Reference
<1>6. v \in Value /\ v.kind = "stored" /\ v.what = UploadName(ref.what)
  BY Zenon, <1>2, <1>5, MediaTypes, NameTypes, StoredTypes
<1>7. /\ DirectoryOK' /\ StillLeads(uploads, uploads')
      /\ LeadsTo(uploads', UploadName(ref.what), ref.what)
  BY Zenon, <1>3, MediaTypes, Written
<1>8. Shows(uploads', v, ref)
  BY <1>4, <1>6, <1>7 DEF Shows
<1>9. Shows(uploads', v, Head(orders[s].todo[g]))
  BY Zenon, <1>1, <1>8
<1> QED
  BY <1>3, <1>6, <1>7, <1>9, ResolvedKeepsMedia

\* A reference to an uploaded file is one of the request's own: what it takes from its
\* form is stored.
LEMMA UploadsAreNamed ==
    ASSUME MediaInvariant, NEW s \in Senders, NEW g \in Groups, orders[s].pc = "resolving",
           orders[s].todo[g] # <<>>, Head(orders[s].todo[g]).kind = "upload"
    PROVE  NeedsUpload(orders[s].order)
<1>1. PICK q : q = orders[s]
  BY Zenon
<1> DEFINE named == InGroup(q.order, g)
           stored == q.saved[g]
           refs == References(q.order, q.saved, g)
           todo == q.todo[g]
<1>2. q \in OrderState /\ OnItsWay(uploads, q) /\ q.pc = "resolving"
  BY <1>1, MediaTypes
<1>3. named \in Seq(Sent) /\ stored \in Seq(Stored) /\ refs \in Seq(Item) /\ todo \in Seq(Item)
  BY Zenon, <1>2, StateTypes, InGroupTypes, ReferencesTypes
<1>4. Halfway(uploads, q.flags[g], refs, todo, {"blank"})
  BY <1>2 DEF OnItsWay, GroupOnItsWay
<1>5. \A k \in 1 .. Len(refs) :
         \/ \E i \in 1 .. Len(named) : refs[k] = named[i]
         \/ \E i \in 1 .. Len(stored) : refs[k] = stored[i]
  <2>1. \/ refs = named \o stored
        \/ refs = named
        \/ refs = <<>>
        \/ stored # <<>> /\ refs = <<stored[1]>>
    BY Zenon DEF References
  <2> HIDE DEF named, stored, refs
  <2>2. CASE refs = named \o stored
    <3>1. ASSUME NEW k \in 1 .. Len(refs)
          PROVE  \/ \E i \in 1 .. Len(named) : refs[k] = named[i]
                 \/ \E i \in 1 .. Len(stored) : refs[k] = stored[i]
      <4>1. CASE k <= Len(named)
        <5>1. k \in 1 .. Len(named) /\ refs[k] = named[k]
          BY <1>3, <2>2, <4>1
        <5> QED
          BY <5>1
      <4>2. CASE k > Len(named)
        <5>1. k - Len(named) \in 1 .. Len(stored) /\ refs[k] = stored[k - Len(named)]
          BY <1>3, <2>2, <4>2
        <5> QED
          BY <5>1
      <4> QED
        BY <1>3, <4>1, <4>2
    <3> QED
      BY <3>1
  <2>3. CASE refs = named
    BY <2>3
  <2>4. CASE refs = <<>>
    BY <2>4
  <2>5. CASE stored # <<>> /\ refs = <<stored[1]>>
    BY <1>3, <2>5
  <2> QED
    BY <2>1, <2>2, <2>3, <2>4, <2>5
<1>6. todo # <<>> /\ Head(todo).kind = "upload"
  BY <1>1
<1> HIDE DEF named, stored, refs, todo
<1>7. PICK k \in 1 .. Len(refs) : Head(todo) = refs[k]
  <2>1. Len(todo) <= Len(refs) /\ \A i \in 1 .. Len(todo) : todo[i] = refs[Len(refs) - Len(todo) + i]
    BY Zenon, <1>4 DEF Halfway, HandledTo
  <2>2. Len(todo) \in Nat /\ Len(todo) >= 1 /\ Len(refs) \in Nat /\ Head(todo) = todo[1]
    BY <1>3, <1>6
  <2>3. Len(refs) - Len(todo) + 1 \in 1 .. Len(refs)
    BY <2>1, <2>2
  <2> QED
    BY <2>1, <2>2, <2>3
<1>8. \A i \in 1 .. Len(stored) : stored[i].kind = "stored"
  <2>1. \A i \in 1 .. Len(stored) : stored[i] \in Stored
    BY <1>3
  <2> QED
    BY <2>1 DEF Stored
<1>9. PICK i \in 1 .. Len(named) : refs[k] = named[i]
  BY <1>5, <1>6, <1>7, <1>8
<1>10. named[i].kind = "upload"
  BY <1>6, <1>7, <1>9
<1> QED
  BY Zenon, <1>1, <1>10 DEF NeedsUpload, named

LEMMA ResolveByNameKeepsMedia ==
    ASSUME MediaInvariant, NEW s \in Senders, NEW g \in Groups, ResolveByName(s, g)
    PROVE  MediaInvariant'
<1>1. PICK ref : ref = Head(orders[s].todo[g])
  BY Zenon
<1>2. PICK v : v = IF ref.kind = "upload" THEN Reference("stored", mine[s]) ELSE ref
  BY Zenon
<1>3. /\ Resolving(s, g, {"path", "stored", "upload"})
      /\ Passing(s, g, v) /\ uploads' = uploads
  BY Zenon, <1>1, <1>2 DEF ResolveByName
<1>4. ref.kind \in {"path", "stored", "upload"} /\ ref \in Item
  BY Zenon, <1>1, <1>3, ResolvingTypes
<1>5. DirectoryOK' /\ StillLeads(uploads, uploads')
  BY <1>3, MediaTypes, NothingWritten
<1>6. v \in Value /\ Shows(uploads, v, ref)
  <2>1. CASE ref.kind = "upload"
    <3>1. ref.what = Uploaded
      BY <1>4, <2>1 DEF Item, Sent, File, Stored, Blank, Reference
    <3>2. orders[s].pc = "resolving" /\ orders[s].todo[g] # <<>>
      BY Zenon, <1>3, ResolvingTypes, TurnTypes
    <3>3. mine[s] # NoName
      <4>1. NeedsUpload(orders[s].order)
        BY Zenon, <1>1, <2>1, <3>2, UploadsAreNamed
      <4> QED
        BY <3>2, <4>1, MediaTypes DEF HasUploaded
    <3>4. mine[s] \in Names /\ LeadsTo(uploads, mine[s], Uploaded)
      BY <3>3, MediaTypes
    <3>5. v \in Value /\ v.kind = "stored" /\ v.what = mine[s]
      BY Zenon, <1>2, <2>1, <3>4, StoredTypes
    <3> QED
      BY <2>1, <3>1, <3>4, <3>5 DEF Shows
  <2>2. CASE ref.kind \in {"path", "stored"}
    <3>1. v = ref
      BY <1>2, <2>2
    <3>2. ref \in Value
      BY <1>4, <2>2 DEF Item, Sent, File, Stored, Value, Blank, Reference
    <3> QED
      BY <2>2, <3>1, <3>2 DEF Shows
  <2> QED
    BY <1>4, <2>1, <2>2
<1>7. Shows(uploads', v, Head(orders[s].todo[g]))
  BY Zenon, <1>1, <1>3, <1>6
<1> QED
  BY <1>3, <1>5, <1>6, <1>7, ResolvedKeepsMedia

LEMMA PassOverBlankKeepsMedia ==
    ASSUME MediaInvariant, NEW s \in Senders, NEW g \in Groups, PassOverBlank(s, g)
    PROVE  MediaInvariant'
<1>1. /\ Resolving(s, g, {"blank"})
      /\ orders' = [orders EXCEPT ![s] = Rest(s, g)] /\ uploads' = uploads
  BY Zenon DEF PassOverBlank
<1>2. /\ orders[s].pc = "resolving" /\ Turn(s, RefTurns, g)
      /\ Head(orders[s].todo[g]).kind = "blank" /\ tick' = tick /\ mine' = mine
  BY <1>1, ResolvingTypes
<1> QED
  BY <1>1, <1>2, PassingOverKeepsMedia

LEMMA RefuseMediaKeepsMedia ==
    ASSUME MediaInvariant, NEW s \in Senders, NEW g \in Groups, RefuseMedia(s, g)
    PROVE  MediaInvariant'
  BY Refused DEF RefuseMedia, Resolving

LEMMA BuildKeepsMedia ==
    ASSUME MediaInvariant, NEW s \in Senders, Build(s)
    PROVE  MediaInvariant'
<1>1. PICK q : q = orders[s]
  BY Zenon
<1>2. PICK r : r = [q EXCEPT !.pc = "built"]
  BY Zenon
<1>3. /\ q.pc = "resolving" /\ \A g \in Groups : q.todo[g] = <<>>
      /\ UNCHANGED <<uploads, tick, mine>> /\ orders' = [orders EXCEPT ![s] = r]
  BY <1>1, <1>2 DEF Build, AllHandled
<1>4. q \in OrderState /\ OnItsWay(uploads, q)
  BY <1>1, MediaTypes
<1>5. /\ r \in OrderState /\ r.pc = "built" /\ r.order = q.order /\ r.todo = q.todo
      /\ r.saved = q.saved /\ r.flags = q.flags
  BY <1>2, <1>4 DEF OrderState
<1>6. OnItsWay(uploads, r)
  BY <1>3, <1>4, <1>5 DEF OnItsWay, GroupOnItsWay
<1>7. HasUploaded(s, r)
  BY <1>1, <1>3, <1>5, MediaTypes DEF HasUploaded
<1>8. DirectoryOK' /\ StillLeads(uploads, uploads')
  BY <1>3, MediaTypes, NothingWritten
<1> QED
  BY <1>3, <1>5, <1>6, <1>7, <1>8, RequestMoves

LEMMA ClockTicksKeepsMedia ==
    ASSUME MediaInvariant, ClockTicks
    PROVE  MediaInvariant'
<1>1. tick' \in Nat /\ UNCHANGED <<uploads, orders, mine>>
  BY DEF ClockTicks, MediaInvariant, MediaTypeOK
<1> QED
  BY <1>1 DEF MediaInvariant, MediaTypeOK, DirectoryOK, HasUploaded

LEMMA MediaStutters ==
    ASSUME MediaInvariant, UNCHANGED mediaVars
    PROVE  MediaInvariant'
  BY DEF MediaInvariant, MediaTypeOK, DirectoryOK, HasUploaded, mediaVars

LEMMA MediaStarts == MediaInit => MediaInvariant
<1> SUFFICES ASSUME MediaInit PROVE MediaInvariant
  OBVIOUS
<1>1. tick = 0 /\ orders = [s \in Senders |-> Unsent] /\ mine = [s \in Senders |-> NoName]
  BY DEF MediaInit
<1>2. MediaTypeOK
  BY <1>1, RefusedTypes DEF MediaTypeOK
<1>3. DirectoryOK
  BY DEF MediaInit, DirectoryOK
<1>4. ASSUME NEW s \in Senders
      PROVE  /\ mine[s] = NoName
             /\ HasUploaded(s, orders[s])
             /\ OnItsWay(uploads, orders[s])
  BY <1>1, RefusedTypes, NothingOnItsWay DEF HasUploaded
<1> QED
  BY <1>2, <1>3, <1>4 DEF MediaInvariant

LEMMA MediaAlwaysOnItsWay == MediaSpec => []MediaInvariant
<1>1. MediaInvariant /\ [MediaNext]_mediaVars => MediaInvariant'
  <2> SUFFICES ASSUME MediaInvariant, [MediaNext]_mediaVars
               PROVE  MediaInvariant'
    OBVIOUS
  <2>1. ASSUME NEW s \in Senders, FilesUpload(s)
        PROVE  MediaInvariant'
    BY <2>1, FilesUploadKeepsMedia
  <2>2. ASSUME NEW s \in Senders, NEW o \in Orders, SendOrder(s, o)
        PROVE  MediaInvariant'
    BY <2>2, SendOrderKeepsMedia
  <2>3. ASSUME NEW s \in Senders, Accept(s)
        PROVE  MediaInvariant'
    BY <2>3, AcceptKeepsMedia
  <2>4. ASSUME NEW s \in Senders, NEW g \in Groups, SaveFormFile(s, g)
        PROVE  MediaInvariant'
    BY <2>4, SaveFormFileKeepsMedia
  <2>5. ASSUME NEW s \in Senders, NEW g \in Groups, ResolveByContent(s, g)
        PROVE  MediaInvariant'
    BY <2>5, ResolveByContentKeepsMedia
  <2>6. ASSUME NEW s \in Senders, NEW g \in Groups, ResolveByName(s, g)
        PROVE  MediaInvariant'
    BY <2>6, ResolveByNameKeepsMedia
  <2>7. ASSUME NEW s \in Senders, NEW g \in Groups, PassOverBlank(s, g)
        PROVE  MediaInvariant'
    BY <2>7, PassOverBlankKeepsMedia
  <2>8. ASSUME NEW s \in Senders, NEW g \in Groups, RefuseMedia(s, g)
        PROVE  MediaInvariant'
    BY <2>8, RefuseMediaKeepsMedia
  <2>9. ASSUME NEW s \in Senders, Build(s)
        PROVE  MediaInvariant'
    BY <2>9, BuildKeepsMedia
  <2>10. CASE ClockTicks
    BY <2>10, ClockTicksKeepsMedia
  <2>11. CASE UNCHANGED mediaVars
    BY <2>11, MediaStutters
  <2> QED
    BY Zenon, <2>1, <2>2, <2>3, <2>4, <2>5, <2>6, <2>7, <2>8, <2>9, <2>10, <2>11 DEF MediaNext
<1> QED
  BY <1>1, MediaStarts, PTL DEF MediaSpec

\* A group's values are all passed, under one flag or the other.
LEMMA CommandPassesAll ==
    ASSUME NEW s \in Senders, NEW g \in Groups, orders[s].flags[g] \in Seq(Value)
    PROVE  /\ Passed(s, g) = orders[s].flags[g]
           /\ g \in Lists => /\ Len(Command(s)[<<g, "one">>]) <= 1
                             /\ Len(Command(s)[<<g, "several">>]) # 1
           /\ g \in Frames => Command(s)[<<g, "one">>] = orders[s].flags[g]
<1>1. PICK values : values = orders[s].flags[g]
  BY Zenon
<1>2. values \in Seq(Value) /\ Len(values) \in Nat
  BY <1>1
<1>3. (g \in Lists \/ g \in Frames) /\ ~(g \in Lists /\ g \in Frames)
  BY DEF Groups, Lists, Frames
<1>4. /\ <<g, "one">> \in (Groups \X {"one"}) \union (Lists \X {"several"})
      /\ g \in Lists => <<g, "several">> \in (Groups \X {"one"}) \union (Lists \X {"several"})
  OBVIOUS
<1>5. /\ Command(s)[<<g, "one">>] = IF g \in Frames \/ Len(values) = 1 THEN values ELSE <<>>
      /\ g \in Lists => Command(s)[<<g, "several">>] = IF Len(values) = 1 THEN <<>> ELSE values
  BY <1>1, <1>3, <1>4 DEF Command
<1>6. values \o <<>> = values /\ <<>> \o values = values /\ Len(<<>>) = 0
  BY <1>2
<1>7. CASE g \in Lists
  <2>1. Passed(s, g) = Command(s)[<<g, "one">>] \o Command(s)[<<g, "several">>]
    BY Zenon, <1>7 DEF Passed
  <2>2. CASE Len(values) = 1
    <3>1. Command(s)[<<g, "one">>] = values /\ Command(s)[<<g, "several">>] = <<>>
      BY <1>5, <1>7, <2>2
    <3>2. Passed(s, g) = values
      BY Zenon, <1>6, <2>1, <3>1
    <3> QED
      BY <1>1, <1>3, <1>6, <1>7, <2>2, <3>1, <3>2
  <2>3. CASE Len(values) # 1
    <3>1. Command(s)[<<g, "one">>] = <<>> /\ Command(s)[<<g, "several">>] = values
      BY <1>3, <1>5, <1>7, <2>3
    <3>2. Passed(s, g) = values
      BY Zenon, <1>6, <2>1, <3>1
    <3> QED
      BY <1>1, <1>3, <1>6, <1>7, <2>3, <3>1, <3>2
  <2> QED
    BY <2>2, <2>3
<1>8. CASE g \in Frames
  BY <1>1, <1>2, <1>3, <1>5, <1>6, <1>8 DEF Passed
<1> QED
  BY <1>3, <1>7, <1>8

\* A job gets the media its request names: of each kind all of them, in the order of the
\* request, with the right contents however many requests store theirs at once and
\* however many references and files each has, under the flag for one or for several.
THEOREM MediaAlwaysArriveAsNamed == MediaSpec => []MediaArriveAsNamed
<1>1. MediaInvariant => MediaArriveAsNamed
  <2> SUFFICES ASSUME MediaInvariant, NEW s \in Senders, orders[s].pc = "built", NEW g \in Groups
               PROVE  /\ Len(Command(s)[<<g, "one">>]) <= 1
                      /\ g \in Lists => Len(Command(s)[<<g, "several">>]) # 1
                      /\ \E at \in [1 .. Len(Passed(s, g)) -> 1 .. Len(Sources(orders[s].order, g))] :
                            /\ Picks(uploads, at, Passed(s, g), Sources(orders[s].order, g))
                            /\ \A k \in Due(orders[s].order, g) :
                                  \E i \in 1 .. Len(Passed(s, g)) : at[i] = k
    BY Zenon DEF MediaArriveAsNamed
  <2>1. PICK q : q = orders[s]
    BY Zenon
  <2>2. PICK o : o = q.order
    BY Zenon
  <2>3. PICK values : values = q.flags[g]
    BY Zenon
  <2>4. q \in OrderState /\ OnItsWay(uploads, q) /\ q.pc = "built"
    BY <2>1, MediaTypes
  <2>5. o \in Order /\ q.saved \in [Groups -> Seq(Stored)] /\ values \in Seq(Value)
    BY Zenon, <2>2, <2>3, <2>4, StateTypes
  <2>6. /\ Halfway(uploads, q.saved[g], o.files[g], <<>>, MayFail)
        /\ Halfway(uploads, values, References(o, q.saved, g), <<>>, {"blank"})
    BY <2>2, <2>3, <2>4 DEF OnItsWay, GroupOnItsWay
  <2>7. PICK at \in [1 .. Len(values) -> 1 .. Len(Sources(o, g))] :
           /\ Picks(uploads, at, values, Sources(o, g))
           /\ \A k \in Due(o, g) : \E i \in 1 .. Len(values) : at[i] = k
    <3>1. AllArrive(uploads, values, o, g)
      BY <2>5, <2>6, ReferencesShowSources
    <3> QED
      BY Zenon, <3>1 DEF AllArrive
  <2>8. /\ Passed(s, g) = values
        /\ g \in Lists => /\ Len(Command(s)[<<g, "one">>]) <= 1
                          /\ Len(Command(s)[<<g, "several">>]) # 1
        /\ g \in Frames => Command(s)[<<g, "one">>] = values
    BY Zenon, <2>1, <2>3, <2>5, CommandPassesAll
  <2>9. g \in Frames => Len(values) <= 1
    <3>1. SUFFICES ASSUME g \in Frames PROVE Len(values) <= 1
      OBVIOUS
    <3>2. g \notin Lists
      BY <3>1 DEF Lists, Frames
    <3>3. PICK refs : refs = References(o, q.saved, g)
      BY Zenon
    <3>4. Len(refs) <= 1
      <4>1. Len(InGroup(o, g)) <= 1
        BY Zenon, <2>5, <3>1, InGroupTypes
      <4> QED
        BY <3>2, <3>3, <4>1 DEF References
    <3>5. Halfway(uploads, values, refs, <<>>, {"blank"}) /\ refs \in Seq(Item)
      BY Zenon, <2>5, <2>6, <3>3, ReferencesTypes
    <3>6. PICK among \in [1 .. Len(values) -> 1 .. Len(refs)] : Picks(uploads, among, values, refs)
      BY Zenon, <3>5 DEF Halfway, HandledTo
    <3>7. Len(values) \in Nat
      BY <2>5
    <3>8. ASSUME Len(values) > 1
          PROVE  FALSE
      <4>1. 1 \in 1 .. Len(values) /\ 2 \in 1 .. Len(values)
        BY <3>7, <3>8
      <4>2. among[1] < among[2]
        <5>1. \A i, j \in 1 .. Len(values) : i < j => among[i] < among[j]
          BY <3>6 DEF Picks
        <5> QED
          BY <4>1, <5>1
      <4>3. among[1] = 1 /\ among[2] = 1
        <5>1. among[1] \in 1 .. Len(refs) /\ among[2] \in 1 .. Len(refs) /\ Len(refs) \in Nat
          BY <3>5, <3>6, <4>1
        <5> QED
          BY <3>4, <5>1
      <4> QED
        BY <4>2, <4>3
    <3> QED
      BY <3>7, <3>8
  <2>10. g \in Lists \/ g \in Frames
    BY DEF Groups
  <2>11. Len(Command(s)[<<g, "one">>]) <= 1
    BY <2>8, <2>9, <2>10
  <2> QED
    BY Zenon, <2>1, <2>2, <2>7, <2>8, <2>11
<1> QED
  BY <1>1, MediaAlwaysOnItsWay, PTL
=============================================================================
