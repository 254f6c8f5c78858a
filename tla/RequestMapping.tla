--------------------------- MODULE RequestMapping ---------------------------
(* From the fields of a client's request to the job and the flags of the      *)
(* upstream command: map.go, the mapping half of videosCreate                 *)
(* (videos_compat.go) and of Generate (handlers.go), ResolveModelSpec         *)
(* (config.go).  Requests share nothing here: a behaviour takes one request   *)
(* and translates it.                                                         *)
(*                                                                            *)
(* A size is a name ("16:9", "auto", "4k") or a pair of pixel counts; a       *)
(* parameter that is not passed is "".                                        *)
EXTENDS Integers

CONSTANTS
    Asked,          \* the requests of this instance
    Aliases,        \* Config.Aliases: a function from model names to model names
    FastNames,      \* names of the virtual model that is job Seedance in mode fast
    Seedance,       \* the job type seedance_2_0
    SeedanceNames,  \* the names with "seedance" in them
    VideoJobs,      \* the jobs that make videos; the others make images
    Guessed,        \* the names that guessKind takes for videos
    DefaultImageModel, DefaultVideoModel,
    NoModel         \* the empty name

Size == [name : STRING, w : Int, h : Int]

Request ==
    [route : STRING, model : STRING, kind : STRING, size : Size, resolution : STRING,
     quality : STRING, seconds : Int, mode : STRING]

ASSUME MappingAssumption ==
    /\ Asked \subseteq Request
    /\ Seedance \in VideoJobs
    /\ DefaultVideoModel \in VideoJobs \ DOMAIN Aliases
    /\ DefaultImageModel \notin VideoJobs \union Guessed
    /\ FastNames \union {Seedance} \subseteq SeedanceNames
    /\ SeedanceNames \subseteq Guessed
    /\ NoModel \notin DOMAIN Aliases \union Guessed \union VideoJobs

VARIABLES
    asked,      \* the request
    made        \* what is made of it, or Nothing

mappingVars == <<asked, made>>

Named(name) == [name |-> name, w |-> 0, h |-> 0]
Pixels(w, h) == [name |-> "", w |-> w, h |-> h]
NoSize == Named("")
Nothing == [job |-> NoModel]

-----------------------------------------------------------------------------
(* Sizes, resolutions, durations.                                            *)

\* The sizes that have a case of their own fall under the rule for pixels.
SizeToAspect(size) ==
    CASE size.name \in {"16:9", "9:16", "4:3", "3:4", "3:2", "2:3"} -> size.name
      [] size.w > size.h /\ size.h > 0 -> IF 2 * size.w > 3 * size.h THEN "16:9" ELSE "4:3"
      [] size.h > size.w /\ size.w > 0 -> IF 2 * size.h > 3 * size.w THEN "9:16" ELSE "3:4"
      [] OTHER -> "1:1"

\* strings.Contains: the digits of d, a number below ten to the k, occur in those of
\* the width or the height.
Contains(size, d, k) ==
    \E n \in {size.w, size.h}, skip \in 0 .. 2 : (n \div 10 ^ skip) % 10 ^ k = d

Resolution(size) ==
    CASE Contains(size, 1080, 4) -> "1080p"
      [] ~Contains(size, 1080, 4) /\ Contains(size, 720, 3) -> "720p"
      [] ~Contains(size, 1080, 4) /\ ~Contains(size, 720, 3) /\ Contains(size, 480, 3) -> "480p"
      [] size.name = "4k" -> "4k"
      [] OTHER -> ""

\* "reject duration < 4"; 0 stands for a duration that is not passed.
Duration(seconds) ==
    CASE seconds <= 0 -> 0
      [] seconds \in 1 .. 3 -> 4
      [] seconds > 15 -> 15
      [] OTHER -> seconds

Quality(q) ==
    CASE q \in {"", "standard", "720p", "1.5k"} -> "1.5k"
      [] q \in {"hd", "2k", "high"} -> "2k"
      [] q \in {"1k", "basic", "low"} -> "1k"
      [] q \in {"4k", "ultra"} -> "4k"
      [] OTHER -> q

IsRatio(size) ==
    size.name \in {"16:9", "9:16", "1:1", "4:3", "3:4", "21:9", "adaptive", "auto"}

\* A "p" is added to what has none.
NormalizeRes(res) ==
    CASE res = "low" -> "480p"
      [] res \in {"high", "medium", "auto"} -> "720p"
      [] res = "720" -> "720p"
      [] res = "1080" -> "1080p"
      [] res = "4k" -> "4kp"
      [] OTHER -> res

\* The pixels that stand for a canvas's size and resolution.
NormalizeCanvasSize(size, resolution) ==
    LET res == NormalizeRes(resolution)
        ByRes(low, mid, high) ==
            IF res = "480p" THEN low ELSE IF res = "1080p" THEN high ELSE mid
    IN
    CASE size.name = "9:16" -> ByRes(Pixels(480, 854), Pixels(720, 1280), Pixels(1080, 1920))
      [] size.name = "1:1" -> ByRes(Pixels(640, 640), Pixels(720, 720), Pixels(1080, 1080))
      [] size = NoSize \/ (IsRatio(size) /\ size.name \notin {"9:16", "1:1"}) ->
            ByRes(Pixels(854, 480), Pixels(1280, 720), Pixels(1920, 1080))
      [] OTHER -> size

-----------------------------------------------------------------------------
(* Models.                                                                   *)

\* Aliases first, then the virtual model.
ResolveModelSpec(model) ==
    LET aliased == model \in DOMAIN Aliases /\ Aliases[model] # NoModel
        n == IF aliased THEN Aliases[model] ELSE model
    IN  CASE model = NoModel -> [job |-> DefaultImageModel, mode |-> ""]
          [] model # NoModel /\ n \in FastNames -> [job |-> Seedance, mode |-> "fast"]
          [] OTHER -> [job |-> n, mode |-> ""]

GuessKind(job) == IF job \in Guessed THEN "video" ELSE "image"

\* An alias may say so of any job.
SaysSeedance(model) == model \in SeedanceNames

-----------------------------------------------------------------------------
(* Parameters.                                                               *)

NoParams == [kind |-> "", aspect |-> "", resolution |-> "", quality |-> "",
             duration |-> 0, mode |-> ""]

ImageParams(r) ==
    [NoParams EXCEPT !.kind = "image", !.quality = Quality(r.quality),
                     !.aspect = SizeToAspect(r.size)]

VideoParams(r) ==
    [NoParams EXCEPT !.kind = "video", !.duration = Duration(r.seconds), !.mode = r.mode,
                     !.aspect = IF r.size = NoSize THEN "" ELSE SizeToAspect(r.size),
                     !.resolution = IF r.size = NoSize THEN "" ELSE Resolution(r.size)]

\* What the request sets wins, except over the virtual model's mode.
ApplyExtraParams(params, mode) == IF mode = "" THEN params ELSE [params EXCEPT !.mode = mode]

With(spec, params) == [job |-> spec.job, params |-> ApplyExtraParams(params, spec.mode)]

\* POST /v1/images/generations
ImagesGenerations(r) == With(ResolveModelSpec(r.model), ImageParams(r))

\* POST /v1/videos/generations
VideosGenerations(r) ==
    With(ResolveModelSpec(IF r.model = NoModel THEN DefaultVideoModel ELSE r.model), VideoParams(r))

\* Mutant of Generate: the kind is guessed from the name the client sent.
GenerateByName(r) ==
    LET kind == IF r.kind = "" THEN GuessKind(r.model) ELSE r.kind IN
    With(ResolveModelSpec(r.model), IF kind = "video" THEN VideoParams(r) ELSE ImageParams(r))

\* POST /v1/generate.  The empty model is resolved to the default of images whatever
\* the kind, so the choice between the two defaults is never reached.
Generate(r) ==
    LET spec == ResolveModelSpec(r.model)
        kind == CASE r.kind # "" -> r.kind
                  [] r.kind = "" /\ SaysSeedance(r.model) -> "video"
                  [] OTHER -> GuessKind(spec.job)
    IN  With(spec, IF kind = "video" THEN VideoParams(r) ELSE ImageParams(r))

\* Mutant of VideosCreate: the ratio is left to the pixels that stand for it.
VideosCreateByPixels(r) ==
    With(ResolveModelSpec(IF r.model = NoModel THEN DefaultVideoModel ELSE r.model),
         VideoParams([r EXCEPT !.size = NormalizeCanvasSize(r.size, r.resolution)]))

\* POST /v1/videos, as canvases call it.
VideosCreate(r) ==
    LET params == VideoParams([r EXCEPT !.size = NormalizeCanvasSize(r.size, r.resolution)])
        named == [params EXCEPT !.aspect = r.size.name,
                                !.resolution = IF r.resolution = "" THEN @
                                               ELSE NormalizeRes(r.resolution)]
    IN  With(ResolveModelSpec(IF r.model = NoModel THEN DefaultVideoModel ELSE r.model),
             IF IsRatio(r.size) THEN named ELSE params)

-----------------------------------------------------------------------------

MappingInit == asked \in Asked /\ made = Nothing

Translate(route, result) ==
    /\ made = Nothing
    /\ asked.route = route
    /\ made' = result
    /\ UNCHANGED asked

MappingNext ==
    \/ Translate("images", ImagesGenerations(asked))
    \/ Translate("videos", VideosGenerations(asked))
    \/ Translate("generate", Generate(asked))
    \/ Translate("canvas", VideosCreate(asked))

MappingSpec == MappingInit /\ [][MappingNext]_mappingVars

-----------------------------------------------------------------------------
(* Properties *)

\* What a canvas means by a resolution.
MeantBy(resolution) ==
    CASE resolution = "" -> "720p"
      [] resolution = "low" -> "480p"
      [] resolution \in {"high", "medium", "auto"} -> "720p"
      [] OTHER -> resolution

Distance(m, n) == IF m > n THEN m - n ELSE n - m

\* A canvas names a ratio and a resolution, which pass through a size in pixels and
\* are read from it again, by a division and by a search for digits: the job is asked
\* for exactly what was named, for 16:9 if no ratio was, and for the possible duration
\* nearest to the one asked for.
CanvasAsksForWhatItNames ==
    (made # Nothing /\ asked.route = "canvas"
        /\ (asked.size = NoSize \/ IsRatio(asked.size))
        /\ asked.resolution \in {"", "low", "medium", "high", "auto", "480p", "720p", "1080p"})
    => /\ made.params.aspect = IF asked.size = NoSize THEN "16:9" ELSE asked.size.name
       /\ made.params.resolution = MeantBy(asked.resolution)
       /\ asked.seconds > 0 =>
             /\ made.params.duration \in 4 .. 15
             /\ \A d \in 4 .. 15 : Distance(made.params.duration, asked.seconds)
                                       <= Distance(d, asked.seconds)

KindOfJob(job) == IF job \in VideoJobs THEN "video" ELSE "image"

\* A request gets the parameters of the kind of job it starts, whether its model is
\* named, an alias, virtual or the default, on the route of either kind and on the one
\* that guesses: unless the client itself names a kind or a route that is not its
\* model's, or names on POST /v1/generate the kind "video" and no model, or the kind
\* "auto", which Generate takes for "image", or leaves to Generate a job whose name, or
\* an alias with "seedance" in it, misleads.
KindFitsTheJob ==
    LET kind == CASE asked.route = "images" -> "image"
                  [] asked.route = "generate" -> asked.kind
                  [] OTHER -> "video"
        job == ResolveModelSpec(asked.model).job
        misleads ==
            /\ kind = ""
            /\ KindOfJob(job) # IF SaysSeedance(asked.model) THEN "video" ELSE GuessKind(job)
        contradicts == IF asked.model = NoModel THEN asked.route = "generate" /\ kind = "video"
                       ELSE kind \notin {"", KindOfJob(job)}
    IN  made # Nothing /\ ~misleads /\ ~contradicts => made.params.kind = KindOfJob(made.job)

=============================================================================
