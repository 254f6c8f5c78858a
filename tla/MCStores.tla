------------------------------ MODULE MCStores ------------------------------
(* Instances of the parts that share no state and no lock for TLC: the four   *)
(* stores of the console, the translation of requests, and their media.  A    *)
(* behaviour of one says nothing of the others: a run picks a part at the     *)
(* start and lets that one move.                                              *)
EXTENDS ApiKeys, Sessions, OAuthLogin, RequestLog, RequestMapping, Media

VARIABLE moving     \* the part that moves

storeVars ==
    <<moving, keyVars, sessionVars, loginVars, logVars, mappingVars, mediaVars>>

KindOf == [r \in Calls |-> IF r = "v" THEN "video" ELSE "image"]

-----------------------------------------------------------------------------
(* Requests to translate.                                                    *)

AliasTable == [n \in {"quick", "clip", "soul", "unset", "seedance still", "seedance pro"} |->
                  CASE n = "quick" -> "fast" [] n \in {"clip", "seedance pro"} -> "kling"
                    [] n = "unset" -> NoModel [] OTHER -> "text2image"]

SomeModels == {NoModel, "fast", "seedance", "kling", "kling image", "text2image"} \union DOMAIN AliasTable

Plain == [route |-> "canvas", model |-> NoModel, kind |-> "", size |-> NoSize,
          resolution |-> "", quality |-> "", seconds |-> 0, mode |-> ""]

Ratios == {Named(n) : n \in {"16:9", "9:16", "1:1", "4:3", "3:4", "21:9", "adaptive", "auto"}}
Sizes == {NoSize, Named("3:2"), Named("4k"), Pixels(1024, 768), Pixels(720, 1280), Pixels(1536, 1024)}

CanvasAsks ==
    {[Plain EXCEPT !.size = size, !.resolution = res, !.seconds = seconds] :
        size \in Ratios \union Sizes, seconds \in {0, 1, 5, 16},
        res \in {"", "low", "medium", "high", "auto", "480p", "720p", "1080p", "1080", "4k"}}

ModelAsks ==
    {[Plain EXCEPT !.route = route, !.model = model, !.kind = k, !.size = size, !.mode = mode] :
        route \in {"images", "videos", "generate", "canvas"}, model \in SomeModels,
        k \in {"", "auto", "image", "video"}, size \in Sizes, mode \in {"", "std"}}

AllAsks == CanvasAsks \union ModelAsks

-----------------------------------------------------------------------------
(* Requests with media.                                                      *)

Extensions == [m \in {"cat", "dog", "clip", "song"} |->
                  CASE m = "clip" -> ".mp4" [] m = "song" -> ".mp3" [] OTHER -> ".png"]

Brought(names) == [i \in 1 .. Len(names) |-> Reference("file", names[i])]

Listed ==
    [Bare(TRUE) EXCEPT !.single["image"] = Reference("data", "cat"),
                       !.refs["image"] = <<Reference("url", "dog"), Blank, Reference("path", "tree")>>]

Form ==
    [Bare(FALSE) EXCEPT !.refs["image"] = <<Reference("path", "tree")>>,
                        !.files["image"] = Brought(<<"cat">>),
                        !.files["end-image"] = Brought(<<"dog", "cat">>)]

Framed ==
    [Bare(FALSE) EXCEPT !.single["start-image"] = Reference("path", "tree"),
                        !.files["start-image"] = Brought(<<"dog">>),
                        !.single["end-image"] = Reference("data", "dog")]

Clips == [Bare(TRUE) EXCEPT !.single["video"] = Reference("upload", "clip"),
                            !.refs["audio"] = <<Reference("url", "song")>>]
Lost == [Bare(TRUE) EXCEPT !.refs["image"] = <<Reference("data", "cat"), Reference("missing", "rose")>>]
Blanks == [Bare(FALSE) EXCEPT !.single["image"] = Blank]

MediaOrders == {Listed, Form, Framed, Clips, Lost, Blanks, Bare(FALSE)}

-----------------------------------------------------------------------------

Others(part) ==
    /\ part # "keys" => UNCHANGED keyVars
    /\ part # "sessions" => UNCHANGED sessionVars
    /\ part # "logins" => UNCHANGED loginVars
    /\ part # "log" => UNCHANGED logVars
    /\ part # "mapping" => UNCHANGED mappingVars
    /\ part # "media" => UNCHANGED mediaVars

StoresInit ==
    /\ moving \in {"keys", "sessions", "logins", "log", "mapping", "media"}
    /\ KeysInit /\ SessionsInit /\ LoginInit /\ LogInit /\ MediaInit /\ MappingInit
    /\ moving # "mapping" => asked = Plain

KeysMove == moving = "keys" /\ KeysNext /\ Others("keys")
SessionsMove == moving = "sessions" /\ SessionsNext /\ Others("sessions")
LoginsMove == moving = "logins" /\ LoginNext /\ Others("logins")
LogMoves == moving = "log" /\ LogNext /\ Others("log")
MappingMoves == moving = "mapping" /\ MappingNext /\ Others("mapping")
MediaMoves == moving = "media" /\ MediaNext /\ Others("media")

StoresNext ==
    /\ UNCHANGED moving
    /\ KeysMove \/ SessionsMove \/ LoginsMove \/ LogMoves \/ MappingMoves \/ MediaMoves

StoresSpec == StoresInit /\ [][StoresNext]_storeVars
=============================================================================
