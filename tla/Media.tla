------------------------------- MODULE Media -------------------------------
(* The media a generation request refers to: hasAnyMedia, BuildCreateOpts     *)
(* (internal/openaiapi/map.go), saveFormFiles (videos_compat.go), FilesUpload *)
(* (handlers.go), Resolve, ResolveMany and writeUpload                        *)
(* (internal/media/resolve.go), and the flags of CLI.CreateOpts (cli.go).     *)
(*                                                                            *)
(* Requests are served concurrently and write into one directory, a file per  *)
(* reference, named by the clock and an extension.                            *)
EXTENDS Naturals, Sequences

CONSTANTS
    Senders,        \* clients: each may upload a file, and sends one request
    Orders,         \* the requests of this instance
    Paths,          \* the paths and ids that a request may name
    Uploaded,       \* the media a client uploads through POST /v1/files
    Extension,      \* Extension[m]: the extension media m is stored with
    Fails,          \* whether downloads and writes to the disk can fail
    NoName, MaxTick \* MaxTick bounds the clock

VARIABLES
    uploads,    \* uploads[name]: what was written to the file last and when, and
                \* whether it replaced what was written at the same tick
    tick,       \* the clock that UnixNano reads
    orders,     \* orders[s]: how far the request of s is
    mine        \* mine[s]: the name of the file that s uploaded

mediaVars == <<uploads, tick, orders, mine>>

Content == DOMAIN Extension
Lists == {"image", "video", "audio"}
Frames == {"start-image", "end-image"}
Groups == Lists \union Frames

\* A reference brings a media by its content, names a path or an id the CLI knows, or
\* one it does not know, or the file the client uploaded, or nothing.
Reference(kind, m) == [kind |-> kind, what |-> m]
Absent == Reference("absent", NoName)
Blank == Reference("blank", NoName)

Sent ==
    [kind : {"data", "url"}, what : Content] \union [kind : {"upload"}, what : {Uploaded}]
        \union [kind : {"path", "missing"}, what : Paths] \union {Blank}

\* A request: its references, those of a group alone and those of a list, the files of
\* its form, and whether it has a prompt.
Order ==
    [prompt : BOOLEAN, single : [Groups -> Sent \union {Absent}],
     refs : [Lists -> Seq(Sent)], files : [Groups -> Seq([kind : {"file"}, what : Content])]]

ASSUME MediaAssumption ==
    /\ Uploaded \in Content
    /\ Fails \in BOOLEAN
    /\ Orders \subseteq Order

\* A request without media.
Bare(prompt) ==
    [prompt |-> prompt, single |-> [g \in Groups |-> Absent],
     refs |-> [g \in Lists |-> <<>>], files |-> [g \in Groups |-> <<>>]]

Nowhere == [g \in Groups |-> <<>>]

\* Of a request: the files or references still to handle, the form's files that are
\* stored and the values for the command, by group.
Unsent == [pc |-> "unsent", order |-> Bare(FALSE),
           todo |-> Nowhere, saved |-> Nowhere, flags |-> Nowhere]

-----------------------------------------------------------------------------
(* The uploads directory.                                                    *)

\* Mutant of UploadName: a coarser clock.
UploadNameCoarse(m) == <<tick \div 2, Extension[m]>>

UploadName(m) == <<tick, Extension[m]>>

\* writeUpload: os.WriteFile replaces a file of that name.
WriteUpload(m) ==
    LET name == UploadName(m)
        clash == name \in DOMAIN uploads /\ uploads[name].at = tick
    IN  uploads' = [n \in DOMAIN uploads \union {name} |->
                        IF n = name THEN [what |-> m, at |-> tick, clash |-> clash]
                        ELSE uploads[n]]

FilesUpload(s) ==
    /\ orders[s] = Unsent /\ mine[s] = NoName
    /\ WriteUpload(Uploaded)
    /\ mine' = [mine EXCEPT ![s] = UploadName(Uploaded)]
    /\ UNCHANGED <<tick, orders>>

-----------------------------------------------------------------------------
(* A request.                                                                *)

\* The references a request's fields name for a group: the single one comes first.
InGroup(o, g) ==
    (IF o.single[g] = Absent THEN <<>> ELSE <<o.single[g]>>)
        \o (IF g \in Lists THEN o.refs[g] ELSE <<>>)

NeedsUpload(o) ==
    \E g \in Groups : \E i \in 1 .. Len(InGroup(o, g)) : InGroup(o, g)[i].kind = "upload"

SendOrder(s, o) ==
    /\ orders[s] = Unsent
    /\ NeedsUpload(o) => mine[s] # NoName
    /\ orders' = [orders EXCEPT ![s] = [Unsent EXCEPT !.pc = "saving", !.order = o,
                                                      !.todo = o.files]]
    /\ UNCHANGED <<uploads, tick, mine>>

\* The groups are handled one after the other, and the items of a group in order.
Turn(s, turns, g) ==
    /\ orders[s].todo[g] # <<>>
    /\ \E i \in DOMAIN turns :
          turns[i] = g /\ \A j \in 1 .. i - 1 : orders[s].todo[turns[j]] = <<>>

AllHandled(s) == \A g \in Groups : orders[s].todo[g] = <<>>

\* The request after the first item of a group.
Rest(s, g) == [orders[s] EXCEPT !.todo[g] = Tail(@)]

FileTurns == <<"image", "video", "audio", "start-image", "end-image">>

\* A file that cannot be stored is passed over.
SaveFormFile(s, g) ==
    /\ orders[s].pc = "saving" /\ Turn(s, FileTurns, g)
    /\ LET m == Head(orders[s].todo[g]).what IN
       \/ /\ WriteUpload(m)
          /\ orders' = [orders EXCEPT ![s] =
                [Rest(s, g) EXCEPT !.saved[g] = Append(@, Reference("stored", UploadName(m)))]]
       \/ /\ Fails
          /\ orders' = [orders EXCEPT ![s] = Rest(s, g)]
          /\ UNCHANGED uploads
    /\ UNCHANGED <<tick, mine>>

\* The form's files come after the references of a list.  Of a frame's files the first
\* is used, if no reference is named.
References(o, saved, g) ==
    IF g \in Lists THEN InGroup(o, g) \o saved[g]
    ELSE IF InGroup(o, g) # <<>> THEN InGroup(o, g)
    ELSE IF saved[g] # <<>> THEN <<saved[g][1]>> ELSE <<>>

HasAnyMedia(o, saved) == \E g \in Groups : References(o, saved, g) # <<>>

\* "prompt or media reference is required"
Accept(s) ==
    LET o == orders[s].order
        saved == orders[s].saved
    IN
    /\ orders[s].pc = "saving" /\ AllHandled(s)
    /\ orders' = [orders EXCEPT ![s] =
          IF ~o.prompt /\ ~HasAnyMedia(o, saved) THEN [Unsent EXCEPT !.pc = "refused"]
          ELSE [@ EXCEPT !.pc = "resolving", !.todo = [g \in Groups |-> References(o, saved, g)]]]
    /\ UNCHANGED <<uploads, tick, mine>>

RefTurns == <<"image", "start-image", "end-image", "video", "audio">>

Resolving(s, g, kinds) ==
    /\ orders[s].pc = "resolving" /\ Turn(s, RefTurns, g)
    /\ Head(orders[s].todo[g]).kind \in kinds
    /\ UNCHANGED <<tick, mine>>

Passing(s, g, value) ==
    orders' = [orders EXCEPT ![s] = [Rest(s, g) EXCEPT !.flags[g] = Append(@, value)]]

\* Data URLs are decoded, others are downloaded; both are stored.
ResolveByContent(s, g) ==
    LET ref == Head(orders[s].todo[g]) IN
    /\ Resolving(s, g, {"data", "url"})
    /\ WriteUpload(ref.what)
    /\ Passing(s, g, Reference("stored", UploadName(ref.what)))

ResolveByName(s, g) ==
    LET ref == Head(orders[s].todo[g]) IN
    /\ Resolving(s, g, {"path", "stored", "upload"})
    /\ Passing(s, g, IF ref.kind = "upload" THEN Reference("stored", mine[s]) ELSE ref)
    /\ UNCHANGED uploads

\* In a list by ResolveMany, in a frame by CreateOpts.
PassOverBlank(s, g) ==
    /\ Resolving(s, g, {"blank"})
    /\ orders' = [orders EXCEPT ![s] = Rest(s, g)]
    /\ UNCHANGED uploads

\* "invalid_media": what was stored for the request stays in the directory.
RefuseMedia(s, g) ==
    /\ Resolving(s, g, {"missing"} \union (IF Fails THEN {"data", "url"} ELSE {}))
    /\ orders' = [orders EXCEPT ![s] = [Unsent EXCEPT !.pc = "refused"]]
    /\ UNCHANGED uploads

Build(s) ==
    /\ orders[s].pc = "resolving" /\ AllHandled(s)
    /\ orders' = [orders EXCEPT ![s].pc = "built"]
    /\ UNCHANGED <<uploads, tick, mine>>

\* The flags of the command, --image for one and --image-references for several: a list
\* of one goes under the flag of a single reference.
Command(s) ==
    [flag \in (Groups \X {"one"}) \union (Lists \X {"several"}) |->
        LET values == orders[s].flags[flag[1]]
            fits == flag[1] \in Frames \/ (flag[2] = "one") = (Len(values) = 1)
        IN  IF fits THEN values ELSE <<>>]

ClockTicks ==
    /\ tick < MaxTick
    /\ tick' = tick + 1
    /\ UNCHANGED <<uploads, orders, mine>>

-----------------------------------------------------------------------------

MediaInit ==
    /\ uploads = <<>>
    /\ tick = 0
    /\ orders = [s \in Senders |-> Unsent]
    /\ mine = [s \in Senders |-> NoName]

MediaNext ==
    \/ \E s \in Senders :
          \/ FilesUpload(s)
          \/ \E o \in Orders : SendOrder(s, o)
          \/ Accept(s)
          \/ \E g \in Groups :
                \/ SaveFormFile(s, g)
                \/ ResolveByContent(s, g)
                \/ ResolveByName(s, g)
                \/ PassOverBlank(s, g)
                \/ RefuseMedia(s, g)
          \/ Build(s)
    \/ ClockTicks

MediaSpec == MediaInit /\ [][MediaNext]_mediaVars

-----------------------------------------------------------------------------
(* Properties *)

\* Whether the file of that name in directory dir is media m, unless two uploads with
\* the same extension got their names at the same tick of the clock.
LeadsTo(dir, name, m) == name \in DOMAIN dir /\ (dir[name].what = m \/ dir[name].clash)

\* Whether a value passed to the command is what a reference means.
Shows(dir, value, ref) ==
    CASE ref.kind \in {"data", "url", "upload", "file"} ->
            value.kind = "stored" /\ LeadsTo(dir, value.what, ref.what)
      [] ref.kind \in {"path", "stored"} -> value.kind = ref.kind /\ value.what = ref.what
      [] OTHER -> FALSE

\* at tells, in order, which of the sources the values show.
Picks(dir, at, values, sources) ==
    /\ at \in [1 .. Len(values) -> 1 .. Len(sources)]
    /\ \A i, j \in 1 .. Len(values) : i < j => at[i] < at[j]
    /\ \A i \in 1 .. Len(values) : Shows(dir, values[i], sources[at[i]])

\* What a request has for a group: the references that its fields name and the files of
\* its form, which make a frame only if no reference does.
Sources(o, g) ==
    IF g \in Frames /\ InGroup(o, g) # <<>> THEN InGroup(o, g) ELSE InGroup(o, g) \o o.files[g]

\* Files may be missing if they could not be stored.
MayFail == IF Fails THEN {"file"} ELSE {}

\* The sources the job must get; a frame takes one.
Due(o, g) ==
    {k \in 1 .. Len(Sources(o, g)) :
        Sources(o, g)[k].kind \notin {"blank"} \union MayFail /\ (g \in Frames => k = 1)}

\* What the command passes for a group, under one flag or the other.
Passed(s, g) ==
    Command(s)[<<g, "one">>] \o (IF g \in Lists THEN Command(s)[<<g, "several">>] ELSE <<>>)

\* A job gets the media its request names: of each kind all of them, in the order of
\* the request, with the right contents however many requests store theirs at once, a
\* single one under the flag for one and several under the flag for several; and then
\* the form's files, of which only those are missing that could not be stored.  Of a
\* frame it gets the reference or else a file.
MediaArriveAsNamed ==
    \A s \in Senders : orders[s].pc = "built" =>
        LET o == orders[s].order IN
        \A g \in Groups :
            /\ Len(Command(s)[<<g, "one">>]) <= 1
            /\ g \in Lists => Len(Command(s)[<<g, "several">>]) # 1
            /\ \E at \in [1 .. Len(Passed(s, g)) -> 1 .. Len(Sources(o, g))] :
                  /\ Picks(uploads, at, Passed(s, g), Sources(o, g))
                  /\ \A k \in Due(o, g) : \E i \in 1 .. Len(Passed(s, g)) : at[i] = k

=============================================================================
