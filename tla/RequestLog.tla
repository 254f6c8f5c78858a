----------------------------- MODULE RequestLog -----------------------------
(* The request log (internal/reqlog/store.go) and the wrapper that logs every *)
(* client request (internal/server/server.go, withAPIKeyLogged).  The wrapper *)
(* of a route has one variable kind, which all requests of the route share    *)
(* without a lock.  A Go string is a pointer and a length, written one after  *)
(* the other.                                                                 *)
EXTENDS Naturals, Sequences

CONSTANTS
    Calls,          \* client requests of one route
    ModelKind,      \* ModelKind[r]: "video" or "image", by the model of request r
    RouteKind,      \* the kind the route is registered with
    MaxEntries      \* Store.max

ASSUME LogAssumption ==
    /\ ModelKind \in [Calls -> {"video", "image"}]
    /\ RouteKind \in {"auto", "image", "video", "file", "job", "other"}
    /\ MaxEntries \in Nat \ {0}

VARIABLES
    kind,       \* the wrapper's variable: the text it points to and its length's text
    stage,      \* stage[r]: how far the wrapper of request r is
    entries,    \* Store.entries, the newest first
    logFile,    \* request_logs.json
    history     \* auxiliary: the requests logged since startup, the newest first

logVars == <<kind, stage, entries, logFile, history>>

Kinds == {"auto", "image", "video", "file", "job", "other"}

\* Kinds are told apart by their length, but for those of five letters and of four.
Length(text) ==
    CASE text \in {"image", "video", "other"} -> 5 [] text = "job" -> 3 [] OTHER -> 4

\* What a reader makes of the variable.
Reading == IF Length(kind.text) = kind.len THEN kind.text ELSE "garbled"

LogInit ==
    /\ kind = [text |-> RouteKind, len |-> Length(RouteKind)]
    /\ stage = [r \in Calls |-> "handling"]
    /\ entries = <<>>
    /\ logFile = <<>>
    /\ history = <<>>

-----------------------------------------------------------------------------

\* The handler has returned; the wrapper classifies the request.
Classify(r) ==
    /\ stage[r] = "handling"
    /\ stage' = [stage EXCEPT ![r] = IF Reading = "auto" THEN "setting" ELSE "logging"]
    /\ UNCHANGED <<kind, entries, logFile, history>>

\* The two words of the assignment, in either order.
SetText(r) ==
    /\ stage[r] \in {"setting", "lenSet"}
    /\ kind' = [kind EXCEPT !.text = ModelKind[r]]
    /\ stage' = [stage EXCEPT ![r] = IF @ = "setting" THEN "textSet" ELSE "logging"]
    /\ UNCHANGED <<entries, logFile, history>>

SetLength(r) ==
    /\ stage[r] \in {"setting", "textSet"}
    /\ kind' = [kind EXCEPT !.len = Length(ModelKind[r])]
    /\ stage' = [stage EXCEPT ![r] = IF @ = "setting" THEN "lenSet" ELSE "logging"]
    /\ UNCHANGED <<entries, logFile, history>>

\* Add, under the store's lock: newest first, cut to the maximum, saved if the disk
\* allows.  A process that stops while it saves keeps the old file (rename).
Newest(log) == SubSeq(log, 1, IF Len(log) > MaxEntries THEN MaxEntries ELSE Len(log))

\* Mutant of Add: the cut keeps the oldest entries.
AddKeepsOldest(r) ==
    /\ stage[r] = "logging"
    /\ entries' = IF Len(entries) < MaxEntries
                  THEN <<[call |-> r, kind |-> Reading]>> \o entries ELSE entries
    /\ logFile' \in {logFile, entries'}
    /\ history' = <<r>> \o history
    /\ stage' = [stage EXCEPT ![r] = "done"]
    /\ UNCHANGED kind

Add(r) ==
    /\ stage[r] = "logging"
    /\ entries' = Newest(<<[call |-> r, kind |-> Reading]>> \o entries)
    /\ logFile' \in {logFile, entries'}
    /\ history' = <<r>> \o history
    /\ stage' = [stage EXCEPT ![r] = "done"]
    /\ UNCHANGED kind

\* The next request of the same client.
NextRequest(r) ==
    /\ stage[r] = "done"
    /\ Len(history) < 2 * MaxEntries
    /\ stage' = [stage EXCEPT ![r] = "handling"]
    /\ UNCHANGED <<kind, entries, logFile, history>>

LogRestart ==
    /\ kind' = [text |-> RouteKind, len |-> Length(RouteKind)]
    /\ stage' = [r \in Calls |-> "done"]
    /\ entries' = logFile
    /\ history' = [i \in 1 .. Len(logFile) |-> logFile[i].call]
    /\ UNCHANGED logFile

LogNext ==
    \/ \E r \in Calls : Classify(r) \/ SetText(r) \/ SetLength(r) \/ Add(r) \/ NextRequest(r)
    \/ LogRestart

LogSpec == LogInit /\ [][LogNext]_logVars

-----------------------------------------------------------------------------
(* Properties *)

\* The types of the log and of the wrapper's variable.
LogTypeOK ==
    /\ kind \in [text : Kinds, len : 3 .. 5]
    /\ stage \in [Calls -> {"handling", "setting", "textSet", "lenSet", "logging", "done"}]
    /\ \A log \in {entries, logFile} :
          log \in Seq([call : Calls, kind : Kinds \union {"garbled"}])
    /\ history \in Seq(Calls)

\* The log is the newest MaxEntries requests, in the order in which they ended:
\* none is lost or overtaken when requests end together or the log is cut, and a
\* restart brings back a log that was so once.
LogIsTheNewest ==
    /\ LogTypeOK
    /\ Len(entries) <= MaxEntries /\ Len(logFile) <= MaxEntries
    /\ \A i \in 1 .. Len(history) :
          i <= MaxEntries => i <= Len(entries) /\ entries[i].call = history[i]

-----------------------------------------------------------------------------
(* What comments say and the code does not do.                              *)

\* reqlog/store.go: Entry.Kind is "image|video|file|other", and withAPIKeyLogged takes
\* it from the request's model on the route registered with kind "auto".  The first
\* request decides for all.
KindIsTheRequests ==
    RouteKind = "auto" =>
        \A i \in 1 .. Len(entries) : entries[i].kind = ModelKind[entries[i].call]

=============================================================================
