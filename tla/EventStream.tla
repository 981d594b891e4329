----------------------------- MODULE EventStream -----------------------------
(***************************************************************************)
(* The event feed of one document: the archive of a run (events.jsonl)     *)
(* and the changes of its job reach the web app over one SSE stream        *)
(* (routers/events.py), after the app has fetched what is already there    *)
(* page by page (queries.ts, useEventWindow.ts, useEventStream.ts).        *)
(*                                                                         *)
(* An event is its run and its seq. A line of the archive exists once its  *)
(* newline is written; what a killed process left unfinished is never      *)
(* read. The app names run_id and after_seq in the URL of its stream, and  *)
(* they win over Last-Event-ID, so the header is left out. A frame is named *)
(* by the kind of its event, and a browser drops what nobody listens to.   *)
(* Windows are not trimmed, filters not set.                               *)
(***************************************************************************)
EXTENDS Naturals, Sequences, FiniteSets

CONSTANTS
    Limit,         \* EVENTS_PAGE_LIMIT
    MaxPages,      \* EVENTS_TAIL_MAX_PAGES
    Buffer,        \* JOB_UPDATE_BUFFER
    MaxRuns,       \* bound: runs of the document
    MaxEvents,     \* bound: events of a run
    Unheard,       \* seqs of events whose kind is not in EVENT_KINDS (target_layout,
                   \* build_failed): no listener of the app gets their frames
    MaxChanges,    \* bound: changes of job status
    MaxDrops,      \* bound: lost or refused connections
    MaxFetches     \* bound: fetches of the tail

ASSUME ConstantsAssumption ==
    /\ Limit \in Nat \ {0}
    /\ MaxPages \in Nat \ {0}
    /\ Buffer \in Nat \ {0}
    /\ MaxRuns \in Nat
    /\ MaxEvents \in Nat
    /\ Unheard \subseteq Nat
    /\ MaxChanges \in Nat
    /\ MaxDrops \in Nat
    /\ MaxFetches \in Nat

VARIABLES
    written,       \* events.jsonl: run -> number of complete lines; the last run is the newest
    changes,       \* number of job status changes in the registry
    stream,        \* event_stream of the server: the generator and its inbox
    wire,          \* frames sent on the connection and not received
    source,        \* EventSource of the app: state, and run and after of its URL
    fetch,         \* fetchEventTail in progress
    tail,          \* its last result; run 0 without one
    extra,         \* increments of the window and the run they belong to
    heard,         \* the last change of the job the app was told of
    fetches, drops

server == <<written, changes>>
app == <<tail, extra, heard>>
vars == <<server, stream, wire, source, fetch, app, fetches, drops>>

Runs == 1..Len(written)
Latest == Len(written)

Event(r, s) == [kind |-> "event", run |-> r, n |-> s]
JobUpdate(n) == [kind |-> "job_update", run |-> 0, n |-> n]

\* seen: number of lines the last read found; since: changes before the subscription
NoStream == [on |-> FALSE, run |-> 0, cursor |-> 0, read |-> FALSE, seen |-> 0,
             inbox |-> <<>>, since |-> 0]
NoSource == [state |-> "none", run |-> 0, after |-> 0]
NoEvents == [s \in {} |-> 0]
\* mixed: history, the pages came from more than one run (of a tail: now or earlier)
NoFetch == [on |-> FALSE, done |-> FALSE, page |-> 0, run |-> 0, next |-> 0,
            events |-> NoEvents, mixed |-> FALSE]
NoTail == [run |-> 0, next |-> 0, events |-> NoEvents, mixed |-> FALSE]

Init ==
    /\ written = <<>>
    /\ changes = 0
    /\ stream = NoStream
    /\ wire = <<>>
    /\ source = NoSource
    /\ fetch = NoFetch
    /\ tail = NoTail
    /\ extra = [run |-> 0, events |-> NoEvents]
    /\ heard = 0
    /\ fetches = 0 /\ drops = 0

-----------------------------------------------------------------------------
(* The run and the job *)

\* a run creates its archive
NewRun ==
    /\ Len(written) < MaxRuns
    /\ written' = Append(written, 0)
    /\ UNCHANGED <<changes, stream, wire, source, fetch, app, fetches, drops>>

\* record_event; one run holds the write lock of the workdir
RecordEvent ==
    /\ Latest > 0
    /\ written[Latest] < MaxEvents
    /\ written' = [written EXCEPT ![Latest] = @ + 1]
    /\ UNCHANGED <<changes, stream, wire, source, fetch, app, fetches, drops>>

\* BUG: a full inbox refuses the new frame.
Put_DropsNewest(inbox, n) == IF Len(inbox) = Buffer THEN inbox ELSE Append(inbox, n)

\* deque(maxlen): a full inbox drops its oldest frame
Put(inbox, n) == IF Len(inbox) = Buffer THEN Append(Tail(inbox), n) ELSE Append(inbox, n)

\* JobUpdateHub.publish, after the change was saved; nothing is kept without a subscriber
Publish ==
    /\ changes < MaxChanges
    /\ changes' = changes + 1
    /\ stream' = IF stream.on THEN [stream EXCEPT !.inbox = Put(@, changes + 1)] ELSE stream
    /\ UNCHANGED <<written, wire, source, fetch, app, fetches, drops>>

-----------------------------------------------------------------------------
(* The stream *)

\* the cursor of stream_events, for a URL that names its run
StartCursor == source.after

\* the connection is made: the generator subscribes on its first line
Connect ==
    /\ source.state = "connecting"
    /\ source' = [source EXCEPT !.state = "open"]
    /\ stream' = [NoStream EXCEPT !.on = TRUE, !.run = source.run, !.cursor = StartCursor,
                                  !.since = changes]
    /\ UNCHANGED <<server, wire, fetch, app, fetches, drops>>

\* another status than 200: the EventSource is closed and does not try again
Refuse ==
    /\ source.state = "connecting"
    /\ drops < MaxDrops
    /\ drops' = drops + 1
    /\ source' = [source EXCEPT !.state = "closed"]
    /\ UNCHANGED <<server, stream, wire, fetch, app, fetches>>

\* _read_events, in a thread
Read ==
    /\ stream.on /\ ~stream.read
    /\ stream' = [stream EXCEPT !.read = TRUE, !.seen = written[stream.run]]
    /\ UNCHANGED <<server, wire, source, fetch, app, fetches, drops>>

\* back on the event loop: drain the inbox, send what was read, then what was pushed
Send ==
    /\ stream.on /\ stream.read
    /\ LET from == stream.cursor
           fresh == IF stream.seen > from THEN stream.seen - from ELSE 0
       IN  /\ wire' = wire \o [i \in 1..fresh |-> Event(stream.run, from + i)]
                           \o [i \in 1..Len(stream.inbox) |-> JobUpdate(stream.inbox[i])]
           /\ stream' = [stream EXCEPT !.read = FALSE, !.seen = 0, !.inbox = <<>>,
                                       !.cursor = from + fresh]
    /\ UNCHANGED <<server, source, fetch, app, fetches, drops>>

\* BUG: the app gives up on a lost connection.
Reconnecting_Closed == "none"

\* an EventSource reconnects by itself
Reconnecting == "connecting"

\* the connection is lost with the frames on it; the generator unsubscribes
Drop ==
    /\ source.state = "open"
    /\ drops < MaxDrops
    /\ drops' = drops + 1
    /\ source' = [source EXCEPT !.state = Reconnecting]
    /\ stream' = NoStream
    /\ wire' = <<>>
    /\ UNCHANGED <<server, fetch, app, fetches>>

-----------------------------------------------------------------------------
(* The app *)

\* sortedUnique: a map by seq, the later list wins
Merge(prev, incoming) ==
    [s \in DOMAIN prev \cup DOMAIN incoming |->
        IF s \in DOMAIN incoming THEN incoming[s] ELSE prev[s]]

\* BUG: increments of another run are kept.
Increments_AnyRun == extra.events

\* appendEvents: increments that belong to another run are dropped
Increments == IF extra.run = tail.run THEN extra.events ELSE NoEvents

\* addEventListener, for every kind of EVENT_KINDS
Listened(f) == f.kind = "job_update" \/ f.n \notin Unheard

\* a frame arrives, and is dispatched to the listener of its kind, if there is one
Deliver ==
    /\ wire # <<>>
    /\ wire' = Tail(wire)
    /\ \/ /\ ~Listened(Head(wire))
          /\ UNCHANGED <<extra, heard>>
       \/ /\ Head(wire).kind = "event" /\ Listened(Head(wire))
          /\ extra' = [run |-> tail.run,
                       events |-> Merge(Increments, [s \in {Head(wire).n} |-> Head(wire).run])]
          /\ UNCHANGED heard
       \/ /\ Head(wire).kind = "job_update"
          /\ heard' = Head(wire).n
          /\ UNCHANGED extra
    /\ UNCHANGED <<server, stream, source, fetch, tail, fetches, drops>>

\* the tail is fetched on mount, every 5 s while a job is active, and when a job_update
\* invalidates it, which starts a fetch in progress again
StartFetch ==
    /\ fetches < MaxFetches
    /\ Latest > 0
    /\ fetches' = fetches + 1
    /\ fetch' = [NoFetch EXCEPT !.on = TRUE]
    /\ UNCHANGED <<server, stream, wire, source, app, drops>>

\* BUG: the next page starts a full page later, whatever was scanned.
NextAfter_ByLimit(after, seqs) == after + Limit

\* _scan_position: the last seq scanned
NextAfter(after, seqs) == after + Cardinality(seqs)

\* event_page: no request names a run, so that each page is read from the newest
FetchPage ==
    /\ fetch.on /\ ~fetch.done
    /\ LET after == fetch.next
           seqs == {s \in after + 1 .. after + Limit : s <= written[Latest]}
           more == written[Latest] > after + Limit
       IN  fetch' = [fetch EXCEPT
                        !.page = @ + 1,
                        !.run = Latest,
                        !.next = NextAfter(after, seqs),
                        !.events = Merge(@, [s \in seqs |-> Latest]),
                        !.done = ~more \/ fetch.page + 1 = MaxPages,
                        !.mixed = @ \/ fetch.run \notin {0, Latest}]
    /\ UNCHANGED <<server, stream, wire, source, app, fetches, drops>>

\* the result is shown; another run or cursor closes the stream and opens a new one
FetchDone ==
    /\ fetch.done
    /\ tail' = [run |-> fetch.run, next |-> fetch.next, events |-> fetch.events,
                mixed |-> tail.mixed \/ fetch.mixed]
    /\ fetch' = NoFetch
    /\ \/ /\ tail'.run = tail.run /\ tail'.next = tail.next
          /\ UNCHANGED <<source, stream, wire>>
       \/ /\ tail'.run # tail.run \/ tail'.next # tail.next
          /\ source' = [state |-> "connecting", run |-> fetch.run, after |-> fetch.next]
          /\ stream' = NoStream
          /\ wire' = <<>>
    /\ UNCHANGED <<server, extra, heard, fetches, drops>>

-----------------------------------------------------------------------------

Next ==
    \/ NewRun \/ RecordEvent \/ Publish
    \/ Connect \/ Refuse \/ Read \/ Send \/ Drop
    \/ Deliver \/ StartFetch \/ FetchPage \/ FetchDone

Spec == Init /\ [][Next]_vars

\* The generator polls, requests are answered, the browser delivers and reconnects.
\* Nothing is assumed of the run, the job, lost connections or new fetches.
Fairness ==
    /\ WF_vars(Connect) /\ WF_vars(Read) /\ WF_vars(Send)
    /\ WF_vars(Deliver) /\ WF_vars(FetchPage) /\ WF_vars(FetchDone)

FairSpec == Spec /\ Fairness

-----------------------------------------------------------------------------
(* Properties *)

\* the events the panel shows: seq -> run
Window == IF extra.run = tail.run THEN Merge(tail.events, extra.events) ELSE tail.events

EventMaps == UNION {[S -> Runs] : S \in SUBSET (1..MaxEvents)}
Frames == {Event(r, s) : r \in Runs, s \in 1..MaxEvents} \cup {JobUpdate(n) : n \in 1..changes}

Streams == [on : BOOLEAN, run : 0..MaxRuns, cursor : 0..MaxEvents, read : BOOLEAN,
            seen : 0..MaxEvents, inbox : Seq(1..MaxChanges), since : 0..MaxChanges]
Sources == [state : {"none", "connecting", "open", "closed"}, run : 0..MaxRuns, after : 0..MaxEvents]
Fetches == [on : BOOLEAN, done : BOOLEAN, page : 0..MaxPages, run : 0..MaxRuns,
            next : 0..MaxEvents, events : EventMaps, mixed : BOOLEAN]
Tails == [run : 0..MaxRuns, next : 0..MaxEvents, events : EventMaps, mixed : BOOLEAN]

\* Every variable has its type; the inbox of a connection never holds more than its limit.
TypeOK ==
    /\ written \in Seq(0..MaxEvents) /\ Len(written) <= MaxRuns
    /\ changes \in 0..MaxChanges
    /\ stream \in Streams /\ Len(stream.inbox) <= Buffer
    /\ wire \in Seq(Frames)
    /\ source \in Sources
    /\ fetch \in Fetches
    /\ tail \in Tails
    /\ extra \in [run : 0..MaxRuns, events : EventMaps]
    /\ heard \in 0..MaxChanges
    /\ fetches \in 0..MaxFetches /\ drops \in 0..MaxDrops

OnWire(f) == \E i \in 1..Len(wire) : wire[i] = f

\* How far the server believes the app to be: the cursor of the stream, or of its URL.
Position == IF stream.on THEN stream.cursor ELSE tail.next

\* Nothing falls between the pages and the stream, or into a reconnection: each event up
\* to the cursor of the server is shown or on its way. The cursor is never sent back; two
\* sides count separately, over refetches, new runs and lost frames. Excepted are the
\* events behind the pages that no listener of the app gets.
NothingSkipped ==
    tail.run # 0 /\ ~tail.mixed =>
        \A s \in 1..Position : \/ s \in DOMAIN Window
                               \/ OnWire(Event(tail.run, s))
                               \/ s \in Unheard /\ s > tail.next

\* seq counts within a run: the panel never shows events of another run than the one it
\* names, although old increments and frames outlive a change of the run.
WindowOfRun == ~tail.mixed => \A s \in DOMAIN Window : Window[s] = tail.run

\* The inbox may lose changes of the job but never the last: while the connection holds,
\* the newest change since its subscription is on its way or was heard.
LatestKept ==
    stream.on /\ changes > stream.since =>
        \/ heard = changes
        \/ OnWire(JobUpdate(changes))
        \/ \E i \in 1..Len(stream.inbox) : stream.inbox[i] = changes

\* Every event of the run the app follows that has a listener is shown in the end, over
\* lost connections, unless the app follows another run (or a tail put together of two),
\* or its EventSource was closed by a refusal.
EventShown ==
    \A r \in 1..MaxRuns, s \in 1..MaxEvents \ Unheard :
        (tail.run = r /\ s <= written[r])
            ~> (s \in DOMAIN Window \/ tail.run # r \/ tail.mixed \/ source.state = "closed")

=============================================================================
