-------------------------- MODULE EventStreamProofs --------------------------
(***************************************************************************)
(* Theorems about EventStream, for every bound.                            *)
(*                                                                         *)
(* Server and app each keep a run and a position of their own. Followed    *)
(* says that they agree whenever a stream stands, SameRun that what the    *)
(* app holds is of the run it names and reaches as far as it believes;     *)
(* with both no event can be skipped. LastInLine follows the last change   *)
(* of the job from the inbox over the wire to the app.                     *)
(***************************************************************************)
EXTENDS EventStream, TLAPS, SequenceTheorems, FiniteSetTheorems

\* What a name stands for: a run that is there; the stream and the frames are of the
\* run and position of the tail.
Followed ==
    /\ tail.run <= Latest /\ fetch.run <= Latest
    /\ fetch.done => fetch.run # 0
    /\ fetch.on => Latest # 0
    /\ fetch.on /\ ~fetch.done => fetch.page < MaxPages
    /\ source.state # "none" => tail.run # 0 /\ source.run = tail.run /\ source.after = tail.next
    /\ stream.on => source.state = "open" /\ stream.run = tail.run
    /\ ~stream.on => wire = <<>> /\ stream.inbox = <<>>
    /\ \A i \in 1..Len(wire) : wire[i].kind = "event" => wire[i].run = tail.run
    /\ \A i \in 1..Len(stream.inbox) : stream.inbox[i] <= changes

TypeInv == TypeOK /\ Followed

-----------------------------------------------------------------------------
(* Facts about the data *)

LEMMA FrameCases ==
    \A f \in Frames : \/ f.kind = "event" /\ f.run \in Runs /\ f.n \in 1..MaxEvents
                         /\ f = Event(f.run, f.n)
                      \/ f.kind = "job_update" /\ f.run = 0 /\ f.n \in 1..changes
                         /\ f = JobUpdate(f.n)
<1> SUFFICES ASSUME NEW f \in Frames
             PROVE  \/ f.kind = "event" /\ f.run \in Runs /\ f.n \in 1..MaxEvents
                       /\ f = Event(f.run, f.n)
                    \/ f.kind = "job_update" /\ f.run = 0 /\ f.n \in 1..changes
                       /\ f = JobUpdate(f.n)
  OBVIOUS
<1>1. CASE \E r \in Runs, s \in 1..MaxEvents : f = Event(r, s)
  BY <1>1 DEF Event
<1>2. CASE \E n \in 1..changes : f = JobUpdate(n)
  BY <1>2 DEF JobUpdate
<1> QED
  BY <1>1, <1>2 DEF Frames

\* More runs and changes leave frames and windows what they are.
LEMMA Grows ==
    ASSUME TypeOK, written' \in Seq(0..MaxEvents), Len(written) <= Len(written'),
           changes' \in Nat, changes <= changes'
    PROVE  /\ Runs \subseteq Runs' /\ Latest' >= Latest
           /\ Seq(Frames) \subseteq Seq(Frames')
           /\ EventMaps \subseteq EventMaps' /\ Fetches \subseteq Fetches' /\ Tails \subseteq Tails'
<1>0. Len(written) \in Nat /\ Len(written') \in Nat /\ changes \in Nat
  BY ConstantsAssumption DEF ConstantsAssumption, TypeOK
<1>1. Runs \subseteq Runs' /\ 1..changes \subseteq 1..changes'
  BY ONLY <1>0, Len(written) <= Len(written'), changes <= changes', changes' \in Nat DEF Runs
<1>2. Frames \subseteq Frames'
  BY <1>1 DEF Frames, Event, JobUpdate
<1>3. Seq(Frames) \subseteq Seq(Frames')
  BY <1>2, SeqMonotonic
<1>4. EventMaps \subseteq EventMaps'
  <2> SUFFICES ASSUME NEW f \in EventMaps PROVE f \in EventMaps'
    OBVIOUS
  <2>1. PICK S \in SUBSET (1..MaxEvents) : f \in [S -> Runs]
    BY DEF EventMaps
  <2>2. f \in [S -> Runs']
    BY <2>1, <1>1
  <2> QED
    BY <2>2 DEF EventMaps
<1>5. Fetches \subseteq Fetches' /\ Tails \subseteq Tails'
  BY <1>4 DEF Fetches, Tails
<1> QED
  BY <1>0, <1>1, <1>3, <1>4, <1>5 DEF Latest

LEMMA Same ==
    ASSUME UNCHANGED <<written, changes>>
    PROVE  /\ Runs' = Runs /\ Latest' = Latest /\ Frames' = Frames /\ EventMaps' = EventMaps
           /\ Fetches' = Fetches /\ Tails' = Tails
BY DEF Runs, Latest, Frames, EventMaps, Fetches, Tails

LEMMA MapDomain == \A f \in EventMaps : DOMAIN f \subseteq 1..MaxEvents
                                        /\ \A s \in DOMAIN f : f[s] \in Runs
BY DEF EventMaps

\* Merging two windows.
LEMMA MergeType ==
    ASSUME NEW f \in EventMaps, NEW g \in EventMaps PROVE Merge(f, g) \in EventMaps
<1>1. DOMAIN f \cup DOMAIN g \in SUBSET (1..MaxEvents)
  BY MapDomain
<1>2. Merge(f, g) \in [DOMAIN f \cup DOMAIN g -> Runs]
  BY MapDomain DEF Merge
<1> QED
  BY <1>1, <1>2 DEF EventMaps

LEMMA ConstantMap ==
    ASSUME NEW S \in SUBSET (1..MaxEvents), NEW r \in Runs PROVE [s \in S |-> r] \in EventMaps
<1>1. [s \in S |-> r] \in [S -> Runs]
  OBVIOUS
<1> QED
  BY <1>1 DEF EventMaps

LEMMA NoEventsType == NoEvents \in EventMaps /\ DOMAIN NoEvents = {}
<1>1. NoEvents \in [{} -> Runs]
  BY DEF NoEvents
<1> QED
  BY <1>1 DEF EventMaps, NoEvents

\* The seqs of a page are an interval, and the position behind it is its end.
LEMMA PageIsInterval ==
    ASSUME NEW after \in Nat, NEW w \in Nat
    PROVE  LET seqs == {s \in after + 1 .. after + Limit : s <= w}
               next == NextAfter(after, seqs)
           IN  /\ next \in Nat /\ after <= next
               /\ (next = after \/ next <= w)
               /\ 1..after \cup seqs = 1..next
               /\ seqs \subseteq 1..w
<1> USE ConstantsAssumption DEF ConstantsAssumption
<1> DEFINE seqs == {s \in after + 1 .. after + Limit : s <= w}
           end == IF w < after THEN after ELSE IF after + Limit <= w THEN after + Limit ELSE w
<1>1. end \in Nat /\ after <= end /\ (end = after \/ end <= w)
  OBVIOUS
<1>2. seqs = after + 1 .. end
  OBVIOUS
<1> HIDE DEF seqs, end
<1>3. Cardinality(seqs) = end - after
  <2>1. Cardinality(after + 1 .. end) = IF after + 1 > end THEN 0 ELSE end - (after + 1) + 1
    BY <1>1, FS_Interval
  <2> QED
    BY ONLY <1>1, <1>2, <2>1
<1>4. NextAfter(after, seqs) = end
  BY <1>1, <1>3 DEF NextAfter
<1>5. 1..after \cup seqs = 1..end /\ seqs \subseteq 1..w
  BY <1>1, <1>2
<1> QED
  BY <1>1, <1>4, <1>5 DEF seqs

-----------------------------------------------------------------------------
(* Types *)

LEMMA TypeInit == Init => TypeInv
<1> SUFFICES ASSUME Init PROVE TypeInv
  OBVIOUS
<1> USE ConstantsAssumption DEF ConstantsAssumption
<1>1. TypeOK
  BY NoEventsType DEF Init, TypeOK, NoStream, NoSource, NoFetch, NoTail, Streams, Sources, Fetches,
      Tails
<1>2. Followed
  BY DEF Init, Followed, NoStream, NoSource, NoFetch, NoTail, Latest
<1> QED
  BY <1>1, <1>2 DEF TypeInv

\* A run begins, an event is written.
LEMMA WriteType == ASSUME TypeInv, NewRun \/ RecordEvent PROVE TypeInv'
<1> USE ConstantsAssumption DEF ConstantsAssumption, TypeInv
<1>1. /\ written' \in Seq(0..MaxEvents) /\ Len(written) <= Len(written') /\ Len(written') <= MaxRuns
      /\ UNCHANGED <<changes, stream, wire, source, fetch, app, fetches, drops>>
  <2>1. written \in Seq(0..MaxEvents) /\ Len(written) \in Nat /\ Len(written) <= MaxRuns
    BY DEF TypeOK
  <2>2. CASE NewRun
    BY <2>1, <2>2 DEF NewRun
  <2>3. CASE RecordEvent
    BY <2>1, <2>3 DEF RecordEvent, Latest
  <2> QED
    BY <2>2, <2>3
<1>2. changes' \in Nat /\ changes <= changes'
  BY <1>1 DEF TypeOK
<1>3. /\ Latest <= Latest' /\ Seq(Frames) \subseteq Seq(Frames') /\ EventMaps \subseteq EventMaps'
      /\ Fetches \subseteq Fetches' /\ Tails \subseteq Tails'
  BY <1>1, <1>2, Grows
<1>4. TypeOK'
  <2>1. extra' \in [run : 0..MaxRuns, events : EventMaps']
    BY <1>1, <1>3 DEF TypeOK, app
  <2>2. fetch' \in Fetches' /\ tail' \in Tails' /\ wire' \in Seq(Frames')
    BY <1>1, <1>3 DEF TypeOK, app
  <2>3. stream' \in Streams' /\ Len(stream'.inbox) <= Buffer /\ source' \in Sources'
    BY <1>1 DEF TypeOK, Streams, Sources
  <2> QED
    BY <1>1, <2>1, <2>2, <2>3 DEF TypeOK, app
<1>5. Followed'
  <2>1. tail.run \in Nat /\ fetch.run \in Nat /\ Latest \in Nat /\ Latest' \in Nat
    BY <1>1 DEF TypeOK, Tails, Fetches, Latest
  <2> QED
    BY <1>1, <1>3, <2>1 DEF Followed, app
<1> QED
  BY <1>4, <1>5

\* The inbox after a change: no longer than its limit, the change at its end.
LEMMA PutResult ==
    ASSUME NEW S, NEW inbox \in Seq(S), NEW n \in S, Len(inbox) <= Buffer
    PROVE  LET new == Put(inbox, n)
           IN  /\ new \in Seq(S) /\ Len(new) <= Buffer
               /\ new # <<>> /\ new[Len(new)] = n
               /\ \A i \in 1..Len(new) : new[i] = n \/ \E k \in 1..Len(inbox) : new[i] = inbox[k]
<1> USE ConstantsAssumption DEF ConstantsAssumption
<1>1. CASE Len(inbox) = Buffer
  <2>1. Put(inbox, n) = Append(Tail(inbox), n)
    BY <1>1 DEF Put
  <2> DEFINE rest == Tail(inbox)
  <2>2. inbox # <<>>
    BY <1>1
  <2>3. rest \in Seq(S) /\ Len(rest) = Buffer - 1
        /\ \A i \in 1..Len(rest) : rest[i] = inbox[i + 1]
    BY <1>1, <2>2, HeadTailProperties
  <2> HIDE DEF rest
  <2>4. /\ Append(rest, n) \in Seq(S) /\ Len(Append(rest, n)) = Buffer
        /\ Append(rest, n)[Buffer] = n
        /\ \A i \in 1..Buffer - 1 : Append(rest, n)[i] = rest[i]
    BY <2>3, AppendProperties
  <2>5. Put(inbox, n) = Append(rest, n)
    BY <2>1 DEF rest
  <2>6. ASSUME NEW i \in 1..Buffer
        PROVE  Append(rest, n)[i] = n \/ \E k \in 1..Len(inbox) : Append(rest, n)[i] = inbox[k]
    <3>1. CASE i = Buffer
      BY <2>4, <3>1
    <3>2. CASE i # Buffer
      <4>1. i \in 1..Len(rest) /\ i + 1 \in 1..Len(inbox)
        BY <1>1, <2>3, <3>2
      <4> QED
        BY <2>3, <2>4, <4>1
    <3> QED
      BY <3>1, <3>2
  <2>7. Append(rest, n) # <<>> /\ Buffer <= Buffer
    BY <2>4
  <2> QED
    BY ONLY <2>4, <2>5, <2>6, <2>7
<1>2. CASE Len(inbox) # Buffer
  <2>1. Put(inbox, n) = Append(inbox, n)
    BY <1>2 DEF Put
  <2>2. /\ Append(inbox, n) \in Seq(S) /\ Len(Append(inbox, n)) = Len(inbox) + 1
        /\ Append(inbox, n)[Len(inbox) + 1] = n
        /\ \A i \in 1..Len(inbox) : Append(inbox, n)[i] = inbox[i]
    BY AppendProperties
  <2>3. Len(inbox) \in Nat /\ Len(inbox) + 1 <= Buffer
    BY <1>2
  <2>4. Append(inbox, n) # <<>>
    BY <2>2, <2>3
  <2> HIDE DEF Put
  <2> QED
    BY <2>1, <2>2, <2>3, <2>4
<1> QED
  BY <1>1, <1>2

\* A job changes.
LEMMA PublishType == ASSUME TypeInv, Publish PROVE TypeInv'
<1> USE ConstantsAssumption DEF ConstantsAssumption, TypeInv
<1> DEFINE inbox == Put(stream.inbox, changes + 1)
<1>1. /\ changes' = changes + 1 /\ changes' \in 1..MaxChanges /\ changes \in Nat
      /\ UNCHANGED <<written, wire, source, fetch, app, fetches, drops>>
  BY SMTT(30) DEF Publish, TypeOK
<1>2. /\ stream.inbox \in Seq(1..changes') /\ Len(stream.inbox) <= Buffer
  <2>1. stream.inbox \in Seq(1..MaxChanges)
    BY DEF TypeOK, Streams
  <2>2. \A i \in 1..Len(stream.inbox) : stream.inbox[i] \in 1..changes'
    BY <1>1, <2>1 DEF Followed
  <2>3. stream.inbox \in [1..Len(stream.inbox) -> 1..MaxChanges] /\ Len(stream.inbox) \in Nat
    BY <2>1, LenProperties
  <2>4. stream.inbox \in Seq(1..changes')
    <3>1. stream.inbox \in [1..Len(stream.inbox) -> 1..changes']
      BY <2>2, <2>3
    <3> QED
      BY ONLY <2>3, <3>1, SeqDef
  <2> QED
    BY <2>4 DEF TypeOK
<1>3. inbox \in Seq(1..changes') /\ Len(inbox) <= Buffer
  BY <1>1, <1>2, PutResult
<1>4. inbox \in Seq(1..MaxChanges)
  <2>1. 1..changes' \subseteq 1..MaxChanges
    BY <1>1
  <2> QED
    BY <1>3, <2>1, SeqMonotonic
<1>5. stream' = stream \/ stream' = [stream EXCEPT !.inbox = inbox]
  BY DEF Publish
<1>6. /\ Latest <= Latest' /\ Seq(Frames) \subseteq Seq(Frames') /\ EventMaps \subseteq EventMaps'
      /\ Fetches \subseteq Fetches' /\ Tails \subseteq Tails' /\ Latest \in Nat
  BY <1>1, Grows DEF TypeOK, Latest
<1> HIDE DEF inbox
<1>7. TypeOK'
  <2>1. extra' \in [run : 0..MaxRuns, events : EventMaps']
    BY <1>1, <1>6 DEF TypeOK, app
  <2>2. fetch' \in Fetches' /\ tail' \in Tails' /\ wire' \in Seq(Frames')
    BY <1>1, <1>6 DEF TypeOK, app
  <2>3. stream' \in Streams /\ Len(stream'.inbox) <= Buffer
    BY <1>3, <1>4, <1>5 DEF TypeOK, Streams
  <2> QED
    BY <1>1, <2>1, <2>2, <2>3 DEF TypeOK, app, Streams, Sources
<1>8. Followed'
  <2>1. \A i \in 1..Len(stream'.inbox) : stream'.inbox[i] <= changes'
    <3>1. CASE stream' = stream
      BY <1>1, <1>2, <3>1
    <3>2. CASE stream' = [stream EXCEPT !.inbox = inbox]
      <4>1. stream'.inbox = inbox
        BY <3>2 DEF TypeOK, Streams
      <4> QED
        BY <1>1, <1>3, <4>1
    <3> QED
      BY <1>5, <3>1, <3>2
  <2>2. stream'.on = stream.on /\ stream'.run = stream.run
    BY <1>5 DEF TypeOK, Streams
  <2>3. ~stream.on => stream' = stream
    BY DEF Publish
  <2> QED
    BY <1>1, <1>6, <2>1, <2>2, <2>3 DEF Followed, app, Latest
<1> QED
  BY <1>7, <1>8

\* What a connection is for is known; its stream starts where the tail ended.
LEMMA ConnectType == ASSUME TypeInv, Connect PROVE TypeInv'
<1> USE ConstantsAssumption DEF ConstantsAssumption, TypeInv
<1>1. /\ UNCHANGED <<written, changes, wire, fetch, tail, extra, heard, fetches, drops>>
      /\ source.state = "connecting" /\ source' = [source EXCEPT !.state = "open"]
      /\ stream' = [NoStream EXCEPT !.on = TRUE, !.run = source.run, !.cursor = source.after,
                                    !.since = changes]
  BY DEF Connect, server, app, StartCursor
<1>2. source' \in Sources /\ source'.state = "open"
      /\ source'.run = source.run /\ source'.after = source.after
  BY <1>1 DEF TypeOK, Sources
<1>3. stream' \in Streams /\ stream'.on /\ stream'.inbox = <<>> /\ stream'.run = source.run
  <2>1. stream' = [on |-> TRUE, run |-> source.run, cursor |-> source.after, read |-> FALSE,
                   seen |-> 0, inbox |-> <<>>, since |-> changes]
    BY <1>1 DEF NoStream
  <2>2. source.run \in 0..MaxRuns /\ source.after \in 0..MaxEvents /\ changes \in 0..MaxChanges
    BY DEF TypeOK, Sources
  <2> QED
    BY <2>1, <2>2 DEF Streams
<1>4. TypeOK'
  BY <1>1, <1>2, <1>3, Same DEF TypeOK
<1>5. Followed'
  BY <1>1, <1>2, <1>3, Same DEF Followed
<1> QED
  BY <1>4, <1>5

\* The archive is read: of a run that is there.
LEMMA ReadType == ASSUME TypeInv, Read PROVE TypeInv'
<1> USE ConstantsAssumption DEF ConstantsAssumption, TypeInv
<1>1. /\ UNCHANGED <<written, changes, wire, source, fetch, tail, extra, heard, fetches, drops>>
      /\ stream.on /\ stream' = [stream EXCEPT !.read = TRUE, !.seen = written[stream.run]]
  BY DEF Read, server, app
<1>2. stream.run \in 1..Len(written)
  <2>1. stream.run = tail.run /\ tail.run =< Len(written) /\ tail.run # 0
    BY <1>1 DEF Followed, Latest
  <2>2. tail.run \in 0..MaxRuns /\ Len(written) \in Nat /\ MaxRuns \in Nat
    BY DEF TypeOK, Tails
  <2> QED
    BY <2>1, <2>2
<1>3. written[stream.run] \in 0..MaxEvents
  BY <1>2 DEF TypeOK
<1>4. stream' \in Streams /\ stream'.on = stream.on /\ stream'.inbox = stream.inbox
      /\ stream'.run = stream.run
  <2>1. stream \in Streams
    BY DEF TypeOK
  <2> QED
    BY <1>1, <1>3, <2>1 DEF Streams
<1>5. TypeOK'
  BY <1>1, <1>4, Same DEF TypeOK
<1>6. Followed'
  BY <1>1, <1>4, Same DEF Followed
<1> QED
  BY <1>5, <1>6

\* The number of events a turn of the generator sends.
Fresh == IF stream.seen > stream.cursor THEN stream.seen - stream.cursor ELSE 0

\* What a turn sends, frame by frame, and where it leaves the stream.
LEMMA SendResult ==
    ASSUME TypeInv, Send
    PROVE  /\ UNCHANGED <<written, changes, source, fetch, tail, extra, heard, fetches, drops>>
           /\ stream.on
           /\ stream' = [stream EXCEPT !.read = FALSE, !.seen = 0, !.inbox = <<>>,
                                       !.cursor = stream.cursor + Fresh]
           /\ Fresh \in Nat /\ stream.cursor + Fresh \in 0..MaxEvents
           /\ wire' \in Seq(Frames)
           /\ Len(wire') = Len(wire) + Fresh + Len(stream.inbox)
           /\ \A i \in 1..Len(wire) : wire'[i] = wire[i]
           /\ \A i \in 1..Fresh : wire'[Len(wire) + i] = Event(stream.run, stream.cursor + i)
           /\ \A i \in 1..Len(stream.inbox) :
                  wire'[Len(wire) + Fresh + i] = JobUpdate(stream.inbox[i])
<1> USE ConstantsAssumption DEF ConstantsAssumption, TypeInv
<1> DEFINE events == [i \in 1..Fresh |-> Event(stream.run, stream.cursor + i)]
           jobs == [i \in 1..Len(stream.inbox) |-> JobUpdate(stream.inbox[i])]
<1>1. /\ UNCHANGED <<written, changes, source, fetch, tail, extra, heard, fetches, drops>>
      /\ stream.on
      /\ stream' = [stream EXCEPT !.read = FALSE, !.seen = 0, !.inbox = <<>>,
                                  !.cursor = stream.cursor + Fresh]
      /\ wire' = (wire \o events) \o jobs
  BY DEF Send, Fresh, server, app
<1>2. /\ stream.cursor \in 0..MaxEvents /\ stream.seen \in 0..MaxEvents
      /\ stream.inbox \in Seq(1..MaxChanges) /\ stream.run \in Nat
  BY DEF TypeOK, Streams
<1>3. Fresh \in Nat /\ stream.cursor + Fresh \in 0..MaxEvents
  BY <1>2 DEF Fresh
<1>4. stream.run \in Runs
  BY <1>1, <1>2, SMTT(30) DEF TypeOK, Followed, Latest, Runs
<1>5. events \in Seq(Frames) /\ Len(events) = Fresh
  <2>1. \A i \in 1..Fresh : Event(stream.run, stream.cursor + i) \in Frames
    <3> SUFFICES ASSUME NEW i \in 1..Fresh PROVE Event(stream.run, stream.cursor + i) \in Frames
      OBVIOUS
    <3>1. stream.cursor + i \in 1..MaxEvents
      BY <1>2, <1>3
    <3> QED
      BY <1>4, <3>1 DEF Frames
  <2>2. events \in [1..Fresh -> Frames]
    BY <2>1
  <2> QED
    BY <1>3, <2>2, SeqDef
<1>6. jobs \in Seq(Frames) /\ Len(jobs) = Len(stream.inbox)
  <2>1. \A i \in 1..Len(stream.inbox) : JobUpdate(stream.inbox[i]) \in Frames
    <3> SUFFICES ASSUME NEW i \in 1..Len(stream.inbox) PROVE JobUpdate(stream.inbox[i]) \in Frames
      OBVIOUS
    <3>1. stream.inbox[i] \in 1..MaxChanges /\ stream.inbox[i] <= changes
      BY <1>2 DEF Followed
    <3>2. changes \in Nat
      BY DEF TypeOK
    <3>3. stream.inbox[i] \in 1..changes
      BY <3>1, <3>2
    <3> QED
      BY <3>3 DEF Frames
  <2>2. jobs \in [1..Len(stream.inbox) -> Frames] /\ Len(stream.inbox) \in Nat
    BY <1>2, <2>1
  <2> QED
    BY <2>2, SeqDef
<1>7. wire \in Seq(Frames) /\ Len(wire) \in Nat
  BY DEF TypeOK
<1>8. /\ wire \o events \in Seq(Frames) /\ Len(wire \o events) = Len(wire) + Fresh
      /\ \A i \in 1..Len(wire) + Fresh :
             (wire \o events)[i] = IF i <= Len(wire) THEN wire[i] ELSE events[i - Len(wire)]
  BY <1>5, <1>7, ConcatProperties
<1> HIDE DEF jobs
<1>9. /\ wire' \in Seq(Frames) /\ Len(wire') = Len(wire) + Fresh + Len(stream.inbox)
      /\ \A i \in 1..Len(wire) + Fresh + Len(stream.inbox) :
             wire'[i] = IF i <= Len(wire) + Fresh THEN (wire \o events)[i]
                        ELSE jobs[i - (Len(wire) + Fresh)]
  <2> DEFINE front == wire \o events
  <2>1. front \in Seq(Frames) /\ Len(front) = Len(wire) + Fresh
    BY <1>8
  <2> HIDE DEF front
  <2>2. /\ front \o jobs \in Seq(Frames) /\ Len(front \o jobs) = Len(front) + Len(jobs)
        /\ \A i \in 1..Len(front) + Len(jobs) :
               (front \o jobs)[i] = IF i <= Len(front) THEN front[i] ELSE jobs[i - Len(front)]
    BY <1>6, <2>1, ConcatProperties, ZenonT(60)
  <2> QED
    BY <1>1, <1>6, <2>1, <2>2 DEF front
<1>13. /\ \A i \in 1..Len(wire) : /\ i \in 1..Len(wire) + Fresh
                                  /\ i \in 1..Len(wire) + Fresh + Len(stream.inbox)
                                  /\ i <= Len(wire) /\ i <= Len(wire) + Fresh
       /\ \A i \in 1..Fresh : /\ Len(wire) + i \in 1..Len(wire) + Fresh + Len(stream.inbox)
                              /\ Len(wire) + i <= Len(wire) + Fresh
       /\ \A i \in 1..Len(stream.inbox) :
              /\ Len(wire) + Fresh + i \in 1..Len(wire) + Fresh + Len(stream.inbox)
              /\ ~(Len(wire) + Fresh + i <= Len(wire) + Fresh)
              /\ (Len(wire) + Fresh + i) - (Len(wire) + Fresh) = i
  <2> DEFINE a == Len(wire)
             b == Fresh
             c == Len(stream.inbox)
  <2>1. a \in Nat /\ b \in Nat /\ c \in Nat
    BY <1>2, <1>3, <1>7
  <2> HIDE DEF a, b, c
  <2>2. /\ \A i \in 1..a : i \in 1..a + b /\ i \in 1..a + b + c /\ i <= a /\ i <= a + b
        /\ \A i \in 1..b : a + i \in 1..a + b + c /\ a + i <= a + b
        /\ \A i \in 1..c : /\ a + b + i \in 1..a + b + c
                          /\ ~(a + b + i <= a + b) /\ (a + b + i) - (a + b) = i
    BY ONLY <2>1
  <2> QED
    BY ONLY <2>2 DEF a, b, c
<1>10. \A i \in 1..Len(wire) : wire'[i] = wire[i]
  <2> SUFFICES ASSUME NEW i \in 1..Len(wire) PROVE wire'[i] = wire[i]
    OBVIOUS
  <2> QED
    BY ONLY <1>8, <1>9, <1>13
<1>11. \A i \in 1..Fresh : wire'[Len(wire) + i] = Event(stream.run, stream.cursor + i)
  <2> SUFFICES ASSUME NEW i \in 1..Fresh
               PROVE  wire'[Len(wire) + i] = Event(stream.run, stream.cursor + i)
    OBVIOUS
  <2>1. wire'[Len(wire) + i] = (wire \o events)[Len(wire) + i]
    BY ONLY <1>9, <1>13
  <2>2. (wire \o events)[Len(wire) + i] = events[i]
    BY <1>3, <1>7, <1>8
  <2> QED
    BY <2>1, <2>2
<1>12. \A i \in 1..Len(stream.inbox) : wire'[Len(wire) + Fresh + i] = JobUpdate(stream.inbox[i])
  <2> SUFFICES ASSUME NEW i \in 1..Len(stream.inbox)
               PROVE  wire'[Len(wire) + Fresh + i] = JobUpdate(stream.inbox[i])
    OBVIOUS
  <2>1. wire'[Len(wire) + Fresh + i] = jobs[i]
    BY ONLY <1>9, <1>13
  <2> QED
    BY <2>1 DEF jobs
<1> QED
  BY <1>1, <1>3, <1>9, <1>10, <1>11, <1>12

\* Every frame on the wire after a turn was there, or is one of its events or changes.
LEMMA SendFrames ==
    ASSUME TypeInv, Send, NEW i \in 1..Len(wire')
    PROVE  \/ i \in 1..Len(wire) /\ wire'[i] = wire[i]
           \/ \E k \in 1..Fresh : wire'[i] = Event(stream.run, stream.cursor + k)
           \/ \E k \in 1..Len(stream.inbox) : i = Len(wire) + Fresh + k
                                               /\ wire'[i] = JobUpdate(stream.inbox[k])
<1>1. Len(wire) \in Nat /\ Fresh \in Nat /\ Len(stream.inbox) \in Nat
  BY SendResult, SMTT(30) DEF TypeInv, TypeOK, Streams
<1>2. Len(wire') = Len(wire) + Fresh + Len(stream.inbox)
  BY SendResult
<1>3. CASE i <= Len(wire)
  BY <1>1, <1>3, SendResult
<1>4. CASE i > Len(wire) /\ i <= Len(wire) + Fresh
  <2>1. i - Len(wire) \in 1..Fresh /\ Len(wire) + (i - Len(wire)) = i
    BY <1>1, <1>4
  <2>2. \A k \in 1..Fresh : wire'[Len(wire) + k] = Event(stream.run, stream.cursor + k)
    BY SendResult
  <2>3. wire'[i] = Event(stream.run, stream.cursor + (i - Len(wire)))
    BY <2>1, <2>2
  <2> QED
    BY <2>1, <2>3
<1>5. CASE i > Len(wire) + Fresh
  <2> DEFINE k == i - (Len(wire) + Fresh)
  <2>1. k \in 1..Len(stream.inbox) /\ Len(wire) + Fresh + k = i
    <3> DEFINE a == Len(wire)
               b == Fresh
               c == Len(stream.inbox)
    <3>1. a \in Nat /\ b \in Nat /\ c \in Nat /\ i \in 1..a + b + c /\ i > a + b
      BY <1>1, <1>2, <1>5
    <3> HIDE DEF a, b, c
    <3>2. i - (a + b) \in 1..c /\ a + b + (i - (a + b)) = i
      BY ONLY <3>1
    <3> QED
      BY ONLY <3>2 DEF a, b, c
  <2>2. \A n \in 1..Len(stream.inbox) : wire'[Len(wire) + Fresh + n] = JobUpdate(stream.inbox[n])
    BY SendResult
  <2> HIDE DEF k
  <2> QED
    BY <2>1, <2>2
<1> QED
  BY <1>1, <1>3, <1>4, <1>5

LEMMA SendType == ASSUME TypeInv, Send PROVE TypeInv'
<1> USE DEF TypeInv
<1> USE SendResult
<1>1. /\ stream' \in Streams /\ stream'.on = stream.on /\ stream'.run = stream.run
      /\ stream'.inbox = <<>>
  <2>1. stream \in Streams /\ <<>> \in Seq(1..MaxChanges) /\ 0 \in 0..MaxEvents
    BY ConstantsAssumption DEF ConstantsAssumption, TypeOK
  <2> QED
    BY <2>1 DEF Streams
<1>2. TypeOK'
  BY <1>1, Same, ConstantsAssumption DEF TypeOK, ConstantsAssumption
<1>3. \A i \in 1..Len(wire') : wire'[i].kind = "event" => wire'[i].run = tail.run
  <2> SUFFICES ASSUME NEW i \in 1..Len(wire'), wire'[i].kind = "event"
               PROVE  wire'[i].run = tail.run
    OBVIOUS
  <2>1. CASE i \in 1..Len(wire) /\ wire'[i] = wire[i]
    BY <2>1 DEF Followed
  <2>2. ASSUME NEW k \in 1..Fresh, wire'[i] = Event(stream.run, stream.cursor + k)
        PROVE  wire'[i].run = tail.run
    BY <2>2 DEF Followed, Event
  <2>3. ASSUME NEW k \in 1..Len(stream.inbox), wire'[i] = JobUpdate(stream.inbox[k])
        PROVE  FALSE
    BY <2>3 DEF JobUpdate
  <2> QED
    BY <2>1, <2>2, <2>3, SendFrames, TypeInv, Send
<1>4. Followed'
  BY <1>1, <1>3, Same DEF Followed
<1> QED
  BY <1>2, <1>4

\* A lost connection leaves nothing on the wire and nothing in an inbox.
LEMMA DropType == ASSUME TypeInv, Drop PROVE TypeInv'
<1> USE DEF TypeInv
<1>1. /\ UNCHANGED <<written, changes, fetch, tail, extra, heard, fetches>>
      /\ drops < MaxDrops /\ drops' = drops + 1 /\ wire' = <<>> /\ stream' = NoStream
      /\ source.state = "open" /\ source' = [source EXCEPT !.state = "connecting"]
  BY DEF Drop, Reconnecting, server, app
<1>2. stream' \in Streams /\ ~stream'.on /\ stream'.inbox = <<>>
  BY <1>1, ConstantsAssumption DEF ConstantsAssumption, NoStream, Streams
<1>3. source' \in Sources /\ source'.state = "connecting"
      /\ source'.run = source.run /\ source'.after = source.after
  BY <1>1 DEF TypeOK, Sources
<1>4. drops' \in 0..MaxDrops
  BY <1>1, ConstantsAssumption DEF ConstantsAssumption, TypeOK
<1>5. TypeOK'
  BY <1>1, <1>2, <1>3, <1>4, Same, ConstantsAssumption DEF TypeOK, ConstantsAssumption
<1>6. Followed'
  BY <1>1, <1>2, <1>3, Same DEF Followed
<1> QED
  BY <1>5, <1>6

\* A refused connection: no stream stood, and none will.
LEMMA RefuseType == ASSUME TypeInv, Refuse PROVE TypeInv'
<1> USE DEF TypeInv
<1>1. /\ UNCHANGED <<written, changes, stream, wire, fetch, tail, extra, heard, fetches>>
      /\ drops < MaxDrops /\ drops' = drops + 1
      /\ source.state = "connecting" /\ source' = [source EXCEPT !.state = "closed"]
  BY DEF Refuse, server, app
<1>2. source' \in Sources /\ source'.state = "closed"
      /\ source'.run = source.run /\ source'.after = source.after
  BY <1>1 DEF TypeOK, Sources
<1>3. drops' \in 0..MaxDrops
  BY <1>1, ConstantsAssumption DEF ConstantsAssumption, TypeOK
<1>4. TypeOK'
  BY <1>1, <1>2, <1>3, Same DEF TypeOK
<1>5. ~stream.on
  BY <1>1 DEF Followed
<1>6. Followed'
  BY <1>1, <1>2, <1>5, Same DEF Followed
<1> QED
  BY <1>4, <1>6

\* What the arrival of a frame does.
LEMMA DeliverResult ==
    ASSUME TypeInv, Deliver
    PROVE  LET f == wire[1]
           IN  /\ UNCHANGED <<written, changes, stream, source, fetch, tail, fetches, drops>>
               /\ wire # <<>> /\ f \in Frames
               /\ wire' \in Seq(Frames) /\ Len(wire) = Len(wire') + 1 /\ Len(wire') \in Nat
               /\ \A i \in 1..Len(wire') : wire'[i] = wire[i + 1]
               /\ \/ /\ f.kind = "event" /\ f.n \in Unheard
                     /\ f = Event(tail.run, f.n) /\ heard' = heard /\ extra' = extra
                  \/ /\ f.kind = "event" /\ f.run = tail.run
                     /\ f = Event(tail.run, f.n) /\ f.run \in Runs /\ f.n \in 1..MaxEvents
                     /\ extra' = [run |-> tail.run,
                                  events |-> Merge(Increments, [s \in {f.n} |-> f.run])]
                     /\ heard' = heard
                  \/ f.kind = "job_update" /\ f = JobUpdate(f.n) /\ f.n \in 1..changes
                     /\ heard' = f.n /\ extra' = extra
<1> USE DEF TypeInv
<1>1. /\ UNCHANGED <<written, changes, stream, source, fetch, tail, fetches, drops>>
      /\ wire # <<>> /\ wire' = Tail(wire) /\ wire \in Seq(Frames)
  BY DEF Deliver, server, TypeOK
<1>2. /\ Head(wire) = wire[1] /\ wire[1] \in Frames /\ 1 \in 1..Len(wire)
      /\ wire' \in Seq(Frames) /\ Len(wire) = Len(wire') + 1 /\ Len(wire') \in Nat
      /\ \A i \in 1..Len(wire') : wire'[i] = wire[i + 1]
  BY <1>1, HeadTailProperties
<1>3. CASE wire[1].kind = "event"
  <2>1. /\ wire[1].run = tail.run /\ wire[1] = Event(tail.run, wire[1].n)
        /\ wire[1].run \in Runs /\ wire[1].n \in 1..MaxEvents
    BY <1>2, <1>3, FrameCases DEF Followed
  <2>2. CASE ~Listened(wire[1])
    BY <1>1, <1>2, <1>3, <2>1, <2>2 DEF Deliver, Listened
  <2>3. CASE Listened(wire[1])
    BY <1>1, <1>2, <1>3, <2>1, <2>3 DEF Deliver
  <2> QED
    BY <2>2, <2>3
<1>4. CASE wire[1].kind = "job_update"
  BY <1>1, <1>2, <1>4, FrameCases DEF Deliver, Listened
<1> QED
  BY <1>1, <1>2, <1>3, <1>4, FrameCases

LEMMA DeliverType == ASSUME TypeInv, Deliver PROVE TypeInv'
<1> USE DEF TypeInv
<1>1. /\ UNCHANGED <<written, changes, stream, source, fetch, tail, fetches, drops>>
      /\ wire # <<>> /\ wire' \in Seq(Frames) /\ Len(wire) = Len(wire') + 1 /\ Len(wire') \in Nat
      /\ \A i \in 1..Len(wire') : wire'[i] = wire[i + 1]
  BY DeliverResult
<1>2. extra' \in [run : 0..MaxRuns, events : EventMaps] /\ heard' \in 0..MaxChanges
  <2>1. /\ extra \in [run : 0..MaxRuns, events : EventMaps] /\ tail.run \in 0..MaxRuns
        /\ heard \in 0..MaxChanges /\ 1..changes \subseteq 0..MaxChanges
    BY ConstantsAssumption DEF ConstantsAssumption, TypeOK, Tails
  <2>2. Increments \in EventMaps
    BY <2>1, NoEventsType DEF Increments
  <2>3. ASSUME wire[1].run \in Runs, wire[1].n \in 1..MaxEvents
        PROVE  Merge(Increments, [s \in {wire[1].n} |-> wire[1].run]) \in EventMaps
    <3>1. [s \in {wire[1].n} |-> wire[1].run] \in EventMaps
      BY <2>3, ConstantMap
    <3> QED
      BY <2>2, <3>1, MergeType
  <2> QED
    BY <2>1, <2>3, DeliverResult
<1>3. TypeOK'
  BY <1>1, <1>2, Same DEF TypeOK
<1>4. \A i \in 1..Len(wire') : wire'[i].kind = "event" => wire'[i].run = tail.run
  <2>1. \A i \in 1..Len(wire') : i + 1 \in 1..Len(wire)
    BY <1>1
  <2> QED
    BY <1>1, <2>1 DEF Followed
<1>5. Followed'
  BY <1>1, <1>4, Same DEF Followed
<1> QED
  BY <1>3, <1>5

LEMMA StartFetchType == ASSUME TypeInv, StartFetch PROVE TypeInv'
<1> USE DEF TypeInv
<1>1. /\ UNCHANGED <<written, changes, stream, wire, source, tail, extra, heard, drops>>
      /\ fetches < MaxFetches /\ fetches' = fetches + 1 /\ Latest > 0
      /\ fetch' = [on |-> TRUE, done |-> FALSE, page |-> 0, run |-> 0, next |-> 0,
                   events |-> NoEvents, mixed |-> FALSE]
  BY DEF StartFetch, NoFetch, server, app
<1>2. fetch' \in Fetches /\ fetches' \in 0..MaxFetches
  BY <1>1, NoEventsType, ConstantsAssumption DEF ConstantsAssumption, TypeOK, Fetches
<1>3. TypeOK'
  BY <1>1, <1>2, Same DEF TypeOK
<1>4. Latest \in Nat
  BY DEF TypeOK, Latest
<1>5. Followed'
  BY <1>1, <1>4, Same, ConstantsAssumption DEF ConstantsAssumption, Followed
<1> QED
  BY <1>3, <1>5

\* What a page adds to the fetch.
LEMMA FetchPageResult ==
    ASSUME TypeInv, FetchPage
    PROVE  \E seqs \in SUBSET (1..MaxEvents), next \in 0..MaxEvents :
              /\ UNCHANGED <<written, changes, stream, wire, source, tail, extra, heard, fetches, drops>>
              /\ fetch.on /\ ~fetch.done /\ Latest \in Runs /\ Latest \in 1..MaxRuns
              /\ 1..fetch.next \cup seqs = 1..next
              /\ fetch' \in Fetches
              /\ fetch'.on = TRUE /\ fetch'.run = Latest /\ fetch'.next = next
              /\ fetch'.page = fetch.page + 1
              /\ ~fetch'.done => fetch'.page < MaxPages
              /\ fetch'.events = Merge(fetch.events, [s \in seqs |-> Latest])
              /\ fetch'.mixed = (fetch.mixed \/ fetch.run \notin {0, Latest})
<1> USE DEF TypeInv
<1> USE ConstantsAssumption DEF ConstantsAssumption
<1> DEFINE after == fetch.next
           seqs == {s \in after + 1 .. after + Limit : s <= written[Latest]}
           next == NextAfter(after, seqs)
           more == written[Latest] > after + Limit
<1>1. /\ UNCHANGED <<written, changes, stream, wire, source, tail, extra, heard, fetches, drops>>
      /\ fetch.on /\ ~fetch.done
      /\ fetch' = [fetch EXCEPT !.page = @ + 1, !.run = Latest, !.next = next,
                       !.events = Merge(@, [s \in seqs |-> Latest]),
                       !.done = ~more \/ fetch.page + 1 = MaxPages,
                       !.mixed = @ \/ fetch.run \notin {0, Latest}]
  BY DEF FetchPage, server, app
<1>2. fetch \in Fetches /\ after \in 0..MaxEvents
  BY DEF TypeOK, Fetches
<1>3. Latest \in Runs /\ Latest \in 1..MaxRuns /\ written[Latest] \in 0..MaxEvents
  <2>1. Latest \in 1..Len(written) /\ Len(written) <= MaxRuns
    BY <1>1 DEF TypeOK, Followed, Latest
  <2> QED
    BY <2>1 DEF TypeOK, Latest, Runs
<1>4. /\ next \in Nat /\ (next = after \/ next <= written[Latest])
      /\ 1..after \cup seqs = 1..next /\ seqs \subseteq 1..written[Latest]
  BY <1>2, <1>3, PageIsInterval
<1> HIDE DEF after, seqs, next, more
<1>5. next \in 0..MaxEvents /\ seqs \in SUBSET (1..MaxEvents)
  <2>1. 1..written[Latest] \subseteq 1..MaxEvents
    BY <1>3
  <2>2. next \in 0..MaxEvents
    BY ONLY ConstantsAssumption, <1>2, <1>3, <1>4 DEF ConstantsAssumption
  <2> QED
    BY <1>4, <2>1, <2>2
<1>6. fetch'.done = (~more \/ fetch.page + 1 = MaxPages) /\ fetch'.page = fetch.page + 1
      /\ fetch'.on = TRUE /\ fetch'.run = Latest /\ fetch'.next = next
      /\ fetch'.events = Merge(fetch.events, [s \in seqs |-> Latest])
      /\ fetch'.mixed = (fetch.mixed \/ fetch.run \notin {0, Latest})
  BY <1>1, <1>2 DEF Fetches
<1>7. fetch.page + 1 \in 0..MaxPages /\ (fetch.page + 1 # MaxPages => fetch.page + 1 < MaxPages)
  BY <1>1, <1>2 DEF Followed, Fetches
<1>8. Merge(fetch.events, [s \in seqs |-> Latest]) \in EventMaps
  BY <1>2, <1>3, <1>5, ConstantMap, MergeType DEF Fetches
<1>9. fetch' \in Fetches
  <2>1. fetch' = [on |-> fetch.on, done |-> fetch'.done, page |-> fetch.page + 1, run |-> Latest,
                  next |-> next, events |-> Merge(fetch.events, [s \in seqs |-> Latest]),
                  mixed |-> fetch'.mixed]
    BY <1>1, <1>2 DEF Fetches
  <2>2. fetch.on \in BOOLEAN /\ fetch'.done \in BOOLEAN /\ fetch'.mixed \in BOOLEAN
    BY <1>2, <1>6 DEF Fetches
  <2> QED
    BY <1>3, <1>5, <1>7, <1>8, <2>1, <2>2 DEF Fetches
<1>10. 1..fetch.next \cup seqs = 1..next
  BY <1>4 DEF after
<1> QED
  BY <1>1, <1>3, <1>5, <1>6, <1>7, <1>9, <1>10

LEMMA FetchPageType == ASSUME TypeInv, FetchPage PROVE TypeInv'
<1> USE DEF TypeInv
<1>1. /\ UNCHANGED <<written, changes, stream, wire, source, tail, extra, heard, fetches, drops>>
      /\ fetch' \in Fetches /\ fetch'.run = Latest /\ Latest \in 1..MaxRuns
      /\ ~fetch'.done => fetch'.page < MaxPages
  BY FetchPageResult
<1>2. TypeOK'
  BY <1>1, Same DEF TypeOK
<1>3. Followed'
  BY <1>1, Same DEF Followed
<1> QED
  BY <1>2, <1>3

\* What a finished fetch does: the same run and position leave the stream alone.
LEMMA FetchDoneResult ==
    ASSUME TypeInv, FetchDone
    PROVE  /\ UNCHANGED <<written, changes, extra, heard, fetches, drops>>
           /\ fetch.done /\ fetch' = NoFetch
           /\ tail'.run = fetch.run /\ tail'.next = fetch.next /\ tail'.events = fetch.events
           /\ tail'.mixed = (tail.mixed \/ fetch.mixed)
           /\ tail' \in Tails /\ tail'.run # 0 /\ tail'.run <= Latest
           /\ \/ /\ tail'.run = tail.run /\ tail'.next = tail.next
                 /\ UNCHANGED <<source, stream, wire>>
              \/ /\ source' = [state |-> "connecting", run |-> fetch.run, after |-> fetch.next]
                 /\ stream' = NoStream /\ wire' = <<>>
<1> USE DEF TypeInv
<1>1. fetch \in Fetches /\ tail \in Tails
  BY DEF TypeOK
<1>2. tail' = [run |-> fetch.run, next |-> fetch.next, events |-> fetch.events,
               mixed |-> tail.mixed \/ fetch.mixed]
  BY DEF FetchDone
<1>3. tail' \in Tails /\ tail'.mixed = (tail.mixed \/ fetch.mixed)
  BY <1>1, <1>2 DEF Fetches, Tails
<1>4. fetch.run # 0 /\ fetch.run <= Latest
  BY DEF FetchDone, Followed
<1> QED
  BY <1>2, <1>3, <1>4 DEF FetchDone, server

LEMMA FetchDoneType == ASSUME TypeInv, FetchDone PROVE TypeInv'
<1> USE DEF TypeInv
<1> USE FetchDoneResult
<1>1. fetch' = [on |-> FALSE, done |-> FALSE, page |-> 0, run |-> 0, next |-> 0,
                events |-> NoEvents, mixed |-> FALSE]
  BY DEF NoFetch
<1>2. fetch' \in Fetches
  BY <1>1, NoEventsType, ConstantsAssumption DEF ConstantsAssumption, Fetches
<1>3. Latest \in Nat /\ fetch \in Fetches
  BY DEF TypeOK, Latest
<1>4. CASE UNCHANGED <<source, stream, wire>> /\ tail'.run = tail.run /\ tail'.next = tail.next
  <2>1. TypeOK'
    BY <1>2, <1>4, Same DEF TypeOK
  <2>2. Followed'
    BY <1>1, <1>3, <1>4, Same DEF Followed
  <2> QED
    BY <2>1, <2>2
<1>5. CASE /\ source' = [state |-> "connecting", run |-> fetch.run, after |-> fetch.next]
           /\ stream' = NoStream /\ wire' = <<>>
  <2>1. source' \in Sources
    BY <1>3, <1>5 DEF Fetches, Sources
  <2>2. stream' \in Streams /\ ~stream'.on /\ stream'.inbox = <<>>
    BY <1>5, ConstantsAssumption DEF ConstantsAssumption, NoStream, Streams
  <2>3. TypeOK'
    BY <1>2, <1>5, <2>1, <2>2, Same, ConstantsAssumption, SMTT(30) DEF ConstantsAssumption, TypeOK
  <2>4. Followed'
    BY <1>1, <1>3, <1>5, <2>2, Same DEF Followed
  <2> QED
    BY <2>3, <2>4
<1> QED
  BY <1>4, <1>5

LEMMA TypeNext == TypeInv /\ [Next]_vars => TypeInv'
<1> SUFFICES ASSUME TypeInv, [Next]_vars PROVE TypeInv'
  OBVIOUS
<1>1. CASE UNCHANGED vars
  BY <1>1, Same DEF vars, server, app, TypeInv, TypeOK, Followed
<1> QED
  BY <1>1, WriteType, PublishType, ConnectType, ReadType, SendType, DropType, RefuseType, DeliverType,
     StartFetchType, FetchPageType, FetchDoneType DEF Next

\* Every variable has its type, and no inbox exceeds its limit, whatever the bounds.
THEOREM TypeCorrect == Spec => []TypeOK
<1>1. TypeInv => TypeOK
  BY DEF TypeInv
<1> QED
  BY <1>1, TypeInit, TypeNext, PTL DEF Spec

-----------------------------------------------------------------------------
(* One run *)

\* Unless its pages were mixed, a tail (and one that is being fetched) holds the events
\* up to its position, of the run it names; increments are of the run they are kept for.
SameRun ==
    /\ fetch.run = 0 => fetch.next = 0
    /\ ~fetch.mixed => /\ DOMAIN fetch.events = 1..fetch.next
                       /\ \A s \in DOMAIN fetch.events : fetch.events[s] = fetch.run
    /\ ~tail.mixed => /\ DOMAIN tail.events = 1..tail.next
                      /\ \A s \in DOMAIN tail.events : tail.events[s] = tail.run
    /\ \A s \in DOMAIN extra.events : extra.events[s] = extra.run

RunInv == TypeInv /\ SameRun

LEMMA MergeResult ==
    ASSUME NEW f, NEW g
    PROVE  /\ DOMAIN Merge(f, g) = DOMAIN f \cup DOMAIN g
           /\ \A s \in DOMAIN g : Merge(f, g)[s] = g[s]
           /\ \A s \in DOMAIN f \ DOMAIN g : Merge(f, g)[s] = f[s]
BY DEF Merge

LEMMA MergeOfRun ==
    ASSUME NEW f, NEW g, NEW r,
           \A s \in DOMAIN f : f[s] = r, \A s \in DOMAIN g : g[s] = r
    PROVE  \A s \in DOMAIN Merge(f, g) : Merge(f, g)[s] = r
BY DEF Merge

LEMMA RunInit == Init => SameRun
BY NoEventsType DEF Init, SameRun, NoFetch, NoTail

LEMMA RunNext == RunInv /\ [Next]_vars => SameRun'
<1> SUFFICES ASSUME RunInv, [Next]_vars PROVE SameRun'
  OBVIOUS
<1> USE DEF RunInv
<1>1. CASE UNCHANGED <<fetch, tail, extra>>
  BY <1>1 DEF SameRun
<1>2. CASE StartFetch
  <2>1. /\ UNCHANGED <<tail, extra>> /\ fetch'.run = 0 /\ fetch'.next = 0 /\ fetch'.events = NoEvents
    BY <1>2 DEF StartFetch, NoFetch, app
  <2> QED
    BY <2>1, NoEventsType DEF SameRun
<1>3. CASE FetchPage
  <2>1. PICK seqs \in SUBSET (1..MaxEvents), next \in 0..MaxEvents :
              /\ UNCHANGED <<tail, extra>> /\ Latest \in Runs
              /\ 1..fetch.next \cup seqs = 1..next
              /\ fetch'.run = Latest /\ fetch'.next = next
              /\ fetch'.events = Merge(fetch.events, [s \in seqs |-> Latest])
              /\ fetch'.mixed = (fetch.mixed \/ fetch.run \notin {0, Latest})
    BY <1>3, FetchPageResult DEF TypeInv
  <2>2. fetch'.run # 0
    BY <2>1 DEF Runs, TypeInv, TypeOK
  <2>3. ASSUME ~fetch'.mixed
        PROVE  /\ DOMAIN fetch'.events = 1..fetch'.next
               /\ \A s \in DOMAIN fetch'.events : fetch'.events[s] = fetch'.run
    <3>1. ~fetch.mixed /\ (fetch.run = 0 \/ fetch.run = Latest)
      BY <2>1, <2>3
    <3>2. DOMAIN fetch.events = 1..fetch.next /\ \A s \in DOMAIN fetch.events : fetch.events[s] = Latest
      BY <3>1 DEF SameRun
    <3> DEFINE page == [s \in seqs |-> Latest]
    <3>3. DOMAIN page = seqs /\ \A s \in DOMAIN page : page[s] = Latest
      OBVIOUS
    <3>4. fetch'.events = Merge(fetch.events, page)
      BY <2>1
    <3> HIDE DEF page
    <3>5. DOMAIN fetch'.events = 1..fetch'.next
      <4>1. DOMAIN Merge(fetch.events, page) = DOMAIN fetch.events \cup DOMAIN page
        BY MergeResult
      <4>2. DOMAIN fetch.events \cup DOMAIN page = 1..fetch'.next
        BY <2>1, <3>2, <3>3
      <4> QED
        BY ONLY <3>4, <4>1, <4>2
    <3>6. \A s \in DOMAIN fetch'.events : fetch'.events[s] = Latest
      <4>1. \A s \in DOMAIN Merge(fetch.events, page) : Merge(fetch.events, page)[s] = Latest
        BY ONLY <3>2, <3>3, MergeOfRun
      <4> QED
        BY ONLY <3>4, <4>1
    <3> QED
      BY <2>1, <3>5, <3>6
  <2> QED
    BY <2>1, <2>2, <2>3 DEF SameRun
<1>4. CASE FetchDone
  <2>1. /\ UNCHANGED extra /\ fetch' = NoFetch
        /\ tail'.run = fetch.run /\ tail'.next = fetch.next /\ tail'.events = fetch.events
        /\ tail'.mixed = (tail.mixed \/ fetch.mixed)
    BY <1>4, FetchDoneResult DEF TypeInv
  <2>2. fetch'.run = 0 /\ fetch'.next = 0 /\ fetch'.events = NoEvents
    BY <2>1 DEF NoFetch
  <2>3. ASSUME ~tail'.mixed
        PROVE  /\ DOMAIN tail'.events = 1..tail'.next
               /\ \A s \in DOMAIN tail'.events : tail'.events[s] = tail'.run
    <3>1. ~fetch.mixed
      BY <2>1, <2>3
    <3> QED
      BY <2>1, <3>1 DEF SameRun
  <2>4. DOMAIN fetch'.events = 1..fetch'.next
        /\ \A s \in DOMAIN fetch'.events : fetch'.events[s] = fetch'.run
    BY <2>2, NoEventsType
  <2> QED
    BY <2>1, <2>2, <2>3, <2>4 DEF SameRun
<1>5. CASE Deliver
  <2>1. UNCHANGED <<fetch, tail>>
    BY <1>5 DEF Deliver
  <2>2. CASE extra' = extra
    BY <2>1, <2>2 DEF SameRun
  <2>3. CASE /\ wire[1].run = tail.run
             /\ extra' = [run |-> tail.run,
                          events |-> Merge(Increments, [s \in {wire[1].n} |-> wire[1].run])]
    <3>1. \A s \in DOMAIN Increments : Increments[s] = tail.run
      BY NoEventsType DEF Increments, SameRun
    <3>2. \A s \in DOMAIN extra'.events : extra'.events[s] = tail.run
      <4> DEFINE frame == [s \in {wire[1].n} |-> wire[1].run]
      <4>1. \A s \in DOMAIN frame : frame[s] = tail.run
        BY <2>3
      <4>2. extra'.events = Merge(Increments, frame)
        BY <2>3
      <4> HIDE DEF frame
      <4> QED
        BY ONLY <3>1, <4>1, <4>2, MergeOfRun, ZenonT(60)
    <3>3. extra'.run = tail.run
      BY <2>3
    <3> QED
      BY <2>1, <3>2, <3>3 DEF SameRun
  <2> QED
    BY <1>5, <2>2, <2>3, DeliverResult DEF TypeInv
<1> QED
  BY <1>1, <1>2, <1>3, <1>4, <1>5 DEF Next, vars, app, NewRun, RecordEvent, Publish, Connect, Refuse, Read, Send, Drop

LEMMA RunAlways == Spec => []RunInv
<1>1. Init => RunInv
  BY TypeInit, RunInit DEF RunInv
<1>2. RunInv /\ [Next]_vars => RunInv'
  BY TypeNext, RunNext DEF RunInv
<1> QED
  BY <1>1, <1>2, PTL DEF Spec

\* The panel shows events of the run it names only, unless the tail was put together of two.
THEOREM OneRunShown == Spec => []WindowOfRun
<1>1. RunInv => WindowOfRun
  <2> SUFFICES ASSUME RunInv, ~tail.mixed PROVE \A s \in DOMAIN Window : Window[s] = tail.run
    BY DEF WindowOfRun
  <2>1. \A s \in DOMAIN tail.events : tail.events[s] = tail.run
    BY DEF RunInv, SameRun
  <2>2. CASE extra.run = tail.run
    <3>1. \A s \in DOMAIN extra.events : extra.events[s] = tail.run
      BY <2>2 DEF RunInv, SameRun
    <3> QED
      BY <2>1, <2>2, <3>1, MergeOfRun DEF Window
  <2>3. CASE extra.run # tail.run
    BY <2>1, <2>3 DEF Window
  <2> QED
    BY <2>2, <2>3
<1> QED
  BY <1>1, RunAlways, PTL

-----------------------------------------------------------------------------
(* Nothing is skipped *)

LEMMA WindowDomain ==
    DOMAIN Window = DOMAIN tail.events \cup (IF extra.run = tail.run THEN DOMAIN extra.events ELSE {})
BY MergeResult DEF Window

\* Where the stream has sent nothing yet, the tail itself reaches up to its cursor.
LEMMA Settled == RunInv /\ Position = tail.next => NothingSkipped
<1> SUFFICES ASSUME RunInv, Position = tail.next, ~tail.mixed, NEW s \in 1..Position
             PROVE  s \in DOMAIN Window
  BY DEF NothingSkipped
<1>1. s \in DOMAIN tail.events
  BY DEF RunInv, SameRun
<1> QED
  BY <1>1, WindowDomain

LEMMA SkipNext == RunInv /\ RunInv' /\ NothingSkipped /\ [Next]_vars => NothingSkipped'
<1> SUFFICES ASSUME RunInv, RunInv', NothingSkipped, [Next]_vars PROVE NothingSkipped'
  OBVIOUS
<1> USE DEF RunInv
<1>1. Position' = tail'.next => NothingSkipped'
  <2>1. (RunInv /\ Position = tail.next => NothingSkipped)'
    BY Settled, PTL
  <2> QED
    BY <2>1
<1>2. CASE UNCHANGED <<stream, tail, extra, wire>>
  BY <1>2 DEF NothingSkipped, Position, Window, OnWire
<1>3. CASE Publish
  <2>1. UNCHANGED <<tail, extra, wire>> /\ stream'.on = stream.on /\ stream'.cursor = stream.cursor
    BY <1>3 DEF Publish, app, TypeInv, TypeOK, Streams
  <2> QED
    BY <2>1 DEF NothingSkipped, Position, Window, OnWire
<1>4. CASE Read
  <2>1. UNCHANGED <<tail, extra, wire>> /\ stream'.on = stream.on /\ stream'.cursor = stream.cursor
    BY <1>4 DEF Read, app, TypeInv, TypeOK, Streams
  <2> QED
    BY <2>1 DEF NothingSkipped, Position, Window, OnWire
<1>5. CASE Connect
  <2>1. stream'.on /\ stream'.cursor = source.after /\ source.after = tail.next /\ tail' = tail
    BY <1>5 DEF Connect, StartCursor, NoStream, app, TypeInv, Followed
  <2> QED
    BY <1>1, <2>1 DEF Position
<1>6. CASE Drop
  BY <1>1, <1>6 DEF Drop, NoStream, Position
<1>10. CASE Refuse
  BY <1>2, <1>10 DEF Refuse, app
<1>7. CASE Send
  <2>1. /\ UNCHANGED <<tail, extra>> /\ stream.on /\ stream'.on /\ stream.run = tail.run
        /\ stream'.cursor = stream.cursor + Fresh
        /\ stream.cursor \in Nat /\ Fresh \in Nat
        /\ Len(wire) \in Nat /\ Len(stream.inbox) \in Nat
        /\ Len(wire') = Len(wire) + Fresh + Len(stream.inbox)
        /\ \A i \in 1..Len(wire) : wire'[i] = wire[i]
        /\ \A i \in 1..Fresh : wire'[Len(wire) + i] = Event(tail.run, stream.cursor + i)
    <3>1. stream.on /\ stream.run = tail.run
      BY <1>7 DEF Send, TypeInv, Followed
    <3>2. stream.cursor \in Nat /\ stream.inbox \in Seq(1..MaxChanges) /\ wire \in Seq(Frames)
      BY DEF TypeInv, TypeOK, Streams
    <3>3. stream'.cursor = stream.cursor + Fresh /\ stream'.on = stream.on
      BY <1>7, SendResult DEF TypeInv, TypeOK, Streams
    <3> QED
      BY <1>7, <3>1, <3>2, <3>3, SendResult
  <2> SUFFICES ASSUME tail.run # 0, ~tail.mixed, NEW s \in 1..Position'
               PROVE  \/ s \in DOMAIN Window' \/ OnWire(Event(tail.run, s))'
                      \/ s \in Unheard /\ s > tail.next
    BY <2>1 DEF NothingSkipped
  <2>2. Window' = Window
    BY <2>1 DEF Window
  <2>3. Position = stream.cursor /\ Position' = stream.cursor + Fresh
    BY <2>1 DEF Position
  <2>4. /\ \A i \in 1..Len(wire) : i \in 1..Len(wire')
        /\ \A i \in 1..Fresh : Len(wire) + i \in 1..Len(wire')
    <3> DEFINE a == Len(wire)
               b == Fresh
               c == Len(stream.inbox)
               d == Len(wire')
    <3>1. a \in Nat /\ b \in Nat /\ c \in Nat /\ d = a + b + c
      BY <2>1
    <3> HIDE DEF a, b, c, d
    <3>2. (\A i \in 1..a : i \in 1..d) /\ (\A i \in 1..b : a + i \in 1..d)
      BY ONLY <3>1
    <3> QED
      BY ONLY <3>2 DEF a, b, d
  <2>5. CASE s <= stream.cursor
    <3>1. s \in 1..Position
      BY <2>1, <2>3, <2>5
    <3>2. CASE OnWire(Event(tail.run, s))
      <4>1. PICK i \in 1..Len(wire) : wire[i] = Event(tail.run, s)
        BY <3>2 DEF OnWire
      <4>2. i \in 1..Len(wire') /\ wire'[i] = Event(tail.run, s)
        BY <2>1, <2>4, <4>1
      <4> QED
        BY <2>1, <4>2 DEF OnWire, Event
    <3> QED
      BY <2>2, <3>1, <3>2 DEF NothingSkipped
  <2>6. CASE s > stream.cursor
    <3> DEFINE k == s - stream.cursor
    <3>1. k \in 1..Fresh /\ stream.cursor + k = s
      BY <2>1, <2>3, <2>6
    <3> HIDE DEF k
    <3>2. Len(wire) + k \in 1..Len(wire')
      BY <2>4, <3>1
    <3>3. wire'[Len(wire) + k] = Event(tail.run, s)
      BY <2>1, <3>1
    <3> QED
      BY <2>1, <3>2, <3>3 DEF OnWire, Event
  <2> QED
    BY <2>1, <2>3, <2>5, <2>6
<1>8. CASE Deliver
  <2> DEFINE f == wire[1]
  <2>1. /\ UNCHANGED <<stream, tail>>
        /\ Len(wire) = Len(wire') + 1 /\ Len(wire') \in Nat
        /\ \A i \in 1..Len(wire') : wire'[i] = wire[i + 1]
        /\ \/ /\ f = Event(tail.run, f.n)
              /\ extra'.run = tail.run
              /\ extra'.events = Merge(Increments, [s \in {f.n} |-> f.run])
           \/ f = JobUpdate(f.n) /\ extra' = extra
           \/ f = Event(tail.run, f.n) /\ f.n \in Unheard /\ extra' = extra
    BY <1>8, DeliverResult
  <2> HIDE DEF f
  <2> SUFFICES ASSUME tail.run # 0, ~tail.mixed, NEW s \in 1..Position
               PROVE  \/ s \in DOMAIN Window' \/ OnWire(Event(tail.run, s))'
                      \/ s \in Unheard /\ s > tail.next
    BY <2>1 DEF NothingSkipped, Position
  <2>2. (DOMAIN Window)' = DOMAIN tail.events
                           \cup (IF extra'.run = tail.run THEN DOMAIN extra'.events ELSE {})
    <3>1. (DOMAIN Window = DOMAIN tail.events
               \cup (IF extra.run = tail.run THEN DOMAIN extra.events ELSE {}))'
      BY WindowDomain, PTL
    <3> QED
      BY <2>1, <3>1
  <2>a. s > tail.next \/ s \in DOMAIN Window
    <3>1. DOMAIN tail.events = 1..tail.next /\ s \in Nat /\ s >= 1 /\ tail.next \in Nat
      BY DEF SameRun, TypeInv, TypeOK, Tails, Position
    <3> QED
      BY <3>1, WindowDomain
  <2>3. DOMAIN Window \subseteq (DOMAIN Window)'
        /\ (f = Event(tail.run, s) => \/ s \in (DOMAIN Window)'
                                      \/ s \in Unheard /\ s > tail.next)
    <3>1. CASE extra' = extra /\ f = JobUpdate(f.n)
      BY <2>2, <3>1, WindowDomain DEF JobUpdate, Event
    <3>3. CASE extra' = extra /\ f = Event(tail.run, f.n) /\ f.n \in Unheard
      <4>1. DOMAIN Window \subseteq (DOMAIN Window)'
        BY <2>2, <3>3, WindowDomain
      <4>2. f = Event(tail.run, s) => s \in Unheard
        BY <3>3 DEF Event
      <4> QED
        BY <2>a, <4>1, <4>2
    <3>2. CASE /\ extra'.run = tail.run
               /\ extra'.events = Merge(Increments, [t \in {f.n} |-> f.run])
      <4>1. DOMAIN extra'.events = DOMAIN Increments \cup {f.n}
        <5> DEFINE frame == [t \in {f.n} |-> f.run]
        <5>1. DOMAIN frame = {f.n} /\ extra'.events = Merge(Increments, frame)
          BY <3>2
        <5> HIDE DEF frame
        <5> QED
          BY ONLY <5>1, MergeResult, ZenonT(60)
      <4>2. DOMAIN Increments = IF extra.run = tail.run THEN DOMAIN extra.events ELSE {}
        BY NoEventsType DEF Increments
      <4>3. f = Event(tail.run, s) => f.n = s
        BY DEF Event
      <4> QED
        BY <2>2, <3>2, <4>1, <4>2, <4>3, WindowDomain
    <3> QED
      BY <2>1, <3>1, <3>2, <3>3
  <2>4. CASE OnWire(Event(tail.run, s))
    <3>1. PICK i \in 1..Len(wire) : wire[i] = Event(tail.run, s)
      BY <2>4 DEF OnWire
    <3>2. CASE i = 1
      BY <2>3, <3>1, <3>2 DEF f
    <3>3. CASE i # 1
      <4>1. i - 1 \in 1..Len(wire') /\ (i - 1) + 1 = i
        BY <2>1, <3>3
      <4>2. wire'[i - 1] = Event(tail.run, s)
        BY <2>1, <3>1, <4>1
      <4> QED
        BY <2>1, <4>1, <4>2 DEF OnWire, Event
    <3> QED
      BY <3>2, <3>3
  <2> QED
    BY <2>3, <2>4 DEF NothingSkipped
<1>9. CASE FetchDone
  <2>1. CASE stream' = NoStream
    BY <1>1, <2>1 DEF NoStream, Position
  <2>2. CASE /\ tail'.run = tail.run /\ tail'.next = tail.next
             /\ UNCHANGED <<source, stream, wire>>
    <3>1. extra' = extra /\ tail'.mixed = (tail.mixed \/ fetch.mixed)
      BY <1>9, FetchDoneResult
    <3> SUFFICES ASSUME tail'.run # 0, ~tail'.mixed, NEW s \in 1..Position
                 PROVE  \/ s \in (DOMAIN Window)' \/ OnWire(Event(tail.run, s))
                        \/ s \in Unheard /\ s > tail.next
      BY <2>2 DEF NothingSkipped, Position, OnWire, Event
    <3>2. ~tail.mixed /\ DOMAIN tail.events = 1..tail.next /\ DOMAIN tail'.events = 1..tail.next
      BY <2>2, <3>1 DEF SameRun
    <3>3. (DOMAIN Window = DOMAIN tail.events
               \cup (IF extra.run = tail.run THEN DOMAIN extra.events ELSE {}))'
      BY WindowDomain, PTL
    <3>4. (DOMAIN Window)' = DOMAIN Window
      BY <2>2, <3>1, <3>2, <3>3, WindowDomain
    <3> QED
      BY <2>2, <3>2, <3>4 DEF NothingSkipped
  <2> QED
    BY <1>9, <2>1, <2>2, FetchDoneResult
<1> QED
  BY <1>2, <1>3, <1>4, <1>5, <1>6, <1>7, <1>8, <1>9, <1>10
     DEF Next, vars, server, app, NewRun, RecordEvent, StartFetch, FetchPage

\* Every event up to the cursor of the server that has a listener is shown or on its way,
\* over refetches, new runs and lost connections; one that has none may be missing behind
\* the pages only.
THEOREM NoGap == Spec => []NothingSkipped
<1>1. Init => RunInv /\ NothingSkipped
  BY TypeInit, RunInit DEF RunInv, NothingSkipped, Init, NoTail
<1>2. RunInv /\ NothingSkipped /\ [Next]_vars => (RunInv /\ NothingSkipped)'
  BY TypeNext, RunNext, SkipNext DEF RunInv
<1> QED
  BY <1>1, <1>2, PTL DEF Spec

-----------------------------------------------------------------------------
(* The last change *)

Jobs == {i \in 1..Len(wire) : wire[i].kind = "job_update"}

\* The last change since the subscription is the newest of the inbox, or, if that is
\* empty, the last change on the wire, or, if there is none, the one that was heard. An
\* older one behind it would take its place in the app.
LastInLine ==
    stream.on =>
        /\ stream.since <= changes
        /\ changes = stream.since => stream.inbox = <<>> /\ Jobs = {}
        /\ changes > stream.since =>
              \/ stream.inbox # <<>> /\ stream.inbox[Len(stream.inbox)] = changes
              \/ /\ stream.inbox = <<>>
                 /\ \E i \in Jobs : wire[i] = JobUpdate(changes) /\ \A k \in Jobs : k <= i
              \/ stream.inbox = <<>> /\ Jobs = {} /\ heard = changes

LEMMA LastNext == TypeInv /\ TypeInv' /\ LastInLine /\ [Next]_vars => LastInLine'
<1> SUFFICES ASSUME TypeInv, TypeInv', LastInLine, [Next]_vars, stream'.on PROVE LastInLine'
  BY DEF LastInLine
<1>0. /\ changes \in Nat /\ stream \in Streams /\ stream.since \in Nat
      /\ wire \in Seq(Frames) /\ Len(wire) \in Nat /\ Len(stream.inbox) \in Nat
      /\ stream.inbox \in Seq(1..MaxChanges)
  <2>1. changes \in Nat /\ stream \in Streams /\ wire \in Seq(Frames)
    BY ConstantsAssumption DEF ConstantsAssumption, TypeInv, TypeOK
  <2>2. stream.since \in Nat /\ stream.inbox \in Seq(1..MaxChanges)
    BY <2>1, ConstantsAssumption DEF ConstantsAssumption, Streams
  <2> QED
    BY <2>1, <2>2
<1>1. CASE UNCHANGED <<changes, stream, wire, heard>>
  BY <1>1 DEF LastInLine, Jobs
<1>2. CASE Publish
  <2>1. /\ changes' = changes + 1 /\ UNCHANGED <<wire, heard>>
        /\ stream.on /\ stream' = [stream EXCEPT !.inbox = Put(@, changes + 1)]
    BY <1>2 DEF Publish, app
  <2>2. stream'.inbox = Put(stream.inbox, changes + 1) /\ stream'.since = stream.since
    BY <1>0, <2>1 DEF Streams
  <2>3. changes + 1 \in 1..MaxChanges /\ Len(stream.inbox) <= Buffer
    BY <2>1 DEF TypeInv, TypeOK
  <2>4. stream'.inbox # <<>> /\ stream'.inbox[Len(stream'.inbox)] = changes'
    <3> DEFINE inbox == Put(stream.inbox, changes + 1)
    <3>1. inbox # <<>> /\ inbox[Len(inbox)] = changes + 1
      BY <1>0, <2>3, PutResult, ZenonT(60)
    <3> HIDE DEF inbox
    <3>2. stream'.inbox = inbox
      BY <2>2 DEF inbox
    <3> QED
      BY <2>1, <3>1, <3>2
  <2>5. stream.since <= changes
    BY <2>1 DEF LastInLine
  <2> QED
    BY <1>0, <2>1, <2>2, <2>4, <2>5 DEF LastInLine
<1>3. CASE Connect
  <2>1. /\ UNCHANGED <<changes, wire>> /\ stream'.inbox = <<>> /\ stream'.since = changes
        /\ wire = <<>>
    BY <1>3 DEF Connect, NoStream, server, TypeInv, Followed
  <2>2. Jobs' = {}
    BY <2>1 DEF Jobs
  <2> QED
    BY <1>0, <2>1, <2>2 DEF LastInLine
<1>4. CASE Read
  <2>1. /\ UNCHANGED <<changes, wire, heard>> /\ stream'.on = stream.on
        /\ stream'.inbox = stream.inbox /\ stream'.since = stream.since
    BY <1>0, <1>4 DEF Read, server, app, Streams
  <2> QED
    BY <2>1 DEF LastInLine, Jobs
<1>5. CASE Send
  <2>1. /\ UNCHANGED <<changes, heard>> /\ stream.on
        /\ stream'.inbox = <<>> /\ stream'.since = stream.since
        /\ Fresh \in Nat /\ Len(wire') = Len(wire) + Fresh + Len(stream.inbox)
        /\ \A i \in 1..Len(wire) : wire'[i] = wire[i]
        /\ \A i \in 1..Len(stream.inbox) :
               wire'[Len(wire) + Fresh + i] = JobUpdate(stream.inbox[i])
    BY <1>0, <1>5, SendResult DEF Streams
  <2>2. CASE stream.inbox = <<>>
    <3>1. Jobs' = Jobs
      <4>1. ASSUME NEW i \in 1..Len(wire'), wire'[i].kind = "job_update" PROVE i \in Jobs
        <5>1. i \in 1..Len(wire) /\ wire'[i] = wire[i]
          <6>1. Len(stream.inbox) = 0 /\ 1..Len(stream.inbox) = {}
            BY <2>2
          <6>2. \A e : wire'[i] # Event(stream.run, e)
            BY <4>1 DEF Event
          <6> QED
            BY ONLY TypeInv, <1>5, <4>1, <6>1, <6>2, SendFrames
        <5> QED
          BY <4>1, <5>1 DEF Jobs
      <4>2. ASSUME NEW i \in Jobs PROVE i \in 1..Len(wire') /\ wire'[i].kind = "job_update"
        BY <1>0, <2>1, <2>2 DEF Jobs
      <4> QED
        BY <4>1, <4>2 DEF Jobs
    <3>2. \A i \in Jobs : wire'[i] = wire[i]
      BY <2>1 DEF Jobs
    <3> QED
      BY <2>1, <2>2, <3>1, <3>2 DEF LastInLine, JobUpdate
  <2>3. CASE stream.inbox # <<>>
    <3> DEFINE last == Len(wire')
    <3>1. stream.inbox[Len(stream.inbox)] = changes /\ changes > stream.since
      BY <1>0, <2>1, <2>3 DEF LastInLine
    <3>2. Len(stream.inbox) \in 1..Len(stream.inbox)
      BY <1>0, <2>3, EmptySeq
    <3>3. wire'[last] = JobUpdate(changes)
      BY <2>1, <3>1, <3>2
    <3>4. last \in 1..last
      <4>1. Len(wire') \in Nat /\ Len(wire') >= 1
        <5> DEFINE a == Len(wire)
                   b == Fresh
                   c == Len(stream.inbox)
        <5>1. a \in Nat /\ b \in Nat /\ c \in Nat /\ c >= 1 /\ Len(wire') = a + b + c
          BY <1>0, <2>1, <3>2
        <5> HIDE DEF a, b, c
        <5> QED
          BY ONLY <5>1
      <4> QED
        BY <4>1
    <3>5. last \in Jobs' /\ \A k \in Jobs' : k <= last
      BY <3>3, <3>4 DEF Jobs, JobUpdate
    <3> HIDE DEF last
    <3>6. \E i \in Jobs' : wire'[i] = JobUpdate(changes) /\ \A k \in Jobs' : k <= i
      BY <3>3, <3>5
    <3>7. stream.since <= changes /\ changes # stream.since
      BY <1>0, <3>1
    <3> QED
      BY <2>1, <3>6, <3>7 DEF LastInLine, JobUpdate
  <2> QED
    BY <2>2, <2>3
<1>6. CASE Deliver
  <2> DEFINE f == wire[1]
  <2>1. /\ UNCHANGED <<changes, stream>>
        /\ Len(wire) = Len(wire') + 1 /\ Len(wire') \in Nat
        /\ \A i \in 1..Len(wire') : wire'[i] = wire[i + 1]
        /\ \/ f.kind = "event" /\ heard' = heard
           \/ f.kind = "job_update" /\ f = JobUpdate(f.n) /\ heard' = f.n
    BY <1>6, DeliverResult
  <2>2. 1 \in 1..Len(wire) /\ (1 \in Jobs <=> f.kind = "job_update")
    BY <2>1 DEF Jobs
  <2>3. \A i \in Jobs : i # 1 => i - 1 \in Jobs' /\ wire'[i - 1] = wire[i]
    <3> SUFFICES ASSUME NEW i \in Jobs, i # 1
                 PROVE  i - 1 \in Jobs' /\ wire'[i - 1] = wire[i]
      OBVIOUS
    <3>1. i - 1 \in 1..Len(wire') /\ (i - 1) + 1 = i
      BY <2>1 DEF Jobs
    <3>2. wire'[i - 1] = wire[i]
      BY <2>1, <3>1
    <3> QED
      BY <3>1, <3>2 DEF Jobs
  <2>4. \A i \in Jobs' : i \in Nat /\ i + 1 \in Jobs /\ i + 1 # 1
    <3> SUFFICES ASSUME NEW i \in Jobs' PROVE i \in Nat /\ i + 1 \in Jobs /\ i + 1 # 1
      OBVIOUS
    <3>1. i \in 1..Len(wire') /\ wire'[i].kind = "job_update"
      BY DEF Jobs
    <3>2. i + 1 \in 1..Len(wire) /\ i + 1 # 1 /\ i \in Nat
      BY <2>1, <3>1
    <3>3. wire[i + 1].kind = "job_update"
      BY <2>1, <3>1
    <3> QED
      BY <3>2, <3>3 DEF Jobs
  <2> HIDE DEF f
  <2>5. CASE changes = stream.since
    <3>1. Jobs' = {}
      BY <2>1, <2>4, <2>5 DEF LastInLine
    <3> QED
      BY <1>0, <2>1, <2>5, <3>1 DEF LastInLine
  <2>6. CASE stream.inbox # <<>> /\ stream.inbox[Len(stream.inbox)] = changes
             /\ changes > stream.since
    BY <1>0, <2>1, <2>6 DEF LastInLine
  <2>7. ASSUME stream.inbox = <<>>, changes > stream.since,
               NEW i \in Jobs, wire[i] = JobUpdate(changes), \A k \in Jobs : k <= i
        PROVE  LastInLine'
    <3>1. CASE i = 1
      <4>1. Jobs' = {}
        <5> SUFFICES ASSUME NEW k \in Jobs' PROVE FALSE
          OBVIOUS
        <5>1. k \in Nat /\ k + 1 # 1 /\ k + 1 <= 1
          BY <2>4, <2>7, <3>1
        <5> QED
          BY <5>1
      <4>2. heard' = changes
        BY <2>1, <2>2, <2>7, <3>1 DEF JobUpdate, f
      <4> QED
        BY <1>0, <2>1, <2>7, <4>1, <4>2 DEF LastInLine
    <3>2. CASE i # 1
      <4>1. i - 1 \in Jobs' /\ wire'[i - 1] = JobUpdate(changes)
        BY <2>3, <2>7, <3>2
      <4>2. \A k \in Jobs' : k <= i - 1
        <5> SUFFICES ASSUME NEW k \in Jobs' PROVE k <= i - 1
          OBVIOUS
        <5>1. k \in Nat /\ k + 1 <= i /\ i \in Nat
          BY <2>4, <2>7 DEF Jobs
        <5> QED
          BY <5>1
      <4> QED
        BY <1>0, <2>1, <2>7, <4>1, <4>2 DEF LastInLine, JobUpdate
    <3> QED
      BY <3>1, <3>2
  <2>8. CASE stream.inbox = <<>> /\ Jobs = {} /\ heard = changes /\ changes > stream.since
    <3>1. Jobs' = {} /\ heard' = heard
      BY <2>1, <2>2, <2>4, <2>8
    <3> QED
      BY <1>0, <2>1, <2>8, <3>1 DEF LastInLine
  <2>9. stream.on
    BY <2>1
  <2> QED
    BY <1>0, <2>5, <2>6, <2>7, <2>8, <2>9 DEF LastInLine
<1>7. CASE FetchDone
  <2>1. UNCHANGED <<changes, stream, wire, heard>>
    BY <1>7, FetchDoneResult DEF NoStream
  <2> QED
    BY <1>1, <2>1
<1>8. CASE Drop
  BY <1>8 DEF Drop, NoStream
<1> QED
  BY <1>1, <1>2, <1>3, <1>4, <1>5, <1>6, <1>7, <1>8
     DEF Next, vars, server, app, NewRun, RecordEvent, StartFetch, FetchPage, Refuse

\* However many changes the inbox has dropped, the newest one since the subscription
\* reaches the app while the connection holds.
THEOREM LatestNeverLost == Spec => []LatestKept
<1>1. Init => TypeInv /\ LastInLine
  BY TypeInit DEF Init, NoStream, LastInLine
<1>2. TypeInv /\ LastInLine /\ [Next]_vars => (TypeInv /\ LastInLine)'
  BY TypeNext, LastNext
<1>3. TypeInv /\ LastInLine => LatestKept
  <2> SUFFICES ASSUME TypeInv, LastInLine, stream.on, changes > stream.since
               PROVE  \/ heard = changes
                      \/ OnWire(JobUpdate(changes))
                      \/ \E i \in 1..Len(stream.inbox) : stream.inbox[i] = changes
    BY DEF LatestKept
  <2>1. CASE stream.inbox # <<>> /\ stream.inbox[Len(stream.inbox)] = changes
    <3>1. stream.inbox \in Seq(1..MaxChanges)
      BY DEF TypeInv, TypeOK, Streams
    <3>2. Len(stream.inbox) \in 1..Len(stream.inbox)
      BY <2>1, <3>1, EmptySeq
    <3> QED
      BY <2>1, <3>2
  <2>2. CASE \E i \in Jobs : wire[i] = JobUpdate(changes)
    BY <2>2 DEF Jobs, OnWire
  <2>3. CASE heard = changes
    BY <2>3
  <2> QED
    BY <2>1, <2>2, <2>3 DEF LastInLine
<1> QED
  BY <1>1, <1>2, <1>3, PTL DEF Spec
=============================================================================
