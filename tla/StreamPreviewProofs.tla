------------------------ MODULE StreamPreviewProofs ------------------------
(***************************************************************************)
(* Theorems about StreamPreview, for every set of blocks, pages and        *)
(* threads and every placement of the blocks.                              *)
(***************************************************************************)
EXTENDS StreamPreview, SequenceTheorems, TLAPS

Places == {"idle", "rendering", "rendered", "committing", "publishing", "composing"}
States == [at : Places, block : Blocks \cup {None}, land : Pages \cup {None}, todo : SUBSET Pages,
           page : Pages \cup {None}, copy : Patches, shows : SUBSET Blocks]

\* What a thread holds at each place.
ThreadInv ==
    \A w \in Workers :
        /\ worker[w].at # "idle" => worker[w].block \in Blocks
        /\ worker[w].at \in {"rendered", "committing"} => worker[w].land \in Pages
        /\ worker[w].at = "composing" => worker[w].page \in Pages

\* Type correctness with what it rests on.
TypeInv == TypeOK /\ ThreadInv

LEMMA IdleType == Idle \in States
  BY DEF Idle, States, Places, Patches

LEMMA PlaceNames ==
    /\ "rendering" \in Places /\ "rendered" \in Places /\ "committing" \in Places
    /\ "publishing" \in Places /\ "composing" \in Places /\ "idle" \in Places
  BY DEF Places

\* A field of a thread's record may be replaced.
LEMMA StateType ==
    ASSUME NEW s \in States
    PROVE  /\ \A at \in Places, p \in Pages : [s EXCEPT !.at = at, !.land = p] \in States
           /\ \A todo \in SUBSET Pages : [s EXCEPT !.todo = todo] \in States
           /\ \A at \in Places, todo \in SUBSET Pages : [s EXCEPT !.at = at, !.todo = todo] \in States
           /\ \A at \in Places, copy \in Patches : [s EXCEPT !.at = at, !.copy = copy] \in States
           /\ \A at \in Places, p \in Pages, copy \in Patches, shows \in SUBSET Blocks :
                  [s EXCEPT !.at = at, !.page = p, !.copy = copy, !.shows = shows] \in States
           /\ \A at \in Places, b \in Blocks : [s EXCEPT !.at = at, !.block = b] \in States
           /\ \A at \in Places, b \in Blocks, todo \in SUBSET Pages :
                  [s EXCEPT !.at = at, !.block = b, !.todo = todo] \in States
           /\ \A at \in Places, todo \in SUBSET Pages, copy \in Patches :
                  [s EXCEPT !.at = at, !.todo = todo, !.page = None, !.copy = copy, !.shows = {}] \in States
  BY DEF States, Patches

LEMMA TypeInit == Init => TypeInv
<1> SUFFICES ASSUME Init PROVE TypeInv
  OBVIOUS
<1> USE DEF Init
<1>1. worker \in [Workers -> States] /\ \A w \in Workers : worker[w].at = "idle"
  BY IdleType DEF Idle
<1>2. /\ settled \in [Blocks -> Statuses]
      /\ patch \in Patches
      /\ rows \in SUBSET Pages
      /\ picture \in [Pages -> Picture]
  <2>1. PICK status \in {"none", "ok"} : Leftover(status)
    OBVIOUS
  <2>2. \A b \in Blocks : Home[b] \in Pages
    BY ConstantsAssumption DEF ConstantsAssumption
  <2>3. settled \in [Blocks -> Statuses]
    BY <2>1 DEF Leftover, Statuses
  <2>4. patch \in Patches
    BY <2>1, <2>2 DEF Leftover, Patches
  <2>5. rows \in SUBSET Pages
    BY <2>1, <2>2 DEF Leftover
  <2>6. \A p \in Pages : InScope(p) \in Picture /\ NoPicture \in Picture
    BY DEF InScope, Picture, NoPicture
  <2>7. picture \in [Pages -> Picture]
    BY <2>1, <2>6 DEF Leftover
  <2> QED
    BY <2>3, <2>4, <2>5, <2>7
<1>3. queue \in Seq(Blocks) /\ records \in Seq(Pages) /\ flushed \in 0..Len(records)
  OBVIOUS
<1>4. full \in Picture /\ lock \in [Pages -> Workers \cup {None}]
  BY DEF Picture, NoPicture
<1>5. 0 \in 0..MaxFaults
  BY ConstantsAssumption DEF ConstantsAssumption
<1> QED
  BY <1>1, <1>2, <1>3, <1>4, <1>5 DEF TypeInv, TypeOK, ThreadInv, States, Places

\* The row a thread writes back has the type of the table.
LEMMA ComposeType ==
    ASSUME TypeOK, NEW p \in Pages, NEW copy \in Patches, NEW shows \in SUBSET Blocks, Compose(p, copy, shows)
    PROVE  patch' \in Patches /\ rows' \in SUBSET Pages /\ picture' \in [Pages -> Picture]
  BY DEF TypeOK, Compose, Patches, Picture

LEMMA StampedType == ASSUME NEW p \in Pages PROVE Stamped(p) \in SUBSET Blocks
  BY DEF Stamped

LEMMA HomeType == \A b \in Blocks : Home[b] \in Pages
  BY ConstantsAssumption DEF ConstantsAssumption

LEMMA MainType == TypeInv /\ [Start \/ JobEnds \/ (\E b \in Blocks : Emit(b)) \/ TranslatorEnds \/ Join]_vars => TypeInv'
<1> SUFFICES ASSUME TypeInv, [Start \/ JobEnds \/ (\E b \in Blocks : Emit(b)) \/ TranslatorEnds \/ Join]_vars
             PROVE  TypeInv'
  OBVIOUS
<1> USE DEF TypeInv, TypeOK, ThreadInv
<1>1. CASE Start
  <2>1. /\ settled' \in [Blocks -> Statuses]
        /\ patch' \in Patches
        /\ rows' \in SUBSET Pages
        /\ picture' \in [Pages -> Picture]
    BY <1>1 DEF Start, Statuses, Patches, Picture, NoPicture
  <2> QED
    BY <1>1, <2>1 DEF Start, poolVars, memory
<1>2. CASE JobEnds
  BY <1>2 DEF JobEnds, poolVars, memory, tables
<1>3. ASSUME NEW b \in Blocks, Emit(b) PROVE TypeInv'
  <2>1. /\ queue' = <<>> \/ queue' = Append(queue, b)
        /\ translated' = translated \/ translated' = translated \cup ({b} \ Manual)
        /\ main' = main \/ main' = "failing"
    BY ONLY <1>3 DEF Emit
  <2>5. queue \in Seq(Blocks)
    OBVIOUS
  <2>2. queue' \in Seq(Blocks)
    <3>1. <<>> \in Seq(Blocks)
      BY EmptySeq
    <3>2. Append(queue, b) \in Seq(Blocks)
      BY <2>5, AppendProperties
    <3> HIDE DEF TypeInv, TypeOK, ThreadInv
    <3>3. CASE queue' = <<>>
      BY ONLY <3>3, <3>1
    <3>4. CASE queue' = Append(queue, b)
      BY ONLY <3>4, <3>2
    <3> QED
      BY <2>1, <3>3, <3>4
  <2>3. translated' \in SUBSET Blocks /\ emitted' \in SUBSET Blocks
    BY <1>3, <2>1 DEF Emit
  <2>4. UNCHANGED <<worker, lock, memory, tables, flushed, full, output, over, faults>>
    BY ONLY <1>3 DEF Emit
  <2> QED
    <3>1. main' \in {"starting", "feeding", "closing", "failing", "flushing", "done", "failed", "broken"}
      BY <2>1
    <3> QED
      BY <2>2, <2>3, <2>4, <3>1 DEF memory, tables
<1>4. CASE TranslatorEnds
  <2>1. queue' = <<>> \/ queue' = queue
    BY <1>4 DEF TranslatorEnds
  <2>2. queue' \in Seq(Blocks)
    BY <2>1, EmptySeq
  <2>3. main' \in {"closing", "failing"}
    BY <1>4 DEF TranslatorEnds
  <2> QED
    BY <1>4, <2>2, <2>3 DEF TranslatorEnds, memory, tables
<1>5. CASE Join
  BY <1>5 DEF Join, poolVars, memory, tables
<1>6. CASE UNCHANGED vars
  BY <1>6 DEF vars, poolVars, memory, tables
<1> QED
  BY <1>1, <1>2, <1>3, <1>4, <1>5, <1>6

LEMMA ThreadType == ASSUME TypeInv, NEW w \in Workers, Thread(w) PROVE TypeInv'
<1> USE DEF TypeInv, TypeOK
<1>0. worker \in [Workers -> States]
  BY DEF States, Places
<1>1. CASE Take(w)
  <2>1. queue' \in Seq(Blocks) /\ Head(queue) \in Blocks
    BY <1>1 DEF Take
  <2>2. CASE over
    BY <1>1, <2>1, <2>2 DEF Take, tables, ThreadInv
  <2>3. CASE ~over
    <3> DEFINE b == Head(queue)
               s == [Idle EXCEPT !.at = "rendering", !.block = b]
    <3>1. s \in States
      BY <2>1, PlaceNames, StateType, IdleType
    <3>6. s.at = "rendering" /\ s.block = b
      BY DEF Idle
    <3>2. worker' = [worker EXCEPT ![w] = s]
      BY <1>1, <2>3 DEF Take, Become
    <3>3. worker' \in [Workers -> States] /\ ThreadInv'
      BY <1>0, <3>1, <3>2, <3>6, <2>1 DEF ThreadInv
    <3>4. records' \in Seq(Pages) /\ Len(records') >= Len(records) /\ Len(records') \in Nat
      <4>1. Home[b] \in Pages
        BY <2>1, HomeType
      <4>2. records' = records \/ records' = Append(records, Home[b])
        BY <1>1, <2>3 DEF Take
      <4>3. Append(records, Home[b]) \in Seq(Pages) /\ Len(Append(records, Home[b])) = Len(records) + 1
        BY <4>1, AppendProperties
      <4>4. records \in Seq(Pages) /\ Len(records) \in Nat
        BY LenProperties
      <4> QED
        BY ONLY <4>2, <4>3, <4>4
    <3>5. flushed' \in 0..Len(records')
      BY <1>1, <3>4 DEF Take
    <3> QED
      BY <1>1, <2>1, <3>3, <3>4, <3>5 DEF Take, tables, States, Places
  <2> QED
    BY <2>2, <2>3
<1>2. CASE Settle(w)
  <2> DEFINE s == [worker[w] EXCEPT !.at = "publishing", !.todo = {HomeOf(w)}]
  <2>1. worker[w].block \in Blocks /\ HomeOf(w) \in Pages
    BY <1>2, HomeType DEF Settle, At, HomeOf, ThreadInv
  <2>5. s \in States
    BY <1>0, <2>1, PlaceNames, StateType
  <2>2. s \in States /\ s.at = "publishing" /\ s.block = worker[w].block
    BY <1>0, <2>5 DEF States
  <2>3. worker' \in [Workers -> States] /\ ThreadInv'
    BY <1>0, <1>2, <2>1, <2>2 DEF ThreadInv, Settle, Become
  <2>4. settled' \in [Blocks -> Statuses]
    BY <1>2, <2>1 DEF Settle, Statuses
  <2> QED
    BY <1>2, <2>3, <2>4 DEF Settle, memory, States, Places
<1>3. CASE Render(w)
  <2>1. PICK p \in Pages : worker' = [worker EXCEPT ![w] = [worker[w] EXCEPT !.at = "rendered", !.land = p]]
    BY <1>3 DEF Render, Become
  <2> DEFINE s == [worker[w] EXCEPT !.at = "rendered", !.land = p]
  <2>4. s \in States
    BY <1>0, PlaceNames, StateType
  <2>2. s \in States /\ s.at = "rendered" /\ s.block = worker[w].block /\ s.land = p
    BY <1>0, <2>4 DEF States
  <2>3. worker' \in [Workers -> States] /\ ThreadInv'
    BY <1>0, <1>3, <2>1, <2>2 DEF ThreadInv, Render, At
  <2> QED
    BY <1>3, <2>3 DEF Render, memory, tables, States, Places
<1>4. CASE ReadRow(w)
  <2> DEFINE s == [worker[w] EXCEPT !.at = "committing", !.copy = patch]
  <2>1. worker[w].block \in Blocks /\ HomeOf(w) \in Pages
    BY <1>4, HomeType DEF ReadRow, At, HomeOf, ThreadInv
  <2>5. s \in States
    BY <1>0, PlaceNames, StateType
  <2>2. s \in States /\ s.at = "committing" /\ s.block = worker[w].block /\ s.land = worker[w].land
    BY <1>0, <2>5 DEF States
  <2>3. worker' \in [Workers -> States] /\ ThreadInv'
    BY <1>0, <1>4, <2>1, <2>2 DEF ThreadInv, ReadRow, Become, At
  <2>4. lock' \in [Pages -> Workers \cup {None}]
    BY <1>4, <2>1 DEF ReadRow
  <2> QED
    BY <1>4, <2>3, <2>4 DEF ReadRow, memory, tables, States, Places
<1>5. CASE WriteRow(w)
  <2> DEFINE b == worker[w].block
             p == Home[b]
             q == worker[w].land
  <2>1. b \in Blocks /\ p \in Pages /\ q \in Pages /\ worker[w].copy \in Patches
    BY <1>0, <1>5, HomeType DEF WriteRow, At, ThreadInv, States
  <2>2. lock' \in [Pages -> Workers \cup {None}]
    BY <1>5, <2>1 DEF WriteRow
  <2>3. settled' \in [Blocks -> Statuses]
    BY <1>5, <2>1 DEF WriteRow, Statuses
  <2>4. patch' \in Patches /\ rows' \in SUBSET Pages /\ timed' \in SUBSET Pages
    BY <1>5, <2>1 DEF WriteRow, Patches
  <2>5. PICK t \in SUBSET Pages :
            worker' = [worker EXCEPT ![w] = [Idle EXCEPT !.at = "publishing", !.block = b, !.todo = t]]
    <3>1. CASE over
      BY <1>5, <2>1, <3>1 DEF WriteRow, Become
    <3>2. CASE ~over
      BY <1>5, <2>1, <3>2 DEF WriteRow, Become
    <3> QED
      BY <3>1, <3>2
  <2>6. [Idle EXCEPT !.at = "publishing", !.block = b, !.todo = t] \in States
    BY <2>1, IdleType, PlaceNames, StateType
  <2>7. worker' \in [Workers -> States] /\ ThreadInv'
    BY <1>0, <2>1, <2>5, <2>6 DEF ThreadInv, Idle
  <2> QED
    BY <1>5, <2>2, <2>3, <2>4, <2>7 DEF WriteRow, States, Places
<1>6. CASE Publish(w)
  <2>1. PICK p \in worker[w].todo :
           \/ /\ worker' = [worker EXCEPT ![w] = [worker[w] EXCEPT !.todo = @ \ {p}]]
              /\ UNCHANGED <<lock, raised>>
           \/ /\ worker' = [worker EXCEPT ![w] = Idle]
              /\ raised' = TRUE
              /\ UNCHANGED lock
           \/ /\ worker' = [worker EXCEPT ![w] =
                     [worker[w] EXCEPT !.at = "composing", !.page = p, !.copy = patch, !.shows = Stamped(p)]]
              /\ lock' = [lock EXCEPT ![p] = w]
              /\ UNCHANGED raised
    BY <1>6 DEF Publish, Become
  <2>2. p \in Pages /\ worker[w].todo \in SUBSET Pages
    BY <1>0, <2>1 DEF States
  <2>3. CASE worker' = [worker EXCEPT ![w] = [worker[w] EXCEPT !.todo = @ \ {p}]] /\ UNCHANGED <<lock, raised>>
    <3> DEFINE s == [worker[w] EXCEPT !.todo = @ \ {p}]
    <3>3. worker[w].todo \ {p} \in SUBSET Pages
      BY <2>2
    <3>4. s \in States
      BY <1>0, <3>3, StateType
    <3>1. s \in States /\ s.at = worker[w].at /\ s.block = worker[w].block
          /\ s.land = worker[w].land /\ s.page = worker[w].page
      BY <1>0, <3>4 DEF States
    <3>2. worker' \in [Workers -> States] /\ ThreadInv'
      BY <1>0, <2>3, <3>1 DEF ThreadInv
    <3> QED
      BY <1>6, <2>3, <3>2 DEF Publish, tables, States, Places
  <2>4. CASE worker' = [worker EXCEPT ![w] = Idle] /\ raised' = TRUE /\ UNCHANGED lock
    <3>1. worker' \in [Workers -> States] /\ ThreadInv'
      BY <1>0, <2>4, IdleType DEF ThreadInv, Idle
    <3> QED
      BY <1>6, <2>4, <3>1 DEF Publish, tables, States, Places
  <2>5. CASE /\ worker' = [worker EXCEPT ![w] =
                     [worker[w] EXCEPT !.at = "composing", !.page = p, !.copy = patch, !.shows = Stamped(p)]]
             /\ lock' = [lock EXCEPT ![p] = w]
             /\ UNCHANGED raised
    <3> DEFINE s == [worker[w] EXCEPT !.at = "composing", !.page = p, !.copy = patch, !.shows = Stamped(p)]
    <3>4. s \in States
      BY <1>0, <2>2, PlaceNames, StateType, StampedType
    <3>1. s \in States /\ s.at = "composing" /\ s.block = worker[w].block /\ s.page = p
      BY <1>0, <3>4 DEF States
    <3>2. worker' \in [Workers -> States] /\ ThreadInv'
      BY <1>0, <1>6, <2>2, <2>5, <3>1 DEF ThreadInv, Publish, At
    <3>3. lock' \in [Pages -> Workers \cup {None}]
      BY <2>2, <2>5
    <3> QED
      BY <1>6, <2>5, <3>2, <3>3 DEF Publish, tables, States, Places
  <2> QED
    BY <2>1, <2>3, <2>4, <2>5
<1>7. CASE Composed(w)
  <2> DEFINE p == worker[w].page
             s == [worker[w] EXCEPT !.at = "publishing", !.todo = @ \ {p}, !.page = None,
                                    !.copy = Idle.copy, !.shows = {}]
  <2>1. p \in Pages /\ worker[w].copy \in Patches /\ worker[w].shows \in SUBSET Blocks
    BY <1>0, <1>7 DEF Composed, At, ThreadInv, States
  <2>2. patch' \in Patches /\ rows' \in SUBSET Pages /\ picture' \in [Pages -> Picture]
    BY <1>7, <2>1, ComposeType DEF Composed
  <2>3. Idle.copy \in Patches
    BY DEF Idle, Patches
  <2>7. worker[w].todo \ {p} \in SUBSET Pages
    BY <1>0 DEF States
  <2>8. s \in States
    BY <1>0, <2>3, <2>7, PlaceNames, StateType
  <2>4. s \in States /\ s.at = "publishing" /\ s.block = worker[w].block
    BY <1>0, <2>8 DEF States
  <2>5. worker' \in [Workers -> States] /\ ThreadInv'
    BY <1>0, <1>7, <2>4 DEF ThreadInv, Composed, Become, At
  <2>6. lock' \in [Pages -> Workers \cup {None}] /\ published' \in SUBSET Pages
    BY <1>7, <2>1 DEF Composed
  <2> QED
    BY <1>7, <2>2, <2>5, <2>6 DEF Composed, States, Places
<1>8. CASE ComposeRaises(w)
  <2>1. worker' \in [Workers -> States] /\ ThreadInv'
    BY <1>0, <1>8, IdleType DEF ThreadInv, Idle, ComposeRaises, Become
  <2>2. lock' \in [Pages -> Workers \cup {None}]
    BY <1>8 DEF ComposeRaises
  <2>3. faults' \in 0..MaxFaults
    BY <1>8, ConstantsAssumption DEF ComposeRaises, ConstantsAssumption
  <2> QED
    BY <1>8, <2>1, <2>2, <2>3 DEF ComposeRaises, tables, States, Places
<1>9. CASE Finish(w)
  <2>1. worker' \in [Workers -> States] /\ ThreadInv'
    BY <1>0, <1>9, IdleType DEF ThreadInv, Idle, Finish, Become
  <2> QED
    BY <1>9, <2>1 DEF Finish, memory, tables, States, Places
<1> QED
  BY <1>1, <1>2, <1>3, <1>4, <1>5, <1>6, <1>7, <1>8, <1>9 DEF Thread

LEMMA CloseType == ASSUME TypeInv, Flush \/ FlushEnds \/ Terminated PROVE TypeInv'
<1> USE DEF TypeInv, TypeOK, ThreadInv
<1>1. CASE Flush
  <2> DEFINE p == records[flushed + 1]
  <2>1. p \in Pages /\ flushed + 1 \in 0..Len(records)
    BY <1>1 DEF Flush
  <2>2. Stamped(p) \in SUBSET Blocks
    BY StampedType, <2>1
  <2>3. patch' \in Patches /\ rows' \in SUBSET Pages /\ picture' \in [Pages -> Picture] /\ settled' = settled
    BY <1>1, <2>1, <2>2, ComposeType DEF Flush, tables
  <2>4. faults' \in 0..MaxFaults
    BY <1>1, ConstantsAssumption DEF Flush, ConstantsAssumption
  <2>5. main' \in {"flushing", "done"} /\ flushed' \in 0..Len(records)
    BY <1>1, <2>1 DEF Flush
  <2> QED
    BY <1>1, <2>3, <2>4, <2>5 DEF Flush, poolVars, memory
<1>2. CASE FlushEnds
  <2>1. full' \in Picture
    <3>1. ASSUME NEW p \in Pictured PROVE picture[p] \in SUBSET Blocks
      BY <3>1 DEF Pictured, Picture, NoPicture
    <3>2. UNION {picture[p] : p \in Pictured} \in SUBSET Blocks
      BY <3>1
    <3> QED
      BY <1>2, <3>2 DEF FlushEnds, Picture
  <2> QED
    BY <1>2, <2>1 DEF FlushEnds, poolVars, memory, tables
<1>3. CASE Terminated
  BY <1>3 DEF Terminated, vars, poolVars, memory, tables
<1> QED
  BY <1>1, <1>2, <1>3

LEMMA TypeNext == TypeInv /\ [Next]_vars => TypeInv'
  BY MainType, ThreadType, CloseType DEF Next

\* Every variable of the preview keeps its type.
THEOREM TypeCorrect == Spec => []TypeOK
<1>1. TypeInv => TypeOK
  BY DEF TypeInv
<1> QED
  BY <1>1, TypeInit, TypeNext, PTL DEF Spec

-----------------------------------------------------------------------------
(* Nothing is written once the job is over *)

\* Before the job is started it is not over and no thread has work.
StartInv ==
    main = "starting" =>
        /\ ~over
        /\ queue = <<>>
        /\ published = {}
        /\ \A w \in Workers : worker[w].at = "idle"

LEMMA StartInit == Init => StartInv
  BY DEF Init, StartInv, Idle

\* A thread that has nothing to do finds nothing in an empty queue.
LEMMA IdleThread ==
    ASSUME NEW w \in Workers, Thread(w), worker[w].at = "idle", queue = <<>> PROVE FALSE
  BY DEF Thread, Take, Settle, Render, ReadRow, WriteRow, Publish, Composed, ComposeRaises, Finish, At

LEMMA ThreadMain == ASSUME NEW w \in Workers, Thread(w) PROVE main' = main /\ over' = over /\ full' = full
                                                             /\ translated' = translated /\ emitted' = emitted
  BY DEF Thread, Take, Settle, Render, ReadRow, WriteRow, Publish, Composed, ComposeRaises, Finish

LEMMA StartNext == StartInv /\ [Next]_vars => StartInv'
<1> SUFFICES ASSUME StartInv, [Next]_vars PROVE StartInv'
  OBVIOUS
<1> USE DEF StartInv
<1>1. CASE Start \/ JobEnds \/ (\E b \in Blocks : Emit(b)) \/ TranslatorEnds \/ Join
  BY <1>1 DEF Start, JobEnds, Emit, TranslatorEnds, Join
<1>2. ASSUME NEW w \in Workers, Thread(w) PROVE StartInv'
  BY <1>2, ThreadMain, IdleThread
<1>3. CASE Flush \/ FlushEnds
  BY <1>3 DEF Flush, FlushEnds
<1>4. CASE UNCHANGED vars
  BY <1>4 DEF vars, poolVars, memory
<1> QED
  BY <1>1, <1>2, <1>3, <1>4 DEF Next, Terminated

LEMMA OverNext == StartInv /\ [Next]_vars => [over => UNCHANGED <<translated, patch, rows, picture, full>>]_vars
<1> SUFFICES ASSUME StartInv, Next, over PROVE UNCHANGED <<translated, patch, rows, picture, full>>
  BY DEF vars
<1>1. CASE Start \/ JobEnds \/ (\E b \in Blocks : Emit(b)) \/ TranslatorEnds \/ Join
  BY <1>1 DEF StartInv, Start, JobEnds, Emit, TranslatorEnds, Join, tables
<1>2. ASSUME NEW w \in Workers, Thread(w) PROVE UNCHANGED <<translated, patch, rows, picture, full>>
  BY <1>2 DEF Thread, Take, Settle, Render, ReadRow, WriteRow, Publish, Composed, ComposeRaises, Finish, tables
<1>3. CASE Flush \/ FlushEnds
  BY <1>3 DEF Flush, FlushEnds, tables
<1>4. CASE Terminated
  BY <1>4 DEF Terminated, vars, tables
<1> QED
  BY <1>1, <1>2, <1>3, <1>4 DEF Next

\* Once the job is over no thread and no close writes a page or a preview.
THEOREM OverHolds == Spec => OverIsFinal
<1>1. Spec => []StartInv
  BY StartInit, StartNext, PTL DEF Spec
<1> QED
  BY <1>1, OverNext, PTL DEF Spec, OverIsFinal

-----------------------------------------------------------------------------
(* A committed patch is kept *)

\* Between its read and its write of a row a thread holds the lock of the page,
\* and what it read is still what the row says.
Fresh(w, p) == lock[p] = w /\ \A b \in InScope(p) : worker[w].copy[b] = patch[b]

LockInv ==
    \A w \in Workers :
        /\ worker[w].at = "committing" => Fresh(w, HomeOf(w))
        /\ worker[w].at = "composing" => Fresh(w, worker[w].page)

PatchInv == StartInv /\ LockInv /\ PatchKept

\* The other threads are left alone.
LEMMA Frame ==
    ASSUME TypeInv, NEW w \in Workers, Thread(w)
    PROVE  \A v \in Workers \ {w} : worker'[v] = worker[v]
<1>1. ASSUME NEW s, Become(w, s) PROVE \A v \in Workers \ {w} : worker'[v] = worker[v]
  BY <1>1 DEF Become, TypeInv, TypeOK
<1>2. CASE Take(w)
  BY <1>1, <1>2 DEF Take
<1>3. CASE Settle(w) \/ Render(w) \/ ReadRow(w)
  BY <1>1, <1>3 DEF Settle, Render, ReadRow
<1>4. CASE WriteRow(w)
  BY <1>1, <1>4 DEF WriteRow
<1>5. CASE Publish(w)
  <2>1. PICK p \in worker[w].todo :
           \/ Become(w, [worker[w] EXCEPT !.todo = @ \ {p}])
           \/ Become(w, Idle)
           \/ Become(w, [worker[w] EXCEPT !.at = "composing", !.page = p, !.copy = patch, !.shows = Stamped(p)])
    BY <1>5 DEF Publish
  <2> QED
    BY <1>1, <2>1
<1>6. CASE Composed(w) \/ ComposeRaises(w) \/ Finish(w)
  BY <1>1, <1>6 DEF Composed, ComposeRaises, Finish
<1> QED
  BY <1>2, <1>3, <1>4, <1>5, <1>6 DEF Thread

\* What composing a page writes is what the table holds.
LEMMA ComposeKeeps ==
    ASSUME TypeInv, NEW p, NEW copy, NEW shows, Compose(p, copy, shows),
           \A b \in InScope(p) : copy[b] = patch[b]
    PROVE  patch' = patch
  BY DEF TypeInv, TypeOK, Patches, Compose, InScope

\* What a commit writes differs from the table in its own block only.
LEMMA WriteKeeps ==
    ASSUME TypeInv, LockInv, NEW w \in Workers, WriteRow(w)
    PROVE  /\ worker[w].block \in Blocks
           /\ \A b \in Blocks : patch'[b] # patch[b] =>
                  b = worker[w].block /\ patch'[b] = worker[w].land /\ patch'[b] \in Pages
           /\ patch' \in [Blocks -> Pages \cup {None}]
           /\ ~over => patch'[worker[w].block] = worker[w].land /\ worker[w].land \in Pages
<1>1. worker[w].block \in Blocks /\ worker[w].land \in Pages
  BY DEF TypeInv, ThreadInv, WriteRow, At
<1>2. \A b \in InScope(HomeOf(w)) : worker[w].copy[b] = patch[b]
  BY DEF LockInv, Fresh, WriteRow, At
<1>3. patch' \in [Blocks -> Pages \cup {None}]
  <2>1. worker[w].copy \in Patches /\ patch \in Patches
    BY DEF TypeInv, TypeOK
  <2> QED
    BY <1>1, <2>1 DEF WriteRow, Patches
<1> QED
  BY <1>1, <1>2, <1>3 DEF WriteRow, HomeOf, InScope, TypeInv, TypeOK, Patches

LEMMA PatchInit == Init => PatchInv
  BY StartInit DEF Init, PatchInv, LockInv, PatchKept, Idle

\* Only the thread that holds the lock of a page writes its row.
LEMMA LockNext == TypeInv /\ PatchInv /\ [Next]_vars => LockInv'
<1> SUFFICES ASSUME TypeInv, PatchInv, [Next]_vars PROVE LockInv'
  OBVIOUS
<1>1. CASE Start
  BY <1>1 DEF PatchInv, StartInv, Start, LockInv, poolVars
<1>2. CASE JobEnds \/ (\E b \in Blocks : Emit(b)) \/ TranslatorEnds \/ Join \/ FlushEnds \/ Terminated \/ UNCHANGED vars
  <2>1. UNCHANGED <<worker, lock, patch>>
    BY <1>2 DEF JobEnds, Emit, TranslatorEnds, Join, FlushEnds, Terminated, vars, tables, poolVars
  <2> QED
    BY <2>1 DEF PatchInv, LockInv, Fresh, HomeOf
<1>3. CASE Flush
  <2>1. UNCHANGED <<worker, lock, patch>>
    <3>1. CASE UNCHANGED tables
      BY <1>3, <3>1 DEF Flush, tables, poolVars
    <3>2. CASE Compose(records[flushed + 1], patch, Stamped(records[flushed + 1]))
      BY <1>3, <3>2, ComposeKeeps DEF Flush, poolVars
    <3> QED
      BY <1>3, <3>1, <3>2 DEF Flush
  <2> QED
    BY <2>1 DEF PatchInv, LockInv, Fresh, HomeOf
<1>4. ASSUME NEW w \in Workers, Thread(w) PROVE LockInv'
  <2> SUFFICES ASSUME NEW v \in Workers
               PROVE  /\ worker'[v].at = "committing" => Fresh(v, HomeOf(v))'
                      /\ worker'[v].at = "composing" => Fresh(v, worker[v].page)'
    BY DEF LockInv
  <2> USE DEF PatchInv
  <2>0. v # None /\ w # None
    BY ConstantsAssumption DEF ConstantsAssumption
  <2>1. CASE v # w
    <3>1. worker'[v] = worker[v]
      BY <1>4, <2>1, Frame
    <3>2. ASSUME NEW p \in Pages, Fresh(v, p) PROVE Fresh(v, p)'
      <4>1. lock'[p] = lock[p]
        BY <1>4, <2>0, <2>1, <3>2 DEF Thread, Take, Settle, Render, ReadRow, WriteRow, Publish, Composed,
           ComposeRaises, Finish, Fresh, LockInv, At, HomeOf, TypeInv, TypeOK
      <4>2. ASSUME NEW b \in InScope(p) PROVE patch'[b] = patch[b]
        <5>1. CASE WriteRow(w)
          <6>1. lock[HomeOf(w)] = w
            BY <5>1 DEF LockInv, Fresh, WriteRow, At
          <6>2. b # worker[w].block
            BY <2>1, <3>2, <4>2, <6>1 DEF Fresh, HomeOf, InScope
          <6> QED
            BY <4>2, <5>1, <6>2, WriteKeeps DEF InScope
        <5>2. CASE Composed(w)
          <6>1. \A c \in InScope(worker[w].page) : worker[w].copy[c] = patch[c]
            BY <5>2 DEF LockInv, Fresh, Composed, At
          <6> QED
            BY <5>2, <6>1, ComposeKeeps DEF Composed
        <5>3. CASE ~WriteRow(w) /\ ~Composed(w)
          BY <1>4, <5>3 DEF Thread, Take, Settle, Render, ReadRow, Publish, ComposeRaises, Finish, tables
        <5> QED
          BY <5>1, <5>2, <5>3
      <4> QED
        BY <3>1, <3>2, <4>1, <4>2 DEF Fresh, InScope
    <3>3. worker[v].at = "committing" => HomeOf(v) \in Pages
      BY HomeType DEF TypeInv, ThreadInv, HomeOf
    <3>4. worker[v].at = "composing" => worker[v].page \in Pages
      BY DEF TypeInv, ThreadInv
    <3> QED
      BY <3>1, <3>2, <3>3, <3>4 DEF LockInv, HomeOf
  <2>2. CASE v = w
    <3> USE <2>2
    <3>0. worker \in [Workers -> States]
      BY DEF TypeInv, TypeOK, States, Places
    <3>1. CASE ReadRow(w)
      <4>1. worker'[w] = [worker[w] EXCEPT !.at = "committing", !.copy = patch]
        BY <3>0, <3>1 DEF ReadRow, Become
      <4>2. worker'[w].at = "committing" /\ worker'[w].copy = patch /\ worker'[w].block = worker[w].block
        BY <3>0, <4>1 DEF States
      <4>3. HomeOf(w) \in Pages
        BY <3>1, HomeType DEF ReadRow, At, TypeInv, ThreadInv, HomeOf
      <4>4. lock'[HomeOf(w)] = w /\ patch' = patch
        BY <3>1, <4>3 DEF ReadRow, tables, TypeInv, TypeOK
      <4> QED
        BY <4>2, <4>4 DEF Fresh, HomeOf
    <3>2. CASE Publish(w)
      <4>1. patch' = patch
        BY <3>2 DEF Publish, tables
      <4>2. PICK p \in worker[w].todo :
               \/ worker' = [worker EXCEPT ![w] = [worker[w] EXCEPT !.todo = @ \ {p}]]
               \/ worker' = [worker EXCEPT ![w] = Idle]
               \/ /\ worker' = [worker EXCEPT ![w] =
                         [worker[w] EXCEPT !.at = "composing", !.page = p, !.copy = patch, !.shows = Stamped(p)]]
                  /\ lock' = [lock EXCEPT ![p] = w]
        BY <3>2 DEF Publish, Become
      <4>3. worker[w].at = "publishing" /\ p \in Pages
        BY <3>0, <3>2 DEF Publish, At, States
      <4>4. CASE worker' = [worker EXCEPT ![w] = [worker[w] EXCEPT !.todo = @ \ {p}]]
        <5>1. worker'[w].at = "publishing"
          BY <3>0, <4>3, <4>4 DEF States
        <5> QED
          BY <5>1
      <4>5. CASE worker' = [worker EXCEPT ![w] = Idle]
        BY <3>0, <4>5 DEF Idle
      <4>6. CASE /\ worker' = [worker EXCEPT ![w] =
                        [worker[w] EXCEPT !.at = "composing", !.page = p, !.copy = patch, !.shows = Stamped(p)]]
                 /\ lock' = [lock EXCEPT ![p] = w]
        <5>1. worker'[w] = [worker[w] EXCEPT !.at = "composing", !.page = p, !.copy = patch, !.shows = Stamped(p)]
          BY <3>0, <4>6
        <5>2. worker'[w].at = "composing" /\ worker'[w].copy = patch /\ worker'[w].page = p
          BY <3>0, <5>1 DEF States
        <5>3. lock'[p] = w
          BY <4>3, <4>6 DEF TypeInv, TypeOK
        <5> QED
          BY <4>1, <5>2, <5>3 DEF Fresh
      <4> QED
        BY <4>2, <4>4, <4>5, <4>6
    <3>3. CASE Take(w)
      <4>1. worker'[w].at # "committing" /\ worker'[w].at # "composing"
        BY <3>0, <3>3 DEF Take, Become, Idle, At
      <4> QED
        BY <4>1
    <3>4. CASE Settle(w)
      <4>1. worker'[w] = [worker[w] EXCEPT !.at = "publishing", !.todo = {HomeOf(w)}]
        BY <3>0, <3>4 DEF Settle, Become
      <4>2. worker'[w].at = "publishing"
        BY <3>0, <4>1 DEF States
      <4> QED
        BY <4>2
    <3>5. CASE Render(w)
      <4>1. PICK p \in Pages : worker'[w] = [worker[w] EXCEPT !.at = "rendered", !.land = p]
        BY <3>0, <3>5 DEF Render, Become
      <4>2. worker'[w].at = "rendered"
        BY <3>0, <4>1 DEF States
      <4> QED
        BY <4>2
    <3>6. CASE WriteRow(w)
      <4>1. worker'[w].at = "publishing"
        BY <3>0, <3>6 DEF WriteRow, Become, Idle
      <4> QED
        BY <4>1
    <3>7. CASE Composed(w)
      <4>1. worker'[w] = [worker[w] EXCEPT !.at = "publishing", !.todo = @ \ {worker[w].page}, !.page = None,
                                           !.copy = Idle.copy, !.shows = {}]
        BY <3>0, <3>7 DEF Composed, Become
      <4>2. worker'[w].at = "publishing"
        BY <3>0, <4>1 DEF States
      <4> QED
        BY <4>2
    <3>8. CASE ComposeRaises(w) \/ Finish(w)
      <4>1. worker'[w].at = "idle"
        BY <3>0, <3>8 DEF ComposeRaises, Finish, Become, Idle
      <4> QED
        BY <4>1
    <3> QED
      BY <1>4, <3>1, <3>2, <3>3, <3>4, <3>5, <3>6, <3>7, <3>8 DEF Thread
  <2> QED
    BY <2>1, <2>2
<1> QED
  BY <1>1, <1>2, <1>3, <1>4 DEF Next

LEMMA KeptNext == TypeInv /\ PatchInv /\ [Next]_vars => PatchKept'
<1> SUFFICES ASSUME TypeInv, PatchInv, [Next]_vars, main' # "starting", NEW b \in Blocks, settled'[b] = "ok"
             PROVE  patch'[b] # None
  BY DEF PatchKept
<1>1. CASE Start
  BY <1>1 DEF Start
<1>2. CASE UNCHANGED <<settled, patch>> /\ (main' # "starting" => main # "starting")
  BY <1>2 DEF PatchInv, PatchKept
<1>3. CASE JobEnds \/ (\E c \in Blocks : Emit(c)) \/ TranslatorEnds \/ Join \/ FlushEnds \/ Terminated \/ UNCHANGED vars
  BY <1>2, <1>3 DEF JobEnds, Emit, TranslatorEnds, Join, FlushEnds, Terminated, vars, tables
<1>4. CASE Flush
  <2>1. UNCHANGED <<settled, patch>>
    <3>1. CASE UNCHANGED tables
      BY <3>1 DEF tables
    <3>2. CASE Compose(records[flushed + 1], patch, Stamped(records[flushed + 1])) /\ UNCHANGED settled
      BY <3>2, ComposeKeeps
    <3> QED
      BY <1>4, <3>1, <3>2 DEF Flush, tables
  <2> QED
    BY <1>2, <1>4, <2>1 DEF Flush
<1>5. ASSUME NEW w \in Workers, Thread(w) PROVE patch'[b] # None
  <2>0. main # "starting" /\ None \notin Pages
    BY <1>5, ThreadMain, ConstantsAssumption DEF ConstantsAssumption
  <2>1. CASE WriteRow(w)
    <3>1. settled[b] = "ok" => patch[b] # None
      BY <2>0 DEF PatchInv, PatchKept
    <3>2. b # worker[w].block => settled'[b] = settled[b]
      BY <2>1 DEF WriteRow, TypeInv, TypeOK
    <3>3. b = worker[w].block => ~over
      BY <2>1 DEF WriteRow, TypeInv, TypeOK
    <3>4. \A c \in Blocks : patch'[c] # patch[c] => patch'[c] \in Pages
      BY <2>1, WriteKeeps DEF PatchInv
    <3>5. ~over => patch'[worker[w].block] \in Pages
      BY <2>1, WriteKeeps DEF PatchInv
    <3>6. CASE b = worker[w].block
      BY <2>0, <3>3, <3>5, <3>6
    <3>7. CASE b # worker[w].block
      BY <2>0, <3>1, <3>2, <3>4, <3>7
    <3> QED
      BY <3>6, <3>7
  <2>2. CASE Composed(w)
    <3>1. \A c \in InScope(worker[w].page) : worker[w].copy[c] = patch[c]
      BY <2>2 DEF PatchInv, LockInv, Fresh, Composed, At
    <3>2. patch' = patch /\ settled' = settled
      BY <2>2, <3>1, ComposeKeeps DEF Composed
    <3> QED
      BY <1>2, <2>0, <3>2
  <2>3. CASE Settle(w)
    <3>1. settled'[b] = "ok" => settled[b] = "ok"
      BY <2>3 DEF Settle, TypeInv, TypeOK
    <3> QED
      BY <2>0, <2>3, <3>1 DEF PatchInv, PatchKept, Settle
  <2>4. CASE Take(w) \/ Render(w) \/ ReadRow(w) \/ Publish(w) \/ ComposeRaises(w) \/ Finish(w)
    BY <1>2, <2>0, <2>4 DEF Take, Render, ReadRow, Publish, ComposeRaises, Finish, tables
  <2> QED
    BY <1>5, <2>1, <2>2, <2>3, <2>4 DEF Thread
<1> QED
  BY <1>1, <1>3, <1>4, <1>5 DEF Next

\* The threads of a page lose no patch that was committed.
THEOREM PatchHolds == Spec => []PatchKept
<1>1. Init => TypeInv /\ PatchInv
  BY TypeInit, PatchInit
<1>2. TypeInv /\ PatchInv /\ [Next]_vars => (TypeInv /\ PatchInv)'
  BY TypeNext, StartNext, LockNext, KeptNext DEF PatchInv
<1>3. PatchInv => PatchKept
  BY DEF PatchInv
<1> QED
  BY <1>1, <1>2, <1>3, PTL DEF Spec

-----------------------------------------------------------------------------
(* A page goes out when all its blocks are settled *)

InHand(w, b) == worker[w].block = b /\ worker[w].at \in {"rendering", "rendered", "committing"}
Queued(b) == \E i \in 1..Len(queue) : queue[i] = b
\* A block that was taken out of the pool's queue is in one thread's hands.
Single ==
    /\ \A i, j \in 1..Len(queue) : queue[i] = queue[j] => i = j
    /\ \A w \in Workers, b \in Blocks : InHand(w, b) => b \in emitted /\ ~Queued(b)
    /\ \A v, w \in Workers, b \in Blocks : InHand(v, b) /\ InHand(w, b) => v = w
    /\ \A b \in Blocks : Queued(b) => b \in emitted

SettledInv ==
    main # "starting" =>
        \A b \in Blocks : settled[b] # "none" =>
            b \in emitted /\ ~Queued(b) /\ \A w \in Workers : ~InHand(w, b)

\* The pages that are published, or about to be, have settled.
PageInv ==
    /\ \A p \in published : \A b \in InScope(p) : settled[b] # "none"
    /\ \A w \in Workers : worker[w].at = "composing" =>
           \A b \in InScope(worker[w].page) : settled[b] # "none"

PublishInv == StartInv /\ Single /\ SettledInv /\ PageInv

LEMMA PublishInit == Init => PublishInv
  BY StartInit DEF Init, PublishInv, Single, SettledInv, PageInv, Queued, InHand, Idle

LEMMA PublishImplies == PublishInv => PublishedIsSettled
<1> SUFFICES ASSUME PublishInv, NEW p \in published, NEW b \in InScope(p) PROVE ~Unsettled(b)
  BY DEF PublishedIsSettled
<1>1. settled[b] # "none" /\ main # "starting" /\ b \in Blocks
  BY DEF PublishInv, PageInv, StartInv, InScope
<1> QED
  BY <1>1 DEF PublishInv, SettledInv, Unsettled, Queued, InHand, Contains

\* A thread gets a block in hand only when it takes it from the queue.
LEMMA Hands ==
    ASSUME TypeInv, NEW w \in Workers, Thread(w), ~Take(w)
    PROVE  /\ queue' = queue
           /\ \A v \in Workers, b \in Blocks : InHand(v, b)' => InHand(v, b)
<1>0. worker \in [Workers -> States]
  BY DEF TypeInv, TypeOK, States, Places
<1>1. queue' = queue
  BY DEF Thread, Settle, Render, ReadRow, WriteRow, Publish, Composed, ComposeRaises, Finish
<1>2. SUFFICES worker'[w].at \in {"rendering", "rendered", "committing"} =>
          worker[w].at \in {"rendering", "rendered", "committing"} /\ worker'[w].block = worker[w].block
  BY <1>1, Frame DEF InHand
<1>3. CASE Settle(w)
  <2>1. worker'[w] = [worker[w] EXCEPT !.at = "publishing", !.todo = {HomeOf(w)}]
    BY <1>0, <1>3 DEF Settle, Become
  <2>2. worker'[w].at = "publishing"
    BY <1>0, <2>1 DEF States
  <2> QED
    BY <2>2
<1>4. CASE Render(w)
  <2>1. PICK p \in Pages : worker'[w] = [worker[w] EXCEPT !.at = "rendered", !.land = p]
    BY <1>0, <1>4 DEF Render, Become
  <2>2. worker'[w].block = worker[w].block
    BY <1>0, <2>1 DEF States
  <2> QED
    BY <1>4, <2>2 DEF Render, At
<1>5. CASE ReadRow(w)
  <2>1. worker'[w] = [worker[w] EXCEPT !.at = "committing", !.copy = patch]
    BY <1>0, <1>5 DEF ReadRow, Become
  <2>2. worker'[w].block = worker[w].block
    BY <1>0, <2>1 DEF States
  <2> QED
    BY <1>5, <2>2 DEF ReadRow, At
<1>6. CASE WriteRow(w)
  <2>1. worker'[w].at = "publishing"
    BY <1>0, <1>6 DEF WriteRow, Become, Idle
  <2> QED
    BY <2>1
<1>7. CASE Publish(w)
  <2>1. PICK p \in worker[w].todo :
           \/ worker'[w] = [worker[w] EXCEPT !.todo = @ \ {p}]
           \/ worker'[w] = Idle
           \/ worker'[w] = [worker[w] EXCEPT !.at = "composing", !.page = p, !.copy = patch, !.shows = Stamped(p)]
    BY <1>0, <1>7 DEF Publish, Become
  <2>2. worker[w].at = "publishing"
    BY <1>7 DEF Publish, At
  <2>3. CASE worker'[w] = [worker[w] EXCEPT !.todo = @ \ {p}]
    <3>1. worker'[w].at = "publishing"
      BY <1>0, <2>2, <2>3 DEF States
    <3> QED
      BY <3>1
  <2>4. CASE worker'[w] = Idle
    BY <2>4 DEF Idle
  <2>5. CASE worker'[w] = [worker[w] EXCEPT !.at = "composing", !.page = p, !.copy = patch, !.shows = Stamped(p)]
    <3>1. worker'[w].at = "composing"
      BY <1>0, <2>5 DEF States
    <3> QED
      BY <3>1
  <2> QED
    BY <2>1, <2>3, <2>4, <2>5
<1>8. CASE Composed(w)
  <2>1. worker'[w] = [worker[w] EXCEPT !.at = "publishing", !.todo = @ \ {worker[w].page}, !.page = None,
                                       !.copy = Idle.copy, !.shows = {}]
    BY <1>0, <1>8 DEF Composed, Become
  <2>2. worker'[w].at = "publishing"
    BY <1>0, <2>1 DEF States
  <2> QED
    BY <2>2
<1>9. CASE ComposeRaises(w) \/ Finish(w)
  BY <1>0, <1>9 DEF ComposeRaises, Finish, Become, Idle
<1> QED
  BY <1>3, <1>4, <1>5, <1>6, <1>7, <1>8, <1>9 DEF Thread

\* Taking the head of the queue.
LEMMA Taken ==
    ASSUME TypeInv, NEW w \in Workers, Take(w)
    PROVE  /\ queue # <<>> /\ queue' = Tail(queue) /\ emitted' = emitted /\ settled' = settled
           /\ Len(queue') = Len(queue) - 1 /\ Len(queue) \in Nat
           /\ \A i \in 1..Len(queue') : queue'[i] = queue[i + 1] /\ i + 1 \in 1..Len(queue)
           /\ 1 \in 1..Len(queue) /\ Head(queue) = queue[1]
           /\ \A v \in Workers, b \in Blocks :
                  InHand(v, b)' => InHand(v, b) \/ (v = w /\ b = Head(queue))
           /\ \A b \in Blocks : ~InHand(w, b)
<1>1. queue # <<>> /\ queue' = Tail(queue) /\ emitted' = emitted /\ settled' = settled /\ worker[w].at = "idle"
  BY DEF Take, At, tables
<1>2. /\ Len(queue') = Len(queue) - 1 /\ Len(queue) \in Nat
      /\ \A i \in 1..Len(queue') : queue'[i] = queue[i + 1] /\ i + 1 \in 1..Len(queue)
      /\ 1 \in 1..Len(queue) /\ Head(queue) = queue[1]
  BY <1>1 DEF TypeInv, TypeOK
<1>3. \A b \in Blocks : ~InHand(w, b)
  BY <1>1 DEF InHand
<1>4. ASSUME NEW v \in Workers, NEW b \in Blocks, InHand(v, b)'
      PROVE  InHand(v, b) \/ (v = w /\ b = Head(queue))
  <2>1. CASE over
    BY <1>4, <2>1 DEF Take, InHand
  <2>2. CASE ~over
    <3>1. worker' = [worker EXCEPT ![w] = [Idle EXCEPT !.at = "rendering", !.block = Head(queue)]]
      BY <2>2 DEF Take, Become
    <3> QED
      BY <1>4, <3>1 DEF InHand, Idle, TypeInv, TypeOK
  <2> QED
    BY <2>1, <2>2
<1> QED
  BY <1>1, <1>2, <1>3, <1>4

\* The main thread adds a block it had not seen, or empties the queue.
LEMMA Fed ==
    ASSUME TypeInv, NEW b \in Blocks, Emit(b)
    PROVE  /\ b \notin emitted /\ emitted' = emitted \cup {b} /\ UNCHANGED <<worker, tables>>
           /\ \/ queue' = <<>>
              \/ /\ Len(queue') = Len(queue) + 1 /\ Len(queue) \in Nat
                 /\ \A i \in 1..Len(queue) : queue'[i] = queue[i]
                 /\ queue'[Len(queue) + 1] = b
<1>1. b \notin emitted /\ emitted' = emitted \cup {b} /\ UNCHANGED <<worker, tables>>
  BY DEF Emit
<1>2. queue' = <<>> \/ queue' = Append(queue, b)
  BY DEF Emit
<1>3. queue \in Seq(Blocks) /\ Len(queue) \in Nat
  BY LenProperties DEF TypeInv, TypeOK
<1>4. CASE queue' = Append(queue, b)
  BY <1>1, <1>3, <1>4, AppendProperties
<1> QED
  BY <1>1, <1>2, <1>4

LEMMA SingleNext == TypeInv /\ PublishInv /\ [Next]_vars => Single'
<1> SUFFICES ASSUME TypeInv, PublishInv, [Next]_vars PROVE Single'
  OBVIOUS
<1>0. Single
  BY DEF PublishInv
<1>1. CASE UNCHANGED <<worker, queue, emitted>>
  BY <1>0, <1>1 DEF Single, Queued, InHand
<1>2. CASE Start \/ JobEnds \/ Join \/ Flush \/ FlushEnds \/ Terminated \/ UNCHANGED vars
  BY <1>1, <1>2 DEF Start, JobEnds, Join, Flush, FlushEnds, Terminated, vars, poolVars
<1>3. CASE TranslatorEnds
  <2>1. UNCHANGED <<worker, emitted>> /\ (queue' = queue \/ queue' = <<>>)
    BY <1>3 DEF TranslatorEnds
  <2>2. CASE queue' = <<>>
    <3>1. Len(queue') = 0
      BY <2>2
    <3> QED
      BY <1>0, <2>1, <3>1 DEF Single, Queued, InHand
  <2> QED
    BY <1>1, <2>1, <2>2
<1>4. ASSUME NEW b \in Blocks, Emit(b) PROVE Single'
  <2>1. /\ b \notin emitted /\ emitted' = emitted \cup {b} /\ worker' = worker
        /\ \/ queue' = <<>>
           \/ /\ Len(queue') = Len(queue) + 1 /\ Len(queue) \in Nat
              /\ \A i \in 1..Len(queue) : queue'[i] = queue[i]
              /\ queue'[Len(queue) + 1] = b
    BY <1>4, Fed
  <2>2. \A c \in Blocks : Queued(c)' => Queued(c) \/ c = b
    BY <2>1 DEF Queued
  <2>3. ~Queued(b)
    BY <1>0, <2>1 DEF Single
  <2>4. \A i, j \in 1..Len(queue') : queue'[i] = queue'[j] => i = j
    BY <1>0, <2>1, <2>3 DEF Single, Queued
  <2> QED
    BY <1>0, <2>1, <2>2, <2>4 DEF Single, InHand
<1>5. ASSUME NEW w \in Workers, Take(w) PROVE Single'
  <2> DEFINE b == Head(queue)
  <2>1. /\ Len(queue') = Len(queue) - 1 /\ Len(queue) \in Nat /\ emitted' = emitted
        /\ \A i \in 1..Len(queue') : queue'[i] = queue[i + 1] /\ i + 1 \in 1..Len(queue)
        /\ 1 \in 1..Len(queue) /\ b = queue[1]
        /\ \A v \in Workers, c \in Blocks : InHand(v, c)' => InHand(v, c) \/ (v = w /\ c = b)
    BY <1>5, Taken
  <2>2. \A c \in Blocks : Queued(c)' => Queued(c) /\ c # b
    BY <1>0, <2>1 DEF Queued, Single
  <2>3. Queued(b) /\ b \in Blocks
    BY <2>1 DEF Queued, TypeInv, TypeOK
  <2>4. \A i, j \in 1..Len(queue') : queue'[i] = queue'[j] => i = j
    <3> SUFFICES ASSUME NEW i \in 1..Len(queue'), NEW j \in 1..Len(queue'), queue'[i] = queue'[j] PROVE i = j
      OBVIOUS
    <3>1. queue[i + 1] = queue[j + 1] /\ i + 1 \in 1..Len(queue) /\ j + 1 \in 1..Len(queue)
      BY <2>1
    <3>2. i + 1 = j + 1
      BY <1>0, <3>1 DEF Single
    <3> QED
      BY <2>1, <3>2
  <2>5. \A v \in Workers, c \in Blocks : InHand(v, c)' => c \in emitted' /\ ~Queued(c)'
    BY <1>0, <2>1, <2>2, <2>3 DEF Single
  <2>6. \A u, v \in Workers, c \in Blocks : InHand(u, c)' /\ InHand(v, c)' => u = v
    BY <1>0, <2>1, <2>3 DEF Single
  <2>7. \A c \in Blocks : Queued(c)' => c \in emitted'
    BY <1>0, <2>1, <2>2 DEF Single
  <2> QED
    BY <2>4, <2>5, <2>6, <2>7 DEF Single
<1>6. ASSUME NEW w \in Workers, Thread(w), ~Take(w) PROVE Single'
  <2>1. queue' = queue /\ emitted' = emitted /\ \A v \in Workers, b \in Blocks : InHand(v, b)' => InHand(v, b)
    BY <1>6, Hands, ThreadMain
  <2> QED
    BY <1>0, <2>1 DEF Single, Queued
<1> QED
  BY <1>2, <1>3, <1>4, <1>5, <1>6 DEF Next, Thread

LEMMA SettledNext == TypeInv /\ PublishInv /\ [Next]_vars => SettledInv'
<1> SUFFICES ASSUME TypeInv, PublishInv, [Next]_vars, main' # "starting", NEW b \in Blocks, settled'[b] # "none"
             PROVE  (b \in emitted /\ ~Queued(b) /\ \A w \in Workers : ~InHand(w, b))'
  BY DEF SettledInv
<1>1. main # "starting" /\ settled[b] # "none" =>
          b \in emitted /\ ~Queued(b) /\ \A w \in Workers : ~InHand(w, b)
  BY DEF PublishInv, SettledInv
<1>2. CASE Start
  BY <1>2 DEF Start
<1>3. CASE UNCHANGED <<worker, queue, emitted, settled>> /\ main # "starting"
  BY <1>1, <1>3 DEF Queued, InHand
<1>4. CASE JobEnds \/ Join \/ Flush \/ FlushEnds \/ Terminated \/ UNCHANGED vars
  <2>1. UNCHANGED <<worker, queue, emitted>> /\ main # "starting"
    BY <1>4 DEF JobEnds, Join, Flush, FlushEnds, Terminated, vars, poolVars
  <2>2. UNCHANGED settled
    BY <1>4 DEF JobEnds, Join, Flush, FlushEnds, Terminated, vars, tables, Compose
  <2> QED
    BY <1>3, <2>1, <2>2
<1>5. CASE TranslatorEnds
  <2>1. UNCHANGED <<worker, emitted, settled>> /\ (queue' = queue \/ queue' = <<>>) /\ main # "starting"
    BY <1>5 DEF TranslatorEnds, tables
  <2>2. CASE queue' = <<>>
    <3>1. Len(queue') = 0
      BY <2>2
    <3> QED
      BY <1>1, <2>1, <3>1 DEF Queued, InHand
  <2> QED
    BY <1>3, <2>1, <2>2
<1>6. ASSUME NEW c \in Blocks, Emit(c)
      PROVE  (b \in emitted /\ ~Queued(b) /\ \A w \in Workers : ~InHand(w, b))'
  <2>1. /\ c \notin emitted /\ emitted' = emitted \cup {c} /\ worker' = worker /\ settled' = settled
        /\ main # "starting"
        /\ \/ queue' = <<>>
           \/ /\ Len(queue') = Len(queue) + 1 /\ Len(queue) \in Nat
              /\ \A i \in 1..Len(queue) : queue'[i] = queue[i]
              /\ queue'[Len(queue) + 1] = c
    BY <1>6, Fed DEF tables, Emit
  <2>2. b \in emitted /\ ~Queued(b) /\ \A w \in Workers : ~InHand(w, b)
    BY <1>1, <2>1
  <2>3. ~Queued(b)'
    BY <2>1, <2>2 DEF Queued
  <2> QED
    BY <2>1, <2>2, <2>3 DEF InHand
<1>7. ASSUME NEW w \in Workers, Take(w)
      PROVE  (b \in emitted /\ ~Queued(b) /\ \A v \in Workers : ~InHand(v, b))'
  <2>1. /\ emitted' = emitted /\ settled' = settled
        /\ \A i \in 1..Len(queue') : queue'[i] = queue[i + 1] /\ i + 1 \in 1..Len(queue)
        /\ 1 \in 1..Len(queue) /\ Head(queue) = queue[1]
        /\ \A v \in Workers, c \in Blocks : InHand(v, c)' => InHand(v, c) \/ (v = w /\ c = Head(queue))
    BY <1>7, Taken
  <2>2. main # "starting"
    BY <1>7, ThreadMain DEF Thread
  <2>3. b \in emitted /\ ~Queued(b) /\ \A v \in Workers : ~InHand(v, b)
    BY <1>1, <2>1, <2>2
  <2>4. ~Queued(b)' /\ b # Head(queue)
    BY <2>1, <2>3 DEF Queued
  <2> QED
    BY <2>1, <2>3, <2>4
<1>8. ASSUME NEW w \in Workers, Thread(w), ~Take(w)
      PROVE  (b \in emitted /\ ~Queued(b) /\ \A v \in Workers : ~InHand(v, b))'
  <2>1. /\ queue' = queue /\ emitted' = emitted /\ main # "starting"
        /\ \A v \in Workers, c \in Blocks : InHand(v, c)' => InHand(v, c)
    BY <1>8, Hands, ThreadMain
  <2>2. CASE settled[b] # "none"
    BY <1>1, <2>1, <2>2 DEF Queued
  <2>3. CASE settled[b] = "none"
    <3>1. (Settle(w) \/ WriteRow(w)) /\ b = worker[w].block
      BY <1>8, <2>3 DEF Thread, Settle, Render, ReadRow, WriteRow, Publish, Composed, ComposeRaises, Finish,
         tables, TypeInv, TypeOK, Compose
    <3>2. InHand(w, b)
      BY <3>1 DEF InHand, Settle, WriteRow, At
    <3>3. b \in emitted /\ ~Queued(b) /\ \A v \in Workers : InHand(v, b) => v = w
      BY <3>2 DEF PublishInv, Single
    <3>4. worker \in [Workers -> States]
      BY DEF TypeInv, TypeOK, States, Places
    <3>5. worker'[w].at = "publishing"
      <4>1. CASE Settle(w)
        <5>1. worker'[w] = [worker[w] EXCEPT !.at = "publishing", !.todo = {HomeOf(w)}]
          BY <3>4, <4>1 DEF Settle, Become
        <5> QED
          BY <3>4, <5>1 DEF States
      <4>2. CASE WriteRow(w)
        BY <3>4, <4>2 DEF WriteRow, Become, Idle
      <4> QED
        BY <3>1, <4>1, <4>2
    <3>6. ~InHand(w, b)'
      BY <3>5 DEF InHand
    <3> QED
      BY <2>1, <3>3, <3>6 DEF Queued
  <2> QED
    BY <2>2, <2>3
<1> QED
  BY <1>2, <1>4, <1>5, <1>6, <1>7, <1>8 DEF Next, Thread

LEMMA PageNext == TypeInv /\ PublishInv /\ [Next]_vars => PageInv'
<1> SUFFICES ASSUME TypeInv, PublishInv, [Next]_vars PROVE PageInv'
  OBVIOUS
<1>0. PageInv
  BY DEF PublishInv
<1>1. CASE Start
  BY <1>1 DEF PublishInv, StartInv, Start, PageInv, poolVars, memory
<1>2. CASE UNCHANGED <<worker, published, settled>>
  BY <1>0, <1>2 DEF PageInv
<1>3. CASE JobEnds \/ (\E b \in Blocks : Emit(b)) \/ TranslatorEnds \/ Join \/ Flush \/ FlushEnds \/ Terminated \/ UNCHANGED vars
  BY <1>2, <1>3 DEF JobEnds, Emit, TranslatorEnds, Join, Flush, FlushEnds, Terminated, vars, poolVars, memory, tables, Compose
<1>4. ASSUME NEW w \in Workers, Thread(w) PROVE PageInv'
  <2>0. worker \in [Workers -> States]
    BY DEF TypeInv, TypeOK, States, Places
  <2>1. \A b \in Blocks : settled[b] # "none" => settled'[b] # "none"
    BY <1>4 DEF Thread, Take, Settle, Render, ReadRow, WriteRow, Publish, Composed, ComposeRaises, Finish,
       tables, TypeInv, TypeOK, Compose
  <2>2. ASSUME NEW p \in published' PROVE \A b \in InScope(p) : settled'[b] # "none"
    <3>1. CASE p \in published
      BY <1>0, <2>1, <3>1 DEF PageInv, InScope
    <3>2. CASE p \notin published
      <4>1. Composed(w) /\ p = worker[w].page
        BY <1>4, <2>2, <3>2 DEF Thread, Take, Settle, Render, ReadRow, WriteRow, Publish, Composed, ComposeRaises,
           Finish, memory
      <4> QED
        BY <1>0, <2>1, <4>1 DEF PageInv, InScope, Composed, At
    <3> QED
      BY <3>1, <3>2
  <2>3. ASSUME NEW v \in Workers, worker'[v].at = "composing"
        PROVE  \A b \in InScope(worker'[v].page) : settled'[b] # "none"
    <3>1. CASE worker'[v] = worker[v]
      BY <1>0, <2>1, <2>3, <3>1 DEF PageInv, InScope
    <3>2. CASE v = w /\ Publish(w)
      <4>1. PICK p \in worker[w].todo :
               \/ worker'[w] = [worker[w] EXCEPT !.todo = @ \ {p}]
               \/ worker'[w] = Idle
               \/ /\ worker'[w] = [worker[w] EXCEPT !.at = "composing", !.page = p, !.copy = patch, !.shows = Stamped(p)]
                  /\ Due(p, p # HomeOf(w))
        BY <2>0, <3>2 DEF Publish, Become
      <4>2. worker[w].at = "publishing"
        BY <3>2 DEF Publish, At
      <4>3. CASE worker'[w] = [worker[w] EXCEPT !.todo = @ \ {p}]
        <5>1. worker'[w].at = "publishing"
          BY <2>0, <4>2, <4>3 DEF States
        <5> QED
          BY <2>3, <3>2, <5>1
      <4>4. CASE worker'[w] = Idle
        BY <2>3, <3>2, <4>4 DEF Idle
      <4>5. CASE /\ worker'[w] = [worker[w] EXCEPT !.at = "composing", !.page = p, !.copy = patch, !.shows = Stamped(p)]
                 /\ Due(p, p # HomeOf(w))
        <5>1. worker'[w].page = p
          BY <2>0, <4>5 DEF States
        <5> QED
          BY <2>1, <3>2, <4>5, <5>1 DEF Due, Complete, InScope
      <4> QED
        BY <4>1, <4>3, <4>4, <4>5
    <3>3. CASE v = w /\ ~Publish(w)
      <4>1. CASE Take(w) \/ WriteRow(w) \/ ComposeRaises(w) \/ Finish(w)
        <5>1. ASSUME Take(w) PROVE worker'[w] = worker[w] \/ worker'[w].at # "composing"
          BY <2>0, <5>1 DEF Take, Become, Idle
        <5>2. ASSUME WriteRow(w) PROVE worker'[w].at # "composing"
          BY <2>0, <5>2 DEF WriteRow, Become, Idle
        <5>3. ASSUME ComposeRaises(w) \/ Finish(w) PROVE worker'[w].at # "composing"
          BY <2>0, <5>3 DEF ComposeRaises, Finish, Become, Idle
        <5> QED
          BY <2>3, <3>1, <3>3, <4>1, <5>1, <5>2, <5>3
      <4>2. CASE Settle(w) \/ Render(w) \/ ReadRow(w) \/ Composed(w)
        <5>1. PICK at \in {"publishing", "rendered", "committing"} : worker'[w].at = at
          BY <2>0, <4>2 DEF Settle, Render, ReadRow, Composed, Become, States
        <5> QED
          BY <2>3, <3>3, <5>1
      <4> QED
        BY <1>4, <3>3, <4>1, <4>2 DEF Thread
    <3> QED
      BY <1>4, <3>1, <3>2, <3>3, Frame
  <2> QED
    BY <2>2, <2>3 DEF PageInv
<1> QED
  BY <1>1, <1>3, <1>4 DEF Next

\* A page that went out as complete waits for none of its blocks.
THEOREM PublishedHolds == Spec => []PublishedIsSettled
<1>1. Init => TypeInv /\ PublishInv
  BY TypeInit, PublishInit
<1>2. TypeInv /\ PublishInv /\ [Next]_vars => (TypeInv /\ PublishInv)'
  BY TypeNext, StartNext, SingleNext, SettledNext, PageNext DEF PublishInv
<1> QED
  BY <1>1, <1>2, PublishImplies, PTL DEF Spec

-----------------------------------------------------------------------------
(* No complete page is forgotten *)

Undisturbed == ~raised /\ ~over /\ main \notin {"failing", "failed"}
\* A thread is still to look at the page.
Pending(w, p) == worker[w].at \in {"publishing", "composing"} /\ p \in worker[w].todo

ServedInv ==
    /\ main = "starting" => translated = {}
    /\ Undisturbed =>
        /\ \A b \in translated : settled[b] # "none" \/ Queued(b) \/ \E w \in Workers : InHand(w, b)
        /\ \A p \in Pages : Complete(p) => p \in published \/ \E w \in Workers : Pending(w, p)

LEMMA ServedInit == Init => ServedInv
  BY DEF Init, ServedInv, Complete, InScope

LEMMA ServedImplies == TypeInv /\ ServedInv => NoPageForgotten
<1> SUFFICES ASSUME TypeInv, ServedInv, Quiet, Undisturbed, NEW p \in Pages,
                    InScope(p) # {}, InScope(p) \subseteq translated
             PROVE  p \in published
  BY DEF NoPageForgotten, Undisturbed
<1>1. \A b \in Blocks : ~Queued(b)
  BY DEF Quiet, Queued
<1>2. \A w \in Workers : worker[w].at = "idle"
  BY DEF Quiet
<1>3. \A b \in InScope(p) : settled[b] # "none"
  BY <1>1, <1>2 DEF ServedInv, InHand, InScope
<1> QED
  BY <1>2, <1>3 DEF ServedInv, Complete, Pending

LEMMA ServedNext == TypeInv /\ PublishInv /\ ServedInv /\ [Next]_vars => ServedInv'
<1> SUFFICES ASSUME TypeInv, PublishInv, ServedInv, [Next]_vars PROVE ServedInv'
  OBVIOUS
<1>0. main' = "starting" => main = "starting" /\ translated' = translated
  <2>1. ASSUME NEW w \in Workers, Thread(w) PROVE main' = main /\ translated' = translated
    BY <2>1, ThreadMain
  <2> QED
    BY <2>1 DEF Next, Start, JobEnds, Emit, TranslatorEnds, Join, Flush, FlushEnds, Terminated, vars
<1>1. CASE Start
  <2>1. translated' = {} /\ settled' = [b \in Blocks |-> "none"]
    BY <1>1 DEF Start, ServedInv
  <2> QED
    BY <1>1, <2>1 DEF Start, ServedInv, Complete, InScope
<1> SUFFICES ASSUME ~Start, Undisturbed' PROVE
        /\ (\A b \in translated : settled[b] # "none" \/ Queued(b) \/ \E w \in Workers : InHand(w, b))'
        /\ (\A p \in Pages : Complete(p) => p \in published \/ \E w \in Workers : Pending(w, p))'
  BY <1>0, <1>1 DEF ServedInv
<1>2. CASE UNCHANGED <<translated, queue, worker, settled, published>> /\ Undisturbed
  BY <1>2 DEF ServedInv, Queued, InHand, Pending, Complete
<1>3. CASE JobEnds \/ TranslatorEnds \/ Join \/ Flush \/ FlushEnds \/ Terminated \/ UNCHANGED vars
  <2>1. UNCHANGED <<translated, worker, published>> /\ (main # "failing" => UNCHANGED queue \/ main' = "failing")
    BY <1>3 DEF JobEnds, TranslatorEnds, Join, Flush, FlushEnds, Terminated, vars, poolVars, memory
  <2>2. UNCHANGED settled
    BY <1>3 DEF JobEnds, TranslatorEnds, Join, Flush, FlushEnds, Terminated, vars, tables
  <2>3. Undisturbed /\ main' # "failing"
    BY <1>3 DEF Undisturbed, JobEnds, TranslatorEnds, Join, Flush, FlushEnds, Terminated, vars, memory
  <2>4. UNCHANGED queue
    BY <2>1, <2>3 DEF Undisturbed
  <2> QED
    BY <1>2, <2>1, <2>2, <2>3, <2>4
<1>4. ASSUME NEW b \in Blocks, Emit(b)
      PROVE /\ (\A c \in translated : settled[c] # "none" \/ Queued(c) \/ \E w \in Workers : InHand(w, c))'
            /\ (\A p \in Pages : Complete(p) => p \in published \/ \E w \in Workers : Pending(w, p))'
  <2>1. ~over /\ Undisturbed /\ main # "starting"
    BY <1>4 DEF Undisturbed, Emit, memory
  <2>2. /\ translated' = translated \cup ({b} \ Manual) /\ queue' = Append(queue, b)
        /\ UNCHANGED <<worker, settled, published>>
    BY <1>4, <2>1 DEF Emit, memory, tables
  <2>3. /\ Len(queue') = Len(queue) + 1 /\ Len(queue) \in Nat
        /\ \A i \in 1..Len(queue) : queue'[i] = queue[i]
        /\ queue'[Len(queue) + 1] = b
    <3>1. queue \in Seq(Blocks) /\ Len(queue) \in Nat
      BY LenProperties DEF TypeInv, TypeOK
    <3> QED
      BY <2>2, <3>1, AppendProperties
  <2>4. \A c \in Blocks : Queued(c) => Queued(c)'
    BY <2>3 DEF Queued
  <2>5. Queued(b)'
    BY <2>3 DEF Queued
  <2>6. settled[b] = "none"
    BY <1>4, <2>1 DEF PublishInv, SettledInv, Emit
  <2>7. \A p \in Pages : Complete(p)' => Complete(p)
    BY <2>2, <2>6 DEF Complete
  <2>8. translated \in SUBSET Blocks
    BY DEF TypeInv, TypeOK
  <2>9. \A c \in translated' : settled'[c] # "none" \/ Queued(c)' \/ \E w \in Workers : InHand(w, c)'
    BY <2>1, <2>2, <2>4, <2>5, <2>8 DEF ServedInv, InHand
  <2>10. \A p \in Pages : Complete(p)' => p \in published' \/ \E w \in Workers : Pending(w, p)'
    BY <2>1, <2>2, <2>7 DEF ServedInv, Pending
  <2> QED
    BY <2>9, <2>10
<1>5. ASSUME NEW w \in Workers, Thread(w)
      PROVE /\ (\A c \in translated : settled[c] # "none" \/ Queued(c) \/ \E v \in Workers : InHand(v, c))'
            /\ (\A p \in Pages : Complete(p) => p \in published \/ \E v \in Workers : Pending(v, p))'
  <2>0. worker \in [Workers -> States]
    BY DEF TypeInv, TypeOK, States, Places
  <2>1. Undisturbed /\ translated' = translated /\ translated \in SUBSET Blocks
    <3>1. raised => raised'
      BY <1>5 DEF Thread, Take, Settle, Render, ReadRow, WriteRow, Publish, Composed, ComposeRaises, Finish, memory
    <3> QED
      BY <1>5, <3>1, ThreadMain DEF Undisturbed, TypeInv, TypeOK
  <2>2. ~over /\ ~raised'
    BY <2>1 DEF Undisturbed
  <2> SUFFICES ASSUME TRUE
      PROVE /\ \A c \in translated : settled'[c] # "none" \/ Queued(c)' \/ \E v \in Workers : InHand(v, c)'
            /\ \A p \in Pages : Complete(p)' => p \in published' \/ \E v \in Workers : Pending(v, p)'
    BY <2>1
  <2>3. /\ \A c \in translated : settled[c] # "none" \/ Queued(c) \/ \E v \in Workers : InHand(v, c)
        /\ \A p \in Pages : Complete(p) => p \in published \/ \E v \in Workers : Pending(v, p)
    BY <2>1 DEF ServedInv
  <2>4. \A v \in Workers \ {w} : worker'[v] = worker[v]
    BY <1>5, Frame
  <2>5. CASE Take(w)
    <3>1. /\ worker'[w].block = Head(queue) /\ worker'[w].at = "rendering" /\ worker[w].at = "idle"
          /\ queue' = Tail(queue) /\ queue # <<>> /\ UNCHANGED <<settled, published>>
      BY <2>0, <2>2, <2>5 DEF Take, Become, Idle, At, tables
    <3>2. ASSUME NEW c \in Blocks, Queued(c) PROVE Queued(c)' \/ c = Head(queue)
      <4>1. PICK i \in 1..Len(queue) : queue[i] = c
        BY <3>2 DEF Queued
      <4>2. i = 1 => c = Head(queue)
        BY <4>1 DEF TypeInv, TypeOK
      <4>3. i # 1 => i - 1 \in 1..Len(queue') /\ queue'[i - 1] = c
        BY <3>1, <4>1 DEF TypeInv, TypeOK
      <4> QED
        BY <4>2, <4>3 DEF Queued
    <3>3. \A c \in Blocks : c = Head(queue) => InHand(w, c)'
      BY <3>1 DEF InHand
    <3>4. \A v \in Workers, c \in Blocks : InHand(v, c) => InHand(v, c)'
      BY <2>4, <3>1 DEF InHand
    <3>5. \A v \in Workers, p \in Pages : Pending(v, p) => Pending(v, p)'
      BY <2>4, <3>1 DEF Pending
    <3>6. \A p \in Pages : Complete(p)' => Complete(p)
      BY <2>1, <3>1 DEF Complete
    <3> QED
      BY <2>1, <2>3, <3>1, <3>2, <3>3, <3>4, <3>5, <3>6
  <2>6. CASE Settle(w) \/ WriteRow(w)
    <3> DEFINE b == worker[w].block
    <3>1. b \in Blocks /\ HomeOf(w) = Home[b] /\ queue' = queue /\ published' = published
      BY <2>6 DEF Settle, WriteRow, At, TypeInv, ThreadInv, HomeOf, memory
    <3>2. worker'[w].at = "publishing" /\ HomeOf(w) \in worker'[w].todo
      <4>1. CASE Settle(w)
        <5>1. worker'[w] = [worker[w] EXCEPT !.at = "publishing", !.todo = {HomeOf(w)}]
          BY <2>0, <4>1 DEF Settle, Become
        <5> QED
          BY <2>0, <5>1 DEF States
      <4>2. CASE WriteRow(w)
        <5>1. worker' = [worker EXCEPT ![w] =
                   [Idle EXCEPT !.at = "publishing", !.block = b, !.todo = {HomeOf(w), worker[w].land}]]
          BY <2>2, <4>2 DEF WriteRow, Become, HomeOf
        <5> QED
          BY <2>0, <5>1 DEF Idle
      <4> QED
        BY <2>6, <4>1, <4>2
    <3>3. settled'[b] # "none" /\ \A c \in Blocks : c # b => settled'[c] = settled[c]
      BY <2>6, <3>1 DEF Settle, WriteRow, TypeInv, TypeOK
    <3>4. worker[w].at \notin {"publishing", "composing"}
      BY <2>6 DEF Settle, WriteRow, At
    <3>5. \A c \in Blocks : c # b /\ InHand(w, c) => FALSE
      BY DEF InHand
    <3>6. \A c \in translated : settled'[c] # "none" \/ Queued(c)' \/ \E v \in Workers : InHand(v, c)'
      BY <2>1, <2>3, <2>4, <3>1, <3>3, <3>5 DEF Queued, InHand
    <3>7. ASSUME NEW p \in Pages, Complete(p)' PROVE p \in published' \/ \E v \in Workers : Pending(v, p)'
      <4>1. CASE p = Home[b]
        BY <3>1, <3>2, <4>1 DEF Pending
      <4>2. CASE p # Home[b]
        <5>1. Complete(p)
          BY <2>1, <3>3, <3>7, <4>2 DEF Complete, InScope
        <5> QED
          BY <2>3, <2>4, <3>1, <3>4, <5>1 DEF Pending
      <4> QED
        BY <4>1, <4>2
    <3> QED
      BY <3>6, <3>7
  <2>7. CASE ~(Take(w) \/ Settle(w) \/ WriteRow(w))
    <3>1. queue' = queue /\ settled' = settled /\ published \subseteq published'
      BY <1>5, <2>7 DEF Thread, Render, ReadRow, Publish, Composed, ComposeRaises, Finish, memory, tables, Compose
    <3>2. \A b \in Blocks : InHand(w, b) => InHand(w, b)'
      <4>1. CASE Render(w)
        <5>1. PICK p \in Pages : worker'[w] = [worker[w] EXCEPT !.at = "rendered", !.land = p]
          BY <2>0, <4>1 DEF Render, Become
        <5>2. worker'[w].at = "rendered" /\ worker'[w].block = worker[w].block
          BY <2>0, <5>1 DEF States
        <5> QED
          BY <5>2 DEF InHand
      <4>2. CASE ReadRow(w)
        <5>1. worker'[w] = [worker[w] EXCEPT !.at = "committing", !.copy = patch]
          BY <2>0, <4>2 DEF ReadRow, Become
        <5>2. worker'[w].at = "committing" /\ worker'[w].block = worker[w].block
          BY <2>0, <5>1 DEF States
        <5> QED
          BY <5>2 DEF InHand
      <4>3. CASE Publish(w) \/ Composed(w) \/ ComposeRaises(w) \/ Finish(w)
        BY <4>3 DEF Publish, Composed, ComposeRaises, Finish, At, InHand
      <4> QED
        BY <1>5, <2>7, <4>1, <4>2, <4>3 DEF Thread
    <3>3. ASSUME NEW p \in Pages, Complete(p), Pending(w, p) PROVE p \in published' \/ Pending(w, p)'
      <4>1. CASE Publish(w)
        <5>1. PICK q \in worker[w].todo :
                 \/ ~Due(q, q # HomeOf(w)) /\ worker'[w] = [worker[w] EXCEPT !.todo = @ \ {q}]
                 \/ raised'
                 \/ worker'[w] = [worker[w] EXCEPT !.at = "composing", !.page = q, !.copy = patch, !.shows = Stamped(q)]
          BY <2>0, <4>1 DEF Publish, Become
        <5>2. worker[w].at = "publishing"
          BY <4>1 DEF Publish, At
        <5>3. CASE ~Due(q, q # HomeOf(w)) /\ worker'[w] = [worker[w] EXCEPT !.todo = @ \ {q}]
          <6>1. p = q => p \in published
            BY <3>3, <5>3 DEF Due
          <6>2. worker'[w].at = "publishing" /\ worker'[w].todo = worker[w].todo \ {q}
            BY <2>0, <5>2, <5>3 DEF States
          <6> QED
            BY <3>1, <3>3, <6>1, <6>2 DEF Pending
        <5>4. CASE worker'[w] = [worker[w] EXCEPT !.at = "composing", !.page = q, !.copy = patch, !.shows = Stamped(q)]
          <6>1. worker'[w].at = "composing" /\ worker'[w].todo = worker[w].todo
            BY <2>0, <5>4 DEF States
          <6> QED
            BY <3>3, <6>1 DEF Pending
        <5> QED
          BY <2>2, <5>1, <5>3, <5>4
      <4>2. CASE Composed(w)
        <5>1. worker'[w] = [worker[w] EXCEPT !.at = "publishing", !.todo = @ \ {worker[w].page}, !.page = None,
                                             !.copy = Idle.copy, !.shows = {}]
          BY <2>0, <4>2 DEF Composed, Become
        <5>2. worker'[w].at = "publishing" /\ worker'[w].todo = worker[w].todo \ {worker[w].page}
          BY <2>0, <5>1 DEF States
        <5>3. worker[w].page \in published'
          BY <4>2 DEF Composed
        <5> QED
          BY <3>3, <5>2, <5>3 DEF Pending
      <4>3. CASE Render(w) \/ ReadRow(w) \/ ComposeRaises(w) \/ Finish(w)
        BY <2>2, <3>3, <4>3 DEF Render, ReadRow, ComposeRaises, Finish, At, Pending
      <4> QED
        BY <1>5, <2>7, <4>1, <4>2, <4>3 DEF Thread
    <3>4. \A p \in Pages : Complete(p)' <=> Complete(p)
      BY <2>1, <3>1 DEF Complete
    <3>5. \A v \in Workers \ {w}, p \in Pages : Pending(v, p) => Pending(v, p)'
      BY <2>4 DEF Pending
    <3>6. \A v \in Workers \ {w}, b \in Blocks : InHand(v, b) => InHand(v, b)'
      BY <2>4 DEF InHand
    <3>7. \A b \in Blocks : Queued(b) => Queued(b)'
      BY <3>1 DEF Queued
    <3>8. \A c \in translated : settled'[c] # "none" \/ Queued(c)' \/ \E v \in Workers : InHand(v, c)'
      BY <2>1, <2>3, <3>1, <3>2, <3>6, <3>7
    <3> QED
      BY <2>3, <3>1, <3>3, <3>4, <3>5, <3>8
  <2> QED
    BY <2>5, <2>6, <2>7
<1> QED
  BY <1>3, <1>4, <1>5 DEF Next

\* The threads that settle the last blocks of a page do not each leave its
\* composition to the other.
THEOREM ForgottenHolds == Spec => []NoPageForgotten
<1>1. Init => TypeInv /\ PublishInv /\ ServedInv
  BY TypeInit, PublishInit, ServedInit
<1>2. TypeInv /\ PublishInv /\ ServedInv /\ [Next]_vars => (TypeInv /\ PublishInv /\ ServedInv)'
  BY TypeNext, StartNext, SingleNext, SettledNext, PageNext, ServedNext DEF PublishInv
<1> QED
  BY <1>1, <1>2, ServedImplies, PTL DEF Spec

-----------------------------------------------------------------------------
(* A page shows the patches that landed on it *)

\* Thread w composes p; its picture of p holds b; it has committed b and is
\* still to look at the page p on which b landed, which is not b's own.
Composes(w, p) == worker[w].at = "composing" /\ worker[w].page = p
Shows(w, b, p) == Composes(w, p) /\ b \in worker[w].shows
Waits(w, b, p) ==
    /\ worker[w].block = b /\ p \in worker[w].todo /\ p # Home[b]
    /\ worker[w].at = "publishing" \/ (worker[w].at = "composing" /\ worker[w].page # p)

Waiting(b, p) == \E w \in Workers : Waits(w, b, p)
Showing(b, p) == \E w \in Workers : Shows(w, b, p)

\* close flushes only when the threads have stopped.
CloseInv ==
    /\ main \in {"flushing", "done"} => Quiet
    /\ main \notin {"flushing", "done"} => flushed = 0

\* The pages that are published, or about to be, are translated.
TranslatedInv ==
    /\ \A p \in published : InScope(p) \subseteq translated
    /\ \A w \in Workers : worker[w].at = "composing" => InScope(worker[w].page) \subseteq translated

\* A block that landed on p is in the picture of p, or a thread brings it there.
Accounted(b, p) ==
    /\ p \in published \/ InScope(p) = {} => b \in picture[p] \/ Showing(b, p) \/ Waiting(b, p)
    /\ \A w \in Workers : Composes(w, p) => b \in worker[w].shows \/ Waiting(b, p)
    /\ \A i \in 1..flushed : records[i] = p => b \in picture[p]

Landed ==
    main # "starting" /\ ~raised /\ ~over =>
        \A b \in Blocks, p \in Pages : settled[b] = "ok" /\ patch[b] = p => Accounted(b, p)

ShownInv == PatchInv /\ PublishInv /\ CloseInv /\ TranslatedInv /\ Landed

LEMMA ShownInit == Init => ShownInv
  BY PatchInit, PublishInit DEF Init, ShownInv, CloseInv, TranslatedInv, Landed, Idle

LEMMA ShownImplies == TypeInv /\ ShownInv => PatchShown
<1> SUFFICES ASSUME TypeInv, ShownInv, ClosedToEnd, NEW b \in Blocks, settled[b] = "ok",
                    Contains(records, patch[b]) \/ InScope(patch[b]) = {}
             PROVE  b \in picture[patch[b]]
  BY DEF PatchShown
<1>1. patch[b] \in Pages
  BY DEF ShownInv, PatchInv, PatchKept, ClosedToEnd, TypeInv, TypeOK, Patches
<1>2. Accounted(b, patch[b])
  BY <1>1 DEF ShownInv, Landed, ClosedToEnd
<1>3. \A w \in Workers : worker[w].at = "idle"
  BY DEF ShownInv, CloseInv, ClosedToEnd, Quiet
<1>4. ~Showing(b, patch[b]) /\ ~Waiting(b, patch[b])
  BY <1>3 DEF Showing, Shows, Composes, Waiting, Waits
<1>5. CASE InScope(patch[b]) = {}
  BY <1>2, <1>4, <1>5 DEF Accounted
<1>6. CASE Contains(records, patch[b])
  <2>1. PICK i \in 1..Len(records) : records[i] = patch[b]
    BY <1>6 DEF Contains
  <2> QED
    BY <1>2, <2>1 DEF Accounted, ClosedToEnd
<1> QED
  BY <1>5, <1>6

LEMMA ThreadFlushed == ASSUME NEW w \in Workers, Thread(w) PROVE flushed' = flushed /\ (raised => raised')
<1>1. flushed' = flushed
  BY DEF Thread, Take, Settle, Render, ReadRow, WriteRow, Publish, Composed, ComposeRaises, Finish
<1>2. raised => raised'
  BY DEF Thread, Take, Settle, Render, ReadRow, WriteRow, Publish, Composed, ComposeRaises, Finish, memory
<1> QED
  BY <1>1, <1>2

LEMMA CloseNext == ShownInv /\ [Next]_vars => CloseInv'
<1> SUFFICES ASSUME ShownInv, [Next]_vars PROVE CloseInv'
  OBVIOUS
<1> USE DEF ShownInv, CloseInv
<1>1. CASE Start \/ JobEnds \/ (\E b \in Blocks : Emit(b)) \/ TranslatorEnds
  BY <1>1 DEF Start, JobEnds, Emit, TranslatorEnds, Quiet, poolVars
<1>2. CASE Join
  BY <1>2 DEF Join, Quiet, poolVars
<1>3. ASSUME NEW w \in Workers, Thread(w) PROVE CloseInv'
  <2>1. main \notin {"flushing", "done"}
    BY <1>3, IdleThread DEF Quiet
  <2>2. flushed' = flushed
    BY <1>3, ThreadFlushed
  <2> QED
    BY <1>3, <2>1, <2>2, ThreadMain
<1>4. CASE Flush \/ FlushEnds
  BY <1>4 DEF Flush, FlushEnds, Quiet, poolVars
<1>5. CASE Terminated \/ UNCHANGED vars
  BY <1>5 DEF Terminated, vars, poolVars, Quiet
<1> QED
  BY <1>1, <1>2, <1>3, <1>4, <1>5 DEF Next

\* The pages a thread may turn to.
LEMMA Published ==
    ASSUME TypeInv, NEW w \in Workers, Publish(w)
    PROVE  /\ worker[w].at = "publishing" /\ worker[w].block \in Blocks /\ UNCHANGED <<published, tables, flushed, records>>
           /\ \E p \in worker[w].todo :
              /\ p \in Pages /\ lock[p] = None
              /\ \/ /\ ~Due(p, p # HomeOf(w))
                    /\ worker'[w] = [worker[w] EXCEPT !.todo = @ \ {p}]
                    /\ worker'[w].at = "publishing" /\ worker'[w].block = worker[w].block
                    /\ worker'[w].todo = worker[w].todo \ {p}
                 \/ raised' /\ worker'[w].at = "idle"
                 \/ /\ Due(p, p # HomeOf(w))
                    /\ worker'[w].at = "composing" /\ worker'[w].block = worker[w].block
                    /\ worker'[w].todo = worker[w].todo /\ worker'[w].page = p
                    /\ worker'[w].shows = Stamped(p)
<1>0. worker \in [Workers -> States]
  BY DEF TypeInv, TypeOK, States, Places
<1>1. worker[w].at = "publishing" /\ worker[w].block \in Blocks /\ UNCHANGED <<published, tables, flushed, records>>
  BY DEF Publish, At, TypeInv, ThreadInv
<1>7. ASSUME NEW s, Become(w, s) PROVE worker'[w] = s
  BY <1>0, <1>7 DEF Become
<1>2. PICK p \in worker[w].todo :
         /\ lock[p] = None
         /\ \/ ~Due(p, p # HomeOf(w)) /\ worker'[w] = [worker[w] EXCEPT !.todo = @ \ {p}]
            \/ raised' /\ worker'[w] = Idle
            \/ /\ Due(p, p # HomeOf(w))
               /\ worker'[w] = [worker[w] EXCEPT !.at = "composing", !.page = p, !.copy = patch, !.shows = Stamped(p)]
  <2>1. PICK p \in worker[w].todo :
           /\ lock[p] = None
           /\ \/ ~Due(p, p # HomeOf(w)) /\ Become(w, [worker[w] EXCEPT !.todo = @ \ {p}])
              \/ raised' /\ Become(w, Idle)
              \/ /\ Due(p, p # HomeOf(w))
                 /\ Become(w, [worker[w] EXCEPT !.at = "composing", !.page = p, !.copy = patch, !.shows = Stamped(p)])
    BY DEF Publish
  <2> QED
    BY <1>7, <2>1
<1>3. p \in Pages
  BY <1>0, <1>2 DEF States
<1>4. ASSUME worker'[w] = [worker[w] EXCEPT !.todo = @ \ {p}]
      PROVE  /\ worker'[w].at = "publishing" /\ worker'[w].block = worker[w].block
             /\ worker'[w].todo = worker[w].todo \ {p}
  BY <1>0, <1>1, <1>4 DEF States
<1>5. ASSUME worker'[w] = [worker[w] EXCEPT !.at = "composing", !.page = p, !.copy = patch, !.shows = Stamped(p)]
      PROVE  /\ worker'[w].at = "composing" /\ worker'[w].block = worker[w].block
             /\ worker'[w].todo = worker[w].todo /\ worker'[w].page = p
             /\ worker'[w].shows = Stamped(p)
  BY <1>0, <1>5 DEF States
<1>6. Idle.at = "idle"
  BY DEF Idle
<1> QED
  BY <1>1, <1>2, <1>3, <1>4, <1>5, <1>6

\* What a thread is left with when its page is written.
LEMMA Written ==
    ASSUME TypeInv, NEW w \in Workers, Composed(w)
    PROVE  /\ worker[w].at = "composing" /\ worker[w].page \in Pages /\ UNCHANGED <<flushed, settled>>
           /\ worker'[w].at = "publishing" /\ worker'[w].block = worker[w].block
           /\ worker'[w].todo = worker[w].todo \ {worker[w].page}
           /\ published' = published \cup {worker[w].page}
           /\ picture' = [picture EXCEPT ![worker[w].page] = worker[w].shows]
<1>0. worker \in [Workers -> States]
  BY DEF TypeInv, TypeOK, States, Places
<1>1. worker'[w] = [worker[w] EXCEPT !.at = "publishing", !.todo = @ \ {worker[w].page}, !.page = None,
                                     !.copy = Idle.copy, !.shows = {}]
  BY <1>0 DEF Composed, Become
<1>2. worker'[w].at = "publishing" /\ worker'[w].block = worker[w].block
      /\ worker'[w].todo = worker[w].todo \ {worker[w].page}
  BY <1>0, <1>1 DEF States
<1> QED
  BY <1>2 DEF Composed, Compose, At, TypeInv, ThreadInv

\* The steps that neither turn to a page nor write one.
Plain(w) == Take(w) \/ Settle(w) \/ Render(w) \/ ReadRow(w) \/ Finish(w) \/ WriteRow(w)

LEMMA PlainStep ==
    ASSUME TypeInv, NEW w \in Workers, Plain(w)
    PROVE  /\ UNCHANGED <<published, picture, flushed>>
           /\ worker'[w] = worker[w] \/ worker'[w].at # "composing"
           /\ worker'[w] = worker[w] \/ (\A b \in Blocks, p \in Pages : ~Waits(w, b, p) /\ ~Shows(w, b, p))
<1>0. worker \in [Workers -> States]
  BY DEF TypeInv, TypeOK, States, Places
<1>7. ASSUME NEW s, Become(w, s) PROVE worker'[w] = s
  BY <1>0, <1>7 DEF Become
<1>1. CASE Take(w)
  <2>1. worker[w].at = "idle" /\ UNCHANGED <<published, picture, flushed>>
    BY <1>1 DEF Take, At, tables
  <2>2. worker'[w] = worker[w] \/ worker'[w].at # "composing"
    BY <1>0, <1>1 DEF Take, Become, Idle
  <2> QED
    BY <2>1, <2>2 DEF Waits, Shows, Composes
<1>2. CASE Settle(w)
  <2>1. worker'[w] = [worker[w] EXCEPT !.at = "publishing", !.todo = {HomeOf(w)}]
    BY <1>0, <1>2 DEF Settle, Become
  <2>2. worker'[w].at = "publishing"
    BY <1>0, <2>1 DEF States
  <2> QED
    BY <1>2, <2>2 DEF Settle, At, memory, Waits, Shows, Composes
<1>3. CASE Render(w)
  <2>1. PICK p \in Pages : worker'[w] = [worker[w] EXCEPT !.at = "rendered", !.land = p]
    <3>1. PICK p \in Pages : Become(w, [worker[w] EXCEPT !.at = "rendered", !.land = p])
      BY <1>3 DEF Render
    <3> QED
      BY <1>7, <3>1
  <2>2. worker'[w].at = "rendered"
    BY <1>0, <2>1 DEF States
  <2> QED
    BY <1>3, <2>2 DEF Render, At, memory, tables, Waits, Shows, Composes
<1>4. CASE ReadRow(w)
  <2>1. worker'[w] = [worker[w] EXCEPT !.at = "committing", !.copy = patch]
    BY <1>0, <1>4 DEF ReadRow, Become
  <2>2. worker'[w].at = "committing"
    BY <1>0, <2>1 DEF States
  <2> QED
    BY <1>4, <2>2 DEF ReadRow, At, memory, tables, Waits, Shows, Composes
<1>5. CASE Finish(w)
  <2>1. worker'[w].at = "idle"
    BY <1>0, <1>5 DEF Finish, Become, Idle
  <2> QED
    BY <1>5, <2>1 DEF Finish, At, memory, tables, Waits, Shows, Composes
<1>6. CASE WriteRow(w)
  <2>1. worker'[w].at = "publishing"
    <3>1. \E t \in SUBSET Pages : Become(w, [Idle EXCEPT !.at = "publishing", !.block = worker[w].block, !.todo = t])
      BY <1>6, HomeType DEF WriteRow, At, TypeInv, ThreadInv
    <3> QED
      BY <1>7, <3>1 DEF Idle
  <2> QED
    BY <1>6, <2>1 DEF WriteRow, At, memory, Waits, Shows, Composes
<1> QED
  BY <1>1, <1>2, <1>3, <1>4, <1>5, <1>6 DEF Plain

LEMMA TranslatedNext == TypeInv /\ ShownInv /\ [Next]_vars => TranslatedInv'
<1> SUFFICES ASSUME TypeInv, ShownInv, [Next]_vars PROVE TranslatedInv'
  OBVIOUS
<1>0. TranslatedInv
  BY DEF ShownInv
<1>1. CASE UNCHANGED <<worker, published>> /\ translated \subseteq translated'
  BY <1>0, <1>1 DEF TranslatedInv
<1>2. CASE ~\E w \in Workers : Thread(w)
  BY <1>1, <1>2 DEF Next, Start, JobEnds, Emit, TranslatorEnds, Join, Flush, FlushEnds, Terminated, vars, poolVars, memory
<1>3. ASSUME NEW w \in Workers, Thread(w) PROVE TranslatedInv'
  <2>0. translated' = translated /\ \A v \in Workers \ {w} : worker'[v] = worker[v]
    BY <1>3, ThreadMain, Frame
  <2>1. CASE Plain(w)
    BY <1>0, <2>0, <2>1, PlainStep DEF TranslatedInv
  <2>2. CASE Publish(w)
    <3>1. published' = published
      BY <2>2, Published
    <3>2. worker'[w].at = "composing" => InScope(worker'[w].page) \subseteq translated
      BY <2>2, Published DEF Due, Complete
    <3> QED
      BY <1>0, <2>0, <3>1, <3>2 DEF TranslatedInv
  <2>3. CASE Composed(w)
    BY <1>0, <2>0, <2>3, Written DEF TranslatedInv
  <2>4. CASE ComposeRaises(w)
    <3>1. worker'[w].at = "idle" /\ published' = published
      BY <2>4 DEF ComposeRaises, Become, Idle, TypeInv, TypeOK
    <3> QED
      BY <1>0, <2>0, <3>1 DEF TranslatedInv
  <2> QED
    BY <1>3, <2>1, <2>2, <2>3, <2>4 DEF Thread, Plain
<1> QED
  BY <1>2, <1>3

\* A step that leaves the pictures alone and takes nothing from the threads
\* that bring b to p.
LEMMA Carry ==
    ASSUME NEW b, NEW p, Accounted(b, p), flushed' = 0, UNCHANGED <<picture, published>>,
           \A v \in Workers : (Waits(v, b, p) => Waits(v, b, p)') /\ (Shows(v, b, p) => Shows(v, b, p)'),
           \A v \in Workers : Composes(v, p)' => Composes(v, p) /\ worker'[v].shows = worker[v].shows
    PROVE  Accounted(b, p)'
  BY DEF Accounted, Waiting, Showing

LEMMA LandedThread ==
    ASSUME TypeInv, ShownInv, NEW w \in Workers, Thread(w), main # "starting", ~raised', ~over',
           NEW b \in Blocks, NEW p \in Pages, settled'[b] = "ok", patch'[b] = p
    PROVE  Accounted(b, p)'
<1>1. ~raised /\ ~over
  BY ThreadMain, ThreadFlushed
<1>2. flushed' = 0
  <2>1. flushed' = flushed
    BY ThreadFlushed
  <2>2. main \notin {"flushing", "done"}
    BY IdleThread DEF ShownInv, CloseInv, Quiet
  <2> QED
    BY <2>1, <2>2 DEF ShownInv, CloseInv
<1>3. \A v \in Workers \ {w} : worker'[v] = worker[v]
  BY Frame
<1>4. \A v \in Workers \ {w} :
         /\ Waits(v, b, p)' <=> Waits(v, b, p)
         /\ Shows(v, b, p)' <=> Shows(v, b, p)
         /\ Composes(v, p)' <=> Composes(v, p)
  BY <1>3 DEF Waits, Shows, Composes
<1>5. settled[b] = "ok" /\ patch[b] = p => Accounted(b, p)
  BY <1>1 DEF ShownInv, Landed
\* One thread composes a page at a time.
<1>6. \A u, v \in Workers : Composes(u, p) /\ Composes(v, p) => u = v
  BY DEF ShownInv, PatchInv, LockInv, Fresh, Composes
<1>7. \A v \in Workers : Composes(v, p) => lock[p] # None
  <2>1. None \notin Workers
    BY ConstantsAssumption DEF ConstantsAssumption
  <2> QED
    BY <2>1 DEF ShownInv, PatchInv, LockInv, Fresh, Composes
<1>8. CASE Plain(w) /\ settled[b] = "ok" /\ patch[b] = p
  <2>1. Accounted(b, p) /\ UNCHANGED <<picture, published>>
    BY <1>5, <1>8, PlainStep
  <2>2. (Waits(w, b, p) => Waits(w, b, p)') /\ (Shows(w, b, p) => Shows(w, b, p)')
    BY <1>8, PlainStep DEF Waits, Shows, Composes
  <2>3. Composes(w, p)' => Composes(w, p) /\ worker'[w].shows = worker[w].shows
    BY <1>8, PlainStep DEF Composes
  <2>4. \A v \in Workers : Composes(v, p)' => Composes(v, p) /\ worker'[v].shows = worker[v].shows
    BY <1>3, <1>4, <2>3
  <2>5. \A v \in Workers : (Waits(v, b, p) => Waits(v, b, p)') /\ (Shows(v, b, p) => Shows(v, b, p)')
    BY <1>4, <2>2
  <2> QED
    BY <1>2, <2>1, <2>4, <2>5, Carry
<1>9. CASE Plain(w) /\ ~(settled[b] = "ok" /\ patch[b] = p)
  <2>1. WriteRow(w) /\ b = worker[w].block /\ p = worker[w].land
    <3>1. CASE WriteRow(w)
      <4>1. b # worker[w].block => settled'[b] = settled[b]
        BY <3>1 DEF WriteRow, TypeInv, TypeOK
      <4>2. b # worker[w].block => patch'[b] = patch[b]
        BY <3>1, WriteKeeps DEF ShownInv, PatchInv
      <4>3. b = worker[w].block => patch'[b] = worker[w].land
        BY <1>1, <3>1, WriteKeeps DEF ShownInv, PatchInv
      <4> QED
        BY <1>9, <3>1, <4>1, <4>2, <4>3
    <3>2. CASE ~WriteRow(w)
      <4>1. patch' = patch /\ (settled'[b] = "ok" => settled[b] = "ok")
        <5>1. CASE Settle(w)
          BY <5>1 DEF Settle, TypeInv, TypeOK
        <5>2. CASE Take(w) \/ Render(w) \/ ReadRow(w) \/ Finish(w)
          BY <5>2 DEF Take, Render, ReadRow, Finish, tables
        <5> QED
          BY <1>9, <3>2, <5>1, <5>2 DEF Plain
      <4> QED
        BY <1>9, <4>1
    <3> QED
      BY <3>1, <3>2
  <2>2. UNCHANGED <<published, picture>> /\ ~Composes(w, p)'
    <3>1. worker[w].at = "committing" /\ Plain(w)
      BY <2>1 DEF Plain, WriteRow, At
    <3> QED
      BY <3>1, PlainStep DEF Composes
  <2>3. CASE p # Home[b]
    <3>1. worker' = [worker EXCEPT ![w] = [Idle EXCEPT !.at = "publishing", !.block = b, !.todo = {Home[b], p}]]
      BY <1>1, <2>1 DEF WriteRow, Become
    <3>2. Waits(w, b, p)'
      BY <2>3, <3>1 DEF Waits, Idle, TypeInv, TypeOK
    <3> QED
      BY <1>2, <3>2 DEF Accounted, Waiting
  <2>4. CASE p = Home[b]
    <3>1. InHand(w, b) /\ b \in InScope(p)
      BY <2>1, <2>4 DEF InHand, InScope, WriteRow, At
    <3>2. settled[b] = "none"
      BY <3>1 DEF ShownInv, PublishInv, SettledInv
    <3>3. p \notin published /\ \A v \in Workers : ~Composes(v, p)
      BY <3>1, <3>2 DEF ShownInv, PublishInv, PageInv, Composes
    <3>4. \A v \in Workers : ~Composes(v, p)'
      BY <1>4, <2>2, <3>3
    <3> QED
      BY <1>2, <2>2, <3>1, <3>3, <3>4 DEF Accounted
  <2> QED
    BY <2>3, <2>4
<1>10. CASE Publish(w)
  <2>1. PICK q \in worker[w].todo :
          /\ q \in Pages /\ lock[q] = None
          /\ \/ /\ ~Due(q, q # HomeOf(w))
                /\ worker'[w].at = "publishing" /\ worker'[w].block = worker[w].block
                /\ worker'[w].todo = worker[w].todo \ {q}
             \/ /\ worker'[w].at = "composing" /\ worker'[w].block = worker[w].block
                /\ worker'[w].todo = worker[w].todo /\ worker'[w].page = q
                /\ worker'[w].shows = Stamped(q)
    BY <1>10, Published
  <2>2. worker[w].at = "publishing" /\ UNCHANGED <<published, tables>>
    BY <1>10, Published
  <2>3. Accounted(b, p) /\ patch[b] = p /\ picture' = picture
    BY <1>5, <2>2 DEF tables
  <2>4. ~Shows(w, b, p) /\ ~Composes(w, p)
    BY <2>2 DEF Shows, Composes
  <2>5. CASE worker'[w].at = "composing" /\ worker'[w].page = q /\ q = p /\ worker'[w].shows = Stamped(q)
    <3>1. \A v \in Workers : ~Composes(v, p)
      BY <1>7, <2>1, <2>5
    <3>2. \A v \in Workers : Composes(v, p)' => v = w
      BY <1>4, <3>1
    <3>3. b \in worker'[w].shows /\ Shows(w, b, p)'
      BY <2>3, <2>5 DEF Stamped, Shows, Composes
    <3> QED
      BY <1>2, <3>2, <3>3 DEF Accounted, Showing
  <2>6. CASE worker'[w].at = "publishing" /\ q = p /\ Waits(w, b, p) /\ ~Due(q, q # HomeOf(w))
    <3>1. p # HomeOf(w)
      BY <2>6 DEF Waits, HomeOf
    <3>2. ~Complete(p) /\ InScope(p) # {}
      BY <2>6, <3>1 DEF Due
    <3>3. p \notin published
      BY <3>2 DEF Complete, ShownInv, TranslatedInv, PublishInv, PageInv
    <3>4. \A v \in Workers : ~Composes(v, p)'
      BY <1>4, <1>7, <2>1, <2>6 DEF Composes
    <3> QED
      BY <1>2, <2>2, <3>2, <3>3, <3>4 DEF Accounted
  <2>7. CASE (Waits(w, b, p) => q # p) /\ ~Composes(w, p)'
    <3>1. Waits(w, b, p) => Waits(w, b, p)'
      BY <2>1, <2>2, <2>7 DEF Waits, Composes
    <3>2. \A v \in Workers : (Waits(v, b, p) => Waits(v, b, p)') /\ (Shows(v, b, p) => Shows(v, b, p)')
      BY <1>4, <2>4, <3>1
    <3>3. \A v \in Workers : Composes(v, p)' => Composes(v, p) /\ worker'[v].shows = worker[v].shows
      BY <1>3, <1>4, <2>7
    <3> QED
      BY <1>2, <2>2, <2>3, <3>2, <3>3, Carry
  <2> QED
    BY <2>1, <2>5, <2>6, <2>7 DEF Composes
<1>11. CASE Composed(w)
  <2> DEFINE q == worker[w].page
  <2>1. /\ worker[w].at = "composing" /\ q \in Pages /\ settled' = settled
        /\ worker'[w].at = "publishing" /\ worker'[w].block = worker[w].block
        /\ worker'[w].todo = worker[w].todo \ {q}
        /\ published' = published \cup {q}
        /\ picture' = [picture EXCEPT ![q] = worker[w].shows]
    BY <1>11, Written
  <2>2. patch' = patch
    <3>1. \A c \in InScope(q) : worker[w].copy[c] = patch[c]
      BY <2>1 DEF ShownInv, PatchInv, LockInv, Fresh
    <3> QED
      BY <1>11, <3>1, ComposeKeeps DEF Composed
  <2>3. Accounted(b, p)
    BY <1>5, <2>1, <2>2
  <2>4. ~Composes(w, p)'
    BY <2>1 DEF Composes
  <2>5. CASE p = q
    <3>1. Composes(w, p) /\ picture'[p] = worker[w].shows
      BY <2>1, <2>5 DEF Composes, TypeInv, TypeOK
    <3>2. \A v \in Workers : ~Composes(v, p)'
      BY <1>4, <1>6, <2>4, <3>1
    <3>3. b \in picture'[p] \/ Waiting(b, p)'
      <4>1. ~Waits(w, b, p)
        BY <3>1 DEF Waits, Composes
      <4> QED
        BY <1>4, <2>3, <3>1, <4>1 DEF Accounted, Waiting
    <3> QED
      BY <1>2, <3>2, <3>3 DEF Accounted
  <2>6. CASE p # q
    <3>1. picture'[p] = picture[p] /\ (p \in published' => p \in published)
      BY <2>1, <2>6 DEF TypeInv, TypeOK
    <3>2. ~Shows(w, b, p)
      BY <2>6 DEF Shows, Composes
    <3>3. Waits(w, b, p) => Waits(w, b, p)'
      BY <2>1, <2>6 DEF Waits
    <3>4. Waiting(b, p) => Waiting(b, p)'
      BY <1>4, <3>3 DEF Waiting
    <3>5. Showing(b, p) => Showing(b, p)'
      BY <1>4, <3>2 DEF Showing
    <3>6. \A v \in Workers : Composes(v, p)' => Composes(v, p) /\ worker'[v].shows = worker[v].shows
      BY <1>3, <1>4, <2>4
    <3> QED
      BY <1>2, <2>3, <3>1, <3>4, <3>5, <3>6 DEF Accounted
  <2> QED
    BY <2>5, <2>6
<1>12. CASE ComposeRaises(w)
  BY <1>12 DEF ComposeRaises
<1> QED
  BY <1>8, <1>9, <1>10, <1>11, <1>12 DEF Thread, Plain

\* A page that close composes, or finds published, shows what landed on it.
LEMMA LandedFlush ==
    ASSUME TypeInv, ShownInv, Flush, ~raised, ~over,
           NEW b \in Blocks, NEW p \in Pages, settled'[b] = "ok", patch'[b] = p
    PROVE  Accounted(b, p)'
<1> DEFINE q == records[flushed + 1]
<1>1. /\ UNCHANGED <<worker, published, records, settled>>
      /\ \A w \in Workers : worker[w].at = "idle"
      /\ flushed \in Nat /\ q \in Pages /\ records \in Seq(Pages)
  BY DEF Flush, poolVars, memory, tables, ShownInv, CloseInv, Quiet, TypeInv, TypeOK
<1>2. patch' = patch
  BY ComposeKeeps DEF Flush, tables
<1>3. Accounted(b, p)
  BY <1>1, <1>2 DEF ShownInv, Landed, Flush
<1>4. ~Showing(b, p) /\ ~Waiting(b, p) /\ \A w \in Workers : ~Composes(w, p)
  BY <1>1 DEF Showing, Shows, Composes, Waiting, Waits
<1>5. \A w \in Workers : ~Composes(w, p)'
  BY <1>1 DEF Composes
<1>6. SUFFICES /\ p \in published \/ InScope(p) = {} => b \in picture'[p]
               /\ \A i \in 1..flushed' : records[i] = p => b \in picture'[p]
  BY <1>1, <1>5 DEF Accounted
<1>7. CASE q \in published /\ flushed' = flushed + 1 /\ UNCHANGED tables
  <2>1. picture' = picture
    BY <1>7 DEF tables
  <2>2. \A i \in 1..flushed' : i \in 1..flushed \/ i = flushed + 1
    BY <1>1, <1>7
  <2> QED
    BY <1>3, <1>4, <1>7, <2>1, <2>2 DEF Accounted
<1>8. CASE Compose(q, patch, Stamped(q)) /\ flushed' = flushed + 1
  <2>1. picture' = [picture EXCEPT ![q] = Stamped(q)]
    BY <1>8 DEF Compose
  <2>2. CASE p = q
    BY <1>1, <1>2, <2>1, <2>2 DEF Stamped, TypeInv, TypeOK
  <2>3. CASE p # q
    <3>1. picture'[p] = picture[p]
      BY <2>1, <2>3
    <3>2. \A i \in 1..flushed' : i \in 1..flushed \/ i = flushed + 1
      BY <1>1, <1>8
    <3> QED
      BY <1>3, <1>4, <2>3, <3>1, <3>2 DEF Accounted
  <2> QED
    BY <2>2, <2>3
<1>9. CASE UNCHANGED <<flushed, tables>>
  BY <1>3, <1>4, <1>9 DEF Accounted, tables
<1> QED
  BY <1>7, <1>8, <1>9 DEF Flush

LEMMA LandedNext == TypeInv /\ ShownInv /\ [Next]_vars => Landed'
<1> SUFFICES ASSUME TypeInv, ShownInv, [Next]_vars, main' # "starting", ~raised', ~over',
                    NEW b \in Blocks, NEW p \in Pages, settled'[b] = "ok", patch'[b] = p
             PROVE  Accounted(b, p)'
  BY DEF Landed
<1>1. CASE Start
  BY <1>1 DEF Start
<1>2. CASE JobEnds
  BY <1>2 DEF JobEnds
<1>3. CASE \/ (\E c \in Blocks : Emit(c)) \/ TranslatorEnds \/ Join \/ FlushEnds \/ Terminated \/ UNCHANGED vars
  <2>1. UNCHANGED <<worker, tables, published, raised, over, flushed, records>> /\ main # "starting"
    BY <1>3 DEF Emit, TranslatorEnds, Join, FlushEnds, Terminated, vars, poolVars, memory
  <2>2. Accounted(b, p)
    BY <2>1 DEF ShownInv, Landed, tables
  <2> QED
    BY <2>1, <2>2 DEF Accounted, Waiting, Waits, Showing, Shows, Composes, tables
<1>4. ASSUME NEW w \in Workers, Thread(w) PROVE Accounted(b, p)'
  BY <1>4, ThreadMain, LandedThread
<1>5. CASE Flush
  <2>1. ~raised /\ ~over
    BY <1>5 DEF Flush, memory
  <2> QED
    BY <1>5, <2>1, LandedFlush
<1> QED
  BY <1>1, <1>2, <1>3, <1>4, <1>5 DEF Next

\* When the preview was closed to its end, every page shows the patches that
\* landed on it, those of other pages' blocks included.
THEOREM ShownHolds == Spec => []PatchShown
<1>1. Init => TypeInv /\ ShownInv
  BY TypeInit, ShownInit
<1>2. TypeInv /\ ShownInv /\ [Next]_vars => (TypeInv /\ ShownInv)'
  BY TypeNext, StartNext, LockNext, KeptNext, SingleNext, SettledNext, PageNext, CloseNext, TranslatedNext,
     LandedNext DEF ShownInv, PatchInv, PublishInv
<1> QED
  BY <1>1, <1>2, ShownImplies, PTL DEF Spec

=============================================================================
