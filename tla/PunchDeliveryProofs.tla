------------------------- MODULE PunchDeliveryProofs -------------------------
(***************************************************************************)
(* Proofs about PunchDelivery, for every set of users and handlers and     *)
(* every bound: type correctness, at most one row per event, what a 200    *)
(* means, no loss by the network, and the implementation of PunchLedger.   *)
(***************************************************************************)
EXTENDS PunchDelivery, TLAPS

(***************************************************************************)
(* Appending to time_punches adds one event and keeps the others, and      *)
(* appending a log to the clock only extends the range of its numbers.     *)
(***************************************************************************)
LEMMA RecordedAppend ==
    ASSUME NEW e, punches' = Append(punches, e), NEW S, punches \in Seq(S)
    PROVE  Recorded' = Recorded \cup {e}
<1>1. /\ DOMAIN punches = 1..Len(punches)
      /\ Len(punches) \in Nat
      /\ DOMAIN punches' = 1..(Len(punches) + 1)
      /\ \A i \in DOMAIN punches : punches'[i] = punches[i]
      /\ punches'[Len(punches) + 1] = e
  OBVIOUS
<1>2. DOMAIN punches' = DOMAIN punches \cup {Len(punches) + 1}
  BY <1>1
<1> QED
  BY <1>1, <1>2 DEF Recorded

(***************************************************************************)
(* Types.  The values the actions write have the types of their variables, *)
(* and those types only depend on the number of logs.                      *)
(***************************************************************************)
LEMMA LenLogs == ASSUME TypeOK PROVE Len(logs) \in Nat
BY DEF TypeOK

LEMMA RecordTypes ==
    ASSUME TypeOK
    PROVE  /\ Free \in HandlerState
           /\ TornCursor \in CursorFile
           /\ TornQueue \in PendingFile
           /\ \A n \in 0..Len(logs) : [ok |-> TRUE, id |-> n] \in CursorFile
           /\ \A E \in SUBSET LogID : [ok |-> TRUE, events |-> E] \in PendingFile
           /\ \A E \in SUBSET LogID : [busy |-> TRUE, todo |-> E, event |-> 0] \in HandlerState
           /\ \A b \in BOOLEAN : \A U \in SUBSET User : [loaded |-> b, users |-> U] \in UserCache
BY LenLogs DEF Free, TornCursor, TornQueue, CursorFile, PendingFile, HandlerState, UserCache, LogID

\* What the fields of a well-typed record are.
LEMMA FieldTypes ==
    /\ \A c \in CursorFile : c.id \in 0..Len(logs)
    /\ \A p \in PendingFile : p.events \in SUBSET LogID
    /\ \A s \in HandlerState : s.todo \in SUBSET LogID /\ s.event \in 0..Len(logs)
BY DEF CursorFile, PendingFile, HandlerState

LEMMA TypesStable ==
    ASSUME UNCHANGED logs
    PROVE  /\ LogID' = LogID
           /\ CursorFile' = CursorFile
           /\ PendingFile' = PendingFile
           /\ HandlerState' = HandlerState
           /\ Len(logs') = Len(logs)
BY DEF LogID, CursorFile, PendingFile, HandlerState

\* A new log only adds a number.
LEMMA PunchType == ASSUME TypeOK, NEW u \in User, Punch(u) PROVE TypeOK'
<1>1. logs' \in Seq(User) /\ Len(logs') = Len(logs) + 1 /\ Len(logs) \in Nat
  BY DEF TypeOK, Punch
<1>2. LogID \subseteq LogID' /\ 0..Len(logs) \subseteq 0..Len(logs')
  BY <1>1 DEF LogID
<1>3. CursorFile \subseteq CursorFile'
  BY <1>2 DEF CursorFile
<1>4. PendingFile \subseteq PendingFile'
  BY <1>2 DEF PendingFile
<1>5. HandlerState \subseteq HandlerState'
  BY <1>2 DEF HandlerState
<1>6. punches \in Seq(LogID')
  BY <1>2 DEF TypeOK
<1>7. handlers \in [Handler -> HandlerState']
  BY <1>5 DEF TypeOK
<1> QED
  BY <1>1, <1>2, <1>3, <1>4, <1>6, <1>7 DEF TypeOK, Punch, agent, disk, server, UserCache

\* A POST gives a free handler a well-typed piece of work.
LEMMA PostType ==
    ASSUME TypeOK, NEW E \in SUBSET LogID, Post(E)
    PROVE  conn' \in Handler /\ handlers' \in [Handler -> HandlerState]
BY RecordTypes DEF TypeOK, Post

LEMMA AnsweredType ==
    ASSUME TypeOK, Answered
    PROVE  conn' = NoHandler /\ handlers' \in [Handler -> HandlerState]
BY RecordTypes DEF TypeOK, Answered

\* A fault counts one fault of its kind.
LEMMA FaultType ==
    ASSUME TypeOK, NEW kind \in FaultKind, NEW max, Fault(kind, max)
    PROVE  faults' \in [FaultKind -> Nat]
BY DEF TypeOK, Fault

\* A write has one of its outcomes, and changes faults by one of the disk at most.
LEMMA WriteType ==
    ASSUME TypeOK, NEW new, NEW value, NEW outcomes, Write(new, value, outcomes)
    PROVE  new \in outcomes \cup {value} /\ faults' \in [FaultKind -> Nat]
<1>1. CASE UNCHANGED faults /\ new = value
  BY <1>1 DEF TypeOK
<1>2. CASE Fault("disk", MaxDisk) /\ new \in outcomes
  BY <1>2, FaultType DEF FaultKind
<1> QED
  BY <1>1, <1>2 DEF Write

\* An event that is ingested leaves the work of its handler.
LEMMA DoneType ==
    ASSUME TypeOK, NEW h \in Handler, NEW e
    PROVE  Done(h, e) \in [Handler -> HandlerState]
<1>1. handlers[h] \in HandlerState /\ 0 \in 0..Len(logs)
  BY LenLogs DEF TypeOK
<1>2. [handlers[h] EXCEPT !.todo = @ \ {e}, !.event = 0] \in HandlerState
  BY <1>1 DEF HandlerState
<1> QED
  BY <1>2 DEF TypeOK, Done

\* Every variable keeps its type: in particular no file, batch or handler ever
\* names a log the clock does not have.
THEOREM TypeCorrect == Spec => []TypeOK
<1>1. Init => TypeOK
  <2> SUFFICES ASSUME Init PROVE TypeOK
    OBVIOUS
  <2>1. logs \in Seq(User) /\ Len(logs) = 0
    BY DEF Init
  <2>2. /\ cursorFile \in CursorFile
        /\ pendingFile \in PendingFile
        /\ handlers \in [Handler -> HandlerState]
        /\ userCache \in UserCache
    BY <2>1 DEF Init, Free, CursorFile, PendingFile, HandlerState, UserCache
  <2>3. faults \in [FaultKind -> Nat]
    BY DEF Init
  <2> QED
    BY <2>1, <2>2, <2>3 DEF Init, TypeOK
<1>2. TypeOK /\ [Next]_vars => TypeOK'
  <2> SUFFICES ASSUME TypeOK, [Next]_vars PROVE TypeOK'
    OBVIOUS
  <2>1. CASE \E u \in User : Punch(u)
    BY <2>1, PunchType
  <2>2. CASE \E u \in User : Register(u)
    BY <2>2, TypesStable DEF TypeOK, Register, agent, disk, server, UserCache
  <2>3. CASE StartCycle
    <3>1. conn' \in Handler \cup {NoHandler} /\ handlers' \in [Handler -> HandlerState]
      BY <2>3, PostType, FieldTypes DEF TypeOK, StartCycle
    <3>2. faults' \in [FaultKind -> Nat]
      BY <2>3, FaultType DEF TypeOK, StartCycle, FaultKind
    <3> QED
      BY <2>3, <3>1, <3>2, TypesStable DEF TypeOK, StartCycle, clock, disk, UserCache
  <2>4. CASE FlushSucceeds
    <3>1. pendingFile' \in PendingFile /\ faults' \in [FaultKind -> Nat]
      BY <2>4, WriteType, RecordTypes DEF FlushSucceeds, TypeOK
    <3> QED
      BY <2>4, <3>1, AnsweredType, TypesStable DEF TypeOK, FlushSucceeds, clock, UserCache
  <2>5. CASE FlushFails
    BY <2>5, TypesStable DEF TypeOK, FlushFails, clock, disk, server, UserCache
  <2>6. CASE Poll
    <3>1. SinceID \in 0..Len(logs)
      BY LenLogs, FieldTypes DEF TypeOK, SinceID
    <3>2. newMax' \in 0..Len(logs) /\ batch' \in SUBSET LogID
      BY <2>6, <3>1, LenLogs DEF Poll, MaxLogID
    <3>3. userCache' \in UserCache
      BY <2>6, RecordTypes DEF TypeOK, Poll, RefreshUserCacheIfStale
    <3>4. faults' \in [FaultKind -> Nat]
      BY <2>6, FaultType DEF TypeOK, Poll, FaultKind
    <3> QED
      BY <2>6, <3>2, <3>3, <3>4, TypesStable DEF TypeOK, Poll, clock, disk, server, UserCache
  <2>7. CASE PollFails
    <3>1. userCache' \in UserCache
      BY <2>7, RecordTypes DEF TypeOK, PollFails, RefreshUserCacheIfStale
    <3>2. faults' \in [FaultKind -> Nat]
      BY <2>7, FaultType DEF PollFails, FaultKind
    <3> QED
      BY <2>7, <3>1, <3>2, TypesStable DEF TypeOK, PollFails, clock, disk, server, UserCache
  <2>8. CASE SaveCursor
    <3>1. cursorFile' \in CursorFile /\ faults' \in [FaultKind -> Nat]
      <4>1. CASE batch # {}
        <5>1. Write(cursorFile', [ok |-> TRUE, id |-> newMax], {cursorFile, TornCursor})
          BY <2>8, <4>1 DEF SaveCursor
        <5>2. /\ cursorFile' \in {cursorFile, TornCursor, [ok |-> TRUE, id |-> newMax]}
              /\ faults' \in [FaultKind -> Nat]
          BY <5>1, WriteType
        <5> QED
          BY <5>2, RecordTypes DEF TypeOK
      <4>2. CASE batch = {}
        BY <2>8, <4>2 DEF SaveCursor, TypeOK
      <4> QED
        BY <4>1, <4>2
    <3>2. batch' \in SUBSET LogID /\ skipped' \in SUBSET LogID
      BY <2>8 DEF TypeOK, SaveCursor, BuildEvents
    <3> QED
      BY <2>8, <3>1, <3>2, TypesStable DEF TypeOK, SaveCursor, clock, server, UserCache
  <2>9. CASE PostEvents
    <3>1. conn' \in Handler \cup {NoHandler} /\ handlers' \in [Handler -> HandlerState]
      BY <2>9, PostType DEF TypeOK, PostEvents
    <3> QED
      BY <2>9, <3>1, TypesStable DEF TypeOK, PostEvents, clock, disk, UserCache
  <2>10. CASE PostSucceeds
    BY <2>10, AnsweredType, TypesStable DEF TypeOK, PostSucceeds, clock, disk, UserCache
  <2>11. CASE PostFails
    <3> DEFINE E == Queued \cup batch
    <3>1. E \in SUBSET LogID
      BY FieldTypes DEF TypeOK, Queued
    <3>2. pendingFile' \in PendingFile /\ faults' \in [FaultKind -> Nat]
      <4>1. CASE Write(pendingFile', [ok |-> TRUE, events |-> E], {pendingFile, TornQueue})
        <5>1. /\ pendingFile' \in {pendingFile, TornQueue, [ok |-> TRUE, events |-> E]}
              /\ faults' \in [FaultKind -> Nat]
          BY <4>1, WriteType
        <5> QED
          BY <3>1, <5>1, RecordTypes DEF TypeOK
      <4>2. CASE pendingFile' = [ok |-> TRUE, events |-> batch] /\ Fault("read", MaxRead)
        BY <4>2, FaultType, RecordTypes DEF TypeOK, FaultKind
      <4> QED
        BY <2>11, <4>1, <4>2 DEF PostFails
    <3> QED
      BY <2>11, <3>2, TypesStable DEF TypeOK, PostFails, clock, server, UserCache
  <2>12. CASE Crash
    <3>1. faults' \in [FaultKind -> Nat]
      BY <2>12, FaultType DEF Crash, FaultKind
    <3>2. /\ cursorFile' \in {cursorFile, TornCursor}
          /\ pendingFile' \in {pendingFile, TornQueue}
          /\ userCache' = [loaded |-> FALSE, users |-> {}]
      BY <2>12 DEF Crash
    <3>3. cursorFile' \in CursorFile /\ pendingFile' \in PendingFile /\ userCache' \in UserCache
      <4>1. [loaded |-> FALSE, users |-> {}] \in UserCache
        BY DEF UserCache
      <4> QED
        BY <3>2, <4>1, RecordTypes DEF TypeOK
    <3> QED
      BY <2>12, <3>1, <3>3, LenLogs, TypesStable DEF TypeOK, Crash, clock, server, UserCache
  <2>13. CASE RequestFails
    <3>1. faults' \in [FaultKind -> Nat]
      BY <2>13, FaultType DEF RequestFails, FaultKind
    <3>2. handlers' \in [Handler -> HandlerState]
      BY <2>13, RecordTypes DEF TypeOK, RequestFails
    <3> QED
      BY <2>13, <3>1, <3>2, TypesStable DEF TypeOK, RequestFails, clock, disk, UserCache
  <2>14. ASSUME NEW h \in Handler, OrphanEnds(h) PROVE TypeOK'
    BY <2>14, RecordTypes, TypesStable DEF TypeOK, OrphanEnds, clock, agent, disk, UserCache
  <2>15. ASSUME NEW h \in Handler, OrphanDies(h) PROVE TypeOK'
    <3>1. faults' \in [FaultKind -> Nat]
      BY <2>15, FaultType DEF OrphanDies, FaultKind
    <3>2. handlers' \in [Handler -> HandlerState]
      BY <2>15, RecordTypes DEF TypeOK, OrphanDies
    <3> QED
      BY <2>15, <3>1, <3>2, TypesStable DEF TypeOK, OrphanDies, clock, agent, disk, UserCache
  <2>16. ASSUME NEW h \in Handler, LookUp(h) PROVE TypeOK'
    <3>1. PICK e \in handlers[h].todo :
             handlers' = IF e \in Recorded THEN Done(h, e) ELSE [handlers EXCEPT ![h].event = e]
      BY <2>16 DEF LookUp
    <3>2. handlers[h] \in HandlerState /\ e \in 0..Len(logs)
      BY <3>1, FieldTypes, LenLogs DEF TypeOK, LogID
    <3>3. [handlers[h] EXCEPT !.event = e] \in HandlerState
      BY <3>2 DEF HandlerState
    <3>4. handlers' \in [Handler -> HandlerState]
      BY <3>1, <3>3, DoneType DEF TypeOK
    <3> QED
      BY <2>16, <3>4, TypesStable DEF TypeOK, LookUp, clock, agent, disk, UserCache
  <2>17. ASSUME NEW h \in Handler, Insert(h) PROVE TypeOK'
    <3>1. handlers[h].event \in LogID
      BY <2>17, FieldTypes, LenLogs DEF TypeOK, Insert, LogID
    <3>2. punches' \in Seq(LogID)
      BY <2>17, <3>1 DEF TypeOK, Insert, InsertRow
    <3>3. handlers' \in [Handler -> HandlerState] /\ conn' \in Handler \cup {NoHandler}
      BY <2>17, DoneType, RecordTypes DEF TypeOK, Insert
    <3> QED
      BY <2>17, <3>2, <3>3, TypesStable DEF TypeOK, Insert, clock, disk, UserCache
  <2>18. CASE UNCHANGED vars
    BY <2>18, TypesStable DEF TypeOK, vars, clock, agent, disk, server, UserCache
  <2> QED
    BY <2>1, <2>2, <2>3, <2>4, <2>5, <2>6, <2>7, <2>8, <2>9, <2>10, <2>11, <2>12,
       <2>13, <2>14, <2>15, <2>16, <2>17, <2>18
       DEF Next, Clock, Cycle, Serve, Faulty
<1> QED
  BY <1>1, <1>2, PTL DEF Spec

------------------------------------------------------------------------------
(***************************************************************************)
(* At most one row per event, whatever the handlers do at the same time.   *)
(* The invariant is inductive by itself: rows are only added by Insert,    *)
(* and only for an event that has none.                                    *)
(***************************************************************************)
LEMMA AppendNew ==
    ASSUME TypeOK, AtMostOnce, NEW e, e \notin Recorded, punches' = Append(punches, e)
    PROVE  AtMostOnce'
<1>1. /\ Len(punches) \in Nat
      /\ DOMAIN punches = 1..Len(punches)
      /\ DOMAIN punches' = 1..(Len(punches) + 1)
      /\ \A i \in DOMAIN punches : punches'[i] = punches[i]
      /\ punches'[Len(punches) + 1] = e
  BY DEF TypeOK
<1>2. \A i \in DOMAIN punches : punches[i] # e
  BY DEF Recorded
<1> QED
  BY <1>1, <1>2 DEF AtMostOnce

\* Only Insert writes time_punches.
LEMMA PunchesChange ==
    ASSUME [Next]_vars, punches' # punches
    PROVE  \E h \in Handler : Insert(h)
BY DEF Next, Clock, Cycle, Serve, Faulty, Punch, Register, StartCycle, FlushSucceeds, FlushFails,
       Poll, PollFails, SaveCursor, PostEvents, PostSucceeds, PostFails, Crash, RequestFails,
       OrphanEnds, OrphanDies, LookUp, vars, server

\* Concurrent handlers never store an event twice (PunchDelivery!AtMostOnce).
THEOREM AtMostOnceHolds == Spec => []AtMostOnce
<1>1. Init => AtMostOnce
  BY DEF Init, AtMostOnce
<1>2. TypeOK /\ AtMostOnce /\ [Next]_vars => AtMostOnce'
  <2> SUFFICES ASSUME TypeOK, AtMostOnce, [Next]_vars PROVE AtMostOnce'
    OBVIOUS
  <2>1. CASE punches' = punches
    BY <2>1 DEF AtMostOnce
  <2>2. CASE punches' # punches
    <3>1. PICK h \in Handler : Insert(h)
      BY <2>2, PunchesChange
    <3>2. handlers[h].event \notin Recorded /\ punches' = Append(punches, handlers[h].event)
      BY <2>2, <3>1 DEF Insert, InsertRow
    <3> QED
      BY <3>2, AppendNew
  <2> QED
    BY <2>1, <2>2
<1> QED
  BY <1>1, <1>2, TypeCorrect, PTL DEF Spec

(***************************************************************************)
(* PunchDelivery implements PunchLedger: a step either stores an event the *)
(* ledger does not hold, or is a punch on the clock, or changes neither.   *)
(***************************************************************************)
THEOREM Implements == Spec => LedgerSpec
<1>1. Init => Ledger!Init
  BY DEF Init, Ledger!Init
<1>2. TypeOK /\ [Next]_vars => [Ledger!Next]_Ledger!vars
  <2> SUFFICES ASSUME TypeOK, [Next]_vars PROVE [Ledger!Next]_Ledger!vars
    OBVIOUS
  <2>1. CASE punches' # punches
    <3>1. PICK h \in Handler : Insert(h)
      BY <2>1, PunchesChange
    <3>2. /\ handlers[h].event \in 1..Len(logs)
          /\ handlers[h].event \notin Recorded
          /\ punches' = Append(punches, handlers[h].event)
          /\ UNCHANGED logs
      <4>1. handlers[h].event \in 0..Len(logs) /\ handlers[h].event # 0
        BY <3>1, FieldTypes DEF TypeOK, Insert
      <4> QED
        BY <2>1, <3>1, <4>1, LenLogs DEF Insert, InsertRow, clock
    <3>3. \A k \in DOMAIN punches : punches[k] # handlers[h].event
      BY <3>2 DEF Recorded
    <3> QED
      BY <3>2, <3>3 DEF Ledger!Next, Ledger!Record
  <2>2. CASE punches' = punches /\ logs' # logs
    <3>1. PICK u \in User : Punch(u)
      BY <2>2 DEF Next, Clock, Cycle, Serve, Faulty, Register, StartCycle, FlushSucceeds, FlushFails,
           Poll, PollFails, SaveCursor, PostEvents, PostSucceeds, PostFails, Crash, RequestFails,
           OrphanEnds, OrphanDies, LookUp, Insert, vars, clock
    <3> QED
      BY <2>2, <3>1 DEF Punch, Ledger!Next, Ledger!Happen
  <2>3. CASE punches' = punches /\ logs' = logs
    BY <2>3 DEF Ledger!vars
  <2> QED
    BY <2>1, <2>2, <2>3
<1> QED
  BY <1>1, <1>2, TypeCorrect, PTL DEF Spec, LedgerSpec, Ledger!Spec

------------------------------------------------------------------------------
(***************************************************************************)
(* What a 200 means.  The events the agent waits for leave the todo set of *)
(* their handler only when they are in time_punches.                       *)
(***************************************************************************)
LEMMA InsertRecords ==
    ASSUME TypeOK, NEW h \in Handler, Insert(h)
    PROVE  Recorded' = Recorded \cup {handlers[h].event}
<1>1. CASE handlers[h].event \in Recorded
  BY <1>1 DEF Insert, InsertRow, Recorded
<1>2. CASE handlers[h].event \notin Recorded
  BY <1>2, RecordedAppend DEF Insert, InsertRow, TypeOK
<1> QED
  BY <1>1, <1>2

\* Rows are never removed.
LEMMA RecordedGrows == ASSUME TypeOK, [Next]_vars PROVE Recorded \subseteq Recorded'
<1>1. CASE punches' = punches
  BY <1>1 DEF Recorded
<1>2. CASE punches' # punches
  BY <1>2, PunchesChange, InsertRecords
<1> QED
  BY <1>1, <1>2

\* What a handler has to do and the table hold together everything they held,
\* unless the handler ends in a 500.
LEMMA ServeKeeps ==
    ASSUME TypeOK, NEW h \in Handler, LookUp(h) \/ Insert(h), NEW g \in Handler,
           g # h \/ ~(Insert(h) /\ handlers[h].event \in Recorded)
    PROVE  Recorded \cup handlers[g].todo \subseteq Recorded' \cup handlers'[g].todo
<1>1. ASSUME NEW e, handlers' = Done(h, e), e \in Recorded', Recorded \subseteq Recorded'
      PROVE  Recorded \cup handlers[g].todo \subseteq Recorded' \cup handlers'[g].todo
  <2>1. handlers'[g].todo = handlers[g].todo \/ handlers'[g].todo = handlers[g].todo \ {e}
    <3>1. CASE g = h
      BY <1>1, <3>1 DEF Done, TypeOK, HandlerState
    <3>2. CASE g # h
      BY <1>1, <3>2 DEF Done, TypeOK
    <3> QED
      BY <3>1, <3>2
  <2> QED
    BY <1>1, <2>1
<1>2. CASE LookUp(h)
  <2>1. Recorded' = Recorded
    BY <1>2 DEF LookUp, Recorded
  <2>2. PICK e \in handlers[h].todo :
           handlers' = IF e \in Recorded THEN Done(h, e) ELSE [handlers EXCEPT ![h].event = e]
    BY <1>2 DEF LookUp
  <2>3. CASE e \in Recorded
    BY <1>1, <2>1, <2>2, <2>3
  <2>4. CASE e \notin Recorded
    <3>1. handlers'[g].todo = handlers[g].todo
      BY <2>2, <2>4 DEF TypeOK, HandlerState
    <3> QED
      BY <2>1, <3>1
  <2> QED
    BY <2>3, <2>4
<1>3. CASE Insert(h)
  <2>1. Recorded' = Recorded \cup {handlers[h].event}
    BY <1>3, InsertRecords
  <2>2. CASE handlers[h].event \in Recorded
    <3>1. handlers'[g].todo = handlers[g].todo
      BY <1>3, <2>2 DEF Insert, TypeOK
    <3> QED
      BY <2>1, <3>1
  <2>3. CASE handlers[h].event \notin Recorded
    BY <1>1, <1>3, <2>1, <2>3 DEF Insert
  <2> QED
    BY <2>2, <2>3
<1> QED
  BY <1>2, <1>3

\* A 200 means that every event of the POST is stored (PunchDelivery!AckMeansStored).
THEOREM AckMeansStoredHolds == Spec => []AckMeansStored
<1>1. Init => AckMeansStored
  BY DEF Init, AckMeansStored
<1>2. TypeOK /\ AckMeansStored /\ [Next]_vars => AckMeansStored'
  <2> SUFFICES ASSUME TypeOK, AckMeansStored, [Next]_vars, conn' # NoHandler
               PROVE  /\ pc' = "flushing" =>
                           pendingFile'.events \subseteq Recorded' \cup handlers'[conn'].todo
                      /\ pc' = "posting" => batch' \subseteq Recorded' \cup handlers'[conn'].todo
    BY DEF AckMeansStored
  <2>0. Recorded \subseteq Recorded'
    BY RecordedGrows
  <2>1. CASE StartCycle
    BY <2>1 DEF StartCycle, Post, TypeOK, disk
  <2>2. CASE PostEvents
    BY <2>2 DEF PostEvents, Post, TypeOK, disk
  <2>3. CASE FlushSucceeds \/ FlushFails \/ Poll \/ PollFails \/ SaveCursor \/ PostSucceeds \/ PostFails
             \/ Crash \/ RequestFails
    BY <2>3 DEF FlushSucceeds, FlushFails, Poll, PollFails, SaveCursor, PostSucceeds, PostFails, Crash,
         RequestFails, Answered
  <2>4. ASSUME NEW h \in Handler, OrphanEnds(h) \/ OrphanDies(h)
        PROVE  /\ UNCHANGED <<pc, pendingFile, batch, conn>>
               /\ handlers'[conn].todo = handlers[conn].todo
    BY <2>4 DEF OrphanEnds, OrphanDies, agent, disk, TypeOK
  <2>5. ASSUME NEW h \in Handler, LookUp(h) \/ Insert(h)
        PROVE  /\ UNCHANGED <<pc, pendingFile, batch, conn>>
               /\ Recorded \cup handlers[conn].todo \subseteq Recorded' \cup handlers'[conn].todo
    <3>1. UNCHANGED <<pc, pendingFile, batch, conn>>
      BY <2>5 DEF LookUp, Insert, agent, disk
    <3>2. conn \in Handler
      BY <3>1 DEF TypeOK
    <3>3. conn # h \/ ~(Insert(h) /\ handlers[h].event \in Recorded)
      BY <3>1, <3>2, NoHandlerAssumption DEF Insert
    <3> QED
      BY <2>5, <3>1, <3>2, <3>3, ServeKeeps
  <2>6. CASE Clock \/ UNCHANGED vars
    BY <2>0, <2>6 DEF Clock, Punch, Register, vars, agent, disk, server, AckMeansStored
  <2> QED
    BY <2>0, <2>1, <2>2, <2>3, <2>4, <2>5, <2>6 DEF Next, Cycle, Serve, Faulty, AckMeansStored
<1> QED
  BY <1>1, <1>2, TypeCorrect, PTL DEF Spec

------------------------------------------------------------------------------
(***************************************************************************)
(* No loss by the network.  NoLossByNetwork is not inductive: the cursor   *)
(* jumps to newMax, so every log up to newMax must be covered before it is *)
(* saved, and the batch must be empty when a cycle overwrites it.          *)
(***************************************************************************)
Healthy == \A kind \in {"disk", "read", "crash"} : faults[kind] = 0

Covered(i) == i \in Recorded \cup pendingFile.events \cup batch \cup skipped

CycleInv ==
    Healthy =>
        /\ cursorFile.ok /\ pendingFile.ok
        /\ pc \in {"idle", "flushing", "polling"} => batch = {}
        /\ pc = "fetched" => \A i \in 1..newMax : i <= cursorFile.id \/ i \in batch
        /\ \A i \in 1..cursorFile.id : Covered(i)

\* In a healthy run a step is no fault of the agent's own.
LEMMA HealthyStep ==
    ASSUME TypeOK, [Next]_vars, Healthy'
    PROVE  Healthy /\ ~Crash /\ ~Fault("disk", MaxDisk) /\ ~Fault("read", MaxRead)
<1>1. ASSUME NEW kind \in FaultKind, NEW max, Fault(kind, max)
      PROVE  kind = "net" /\ Healthy
  BY <1>1 DEF Fault, Healthy, TypeOK, FaultKind
<1>2. ~Crash /\ ~Fault("disk", MaxDisk) /\ ~Fault("read", MaxRead)
  BY <1>1 DEF Crash, FaultKind
<1>3. UNCHANGED faults => Healthy
  BY DEF Healthy
<1> QED
  BY <1>1, <1>2, <1>3 DEF Next, Clock, Cycle, Serve, Faulty, Punch, Register, StartCycle, FlushSucceeds,
       FlushFails, Poll, PollFails, SaveCursor, PostEvents, PostSucceeds, PostFails, RequestFails, OrphanEnds,
       OrphanDies, LookUp, Insert, vars, Write, FaultKind

LEMMA CycleInvHolds == Spec => []CycleInv
<1>1. Init => CycleInv
  BY DEF Init, CycleInv
<1>2. TypeOK /\ AckMeansStored /\ CycleInv /\ [Next]_vars => CycleInv'
  <2> SUFFICES ASSUME TypeOK, AckMeansStored, CycleInv, [Next]_vars, Healthy'
               PROVE  /\ cursorFile'.ok /\ pendingFile'.ok
                      /\ pc' \in {"idle", "flushing", "polling"} => batch' = {}
                      /\ pc' = "fetched" =>
                           \A i \in 1..newMax' : i <= cursorFile'.id \/ i \in batch'
                      /\ \A i \in 1..cursorFile'.id : Covered(i)'
    BY DEF CycleInv
  <2>0. Healthy /\ ~Crash /\ ~Fault("disk", MaxDisk) /\ ~Fault("read", MaxRead)
    BY HealthyStep
  <2>1. Recorded \subseteq Recorded'
    BY RecordedGrows
  <2>2. /\ cursorFile.ok /\ pendingFile.ok
        /\ pc \in {"idle", "flushing", "polling"} => batch = {}
        /\ pc = "fetched" => \A i \in 1..newMax : i <= cursorFile.id \/ i \in batch
        /\ \A i \in 1..cursorFile.id : Covered(i)
    BY <2>0 DEF CycleInv
  <2>3. CASE UNCHANGED <<pc, newMax, batch, cursorFile, pendingFile, skipped>>
    BY <2>1, <2>2, <2>3 DEF Covered
  <2>4. CASE StartCycle \/ FlushFails \/ PollFails
    BY <2>1, <2>2, <2>4 DEF StartCycle, FlushFails, PollFails, disk, Covered
  <2>5. CASE FlushSucceeds
    <3>1. pendingFile' = [ok |-> TRUE, events |-> {}]
      BY <2>0, <2>5 DEF FlushSucceeds, Write
    <3>2. pendingFile.events \subseteq Recorded
      BY <2>5 DEF FlushSucceeds, Answered, AckMeansStored
    <3> QED
      BY <2>1, <2>2, <2>5, <3>1, <3>2 DEF FlushSucceeds, Covered
  <2>6. CASE Poll
    <3>1. cursorFile.id \in Nat /\ SinceID = cursorFile.id /\ batch = {}
      BY <2>2, <2>6, FieldTypes, LenLogs DEF TypeOK, SinceID, Poll
    <3>2. \A i \in 1..newMax' : i <= cursorFile.id \/ i \in batch'
      BY <2>0, <2>6, <3>1, LenLogs DEF Poll, MaxLogID, LogID
    <3> QED
      BY <2>1, <2>2, <2>6, <3>1, <3>2 DEF Poll, disk, Covered
  <2>7. CASE SaveCursor
    <3>1. CASE batch = {}
      <4>1. cursorFile' = cursorFile /\ batch' = {} /\ skipped' = skipped
        BY <2>7, <3>1 DEF SaveCursor, BuildEvents
      <4> QED
        BY <2>1, <2>2, <2>7, <3>1, <4>1 DEF SaveCursor, Covered
    <3>2. CASE batch # {}
      <4>1. cursorFile' = [ok |-> TRUE, id |-> newMax]
        BY <2>0, <2>7, <3>2 DEF SaveCursor, Write
      <4>2. batch \subseteq batch' \cup skipped' /\ skipped \subseteq skipped'
        BY <2>7 DEF SaveCursor
      <4>3. \A i \in 1..newMax : i \in 1..cursorFile.id \/ i \in batch
        BY <2>2, <2>7, FieldTypes, LenLogs DEF SaveCursor, TypeOK
      <4> QED
        BY <2>1, <2>2, <2>7, <4>1, <4>2, <4>3 DEF SaveCursor, Covered
    <3> QED
      BY <3>1, <3>2
  <2>8. CASE PostEvents
    BY <2>1, <2>2, <2>8 DEF PostEvents, disk, Covered
  <2>9. CASE PostSucceeds
    <3>1. batch \subseteq Recorded
      BY <2>9 DEF PostSucceeds, Answered, AckMeansStored
    <3> QED
      BY <2>1, <2>2, <2>9, <3>1 DEF PostSucceeds, disk, Covered
  <2>10. CASE PostFails
    <3>1. pendingFile' = [ok |-> TRUE, events |-> pendingFile.events \cup batch]
      BY <2>0, <2>2, <2>10 DEF PostFails, Queued, Write
    <3> QED
      BY <2>1, <2>2, <2>10, <3>1 DEF PostFails, Covered
  <2> QED
    BY <2>0, <2>3, <2>4, <2>5, <2>6, <2>7, <2>8, <2>9, <2>10
       DEF Next, Clock, Cycle, Serve, Faulty, Punch, Register, RequestFails, OrphanEnds, OrphanDies,
           LookUp, Insert, vars, agent, disk
<1> QED
  BY <1>1, <1>2, TypeCorrect, AckMeansStoredHolds, PTL DEF Spec

\* Failures of the network, the API and the clock alone lose no punch
\* (PunchDelivery!NoLossByNetwork).
THEOREM NoLossByNetworkHolds == Spec => []NoLossByNetwork
<1>1. CycleInv => NoLossByNetwork
  BY DEF CycleInv, NoLossByNetwork, Healthy, Covered
<1> QED
  BY <1>1, CycleInvHolds, PTL

------------------------------------------------------------------------------
(***************************************************************************)
(* The retry file and the cursor from one step to the next.                *)
(***************************************************************************)

\* A retry file that cannot be parsed holds no event, and a cursor that is to be
\* saved is not behind the one on disk.
FileInv ==
    /\ ~pendingFile.ok => pendingFile.events = {}
    /\ pc = "fetched" => SinceID <= newMax

\* The actions that write a file.
LEMMA FilesChange ==
    ASSUME [Next]_vars
    PROVE  /\ pendingFile' # pendingFile => FlushSucceeds \/ PostFails \/ Crash
           /\ cursorFile' # cursorFile => SaveCursor \/ Crash
           /\ pc' = "fetched" /\ (pc # "fetched" \/ newMax' # newMax) => Poll
BY DEF Next, Clock, Cycle, Serve, Faulty, Punch, Register, StartCycle, FlushSucceeds, FlushFails,
       Poll, PollFails, SaveCursor, PostEvents, PostSucceeds, PostFails, Crash, RequestFails,
       OrphanEnds, OrphanDies, LookUp, Insert, vars, agent, disk

LEMMA FileInvHolds == Spec => []FileInv
<1>1. Init => FileInv
  BY DEF Init, FileInv
<1>2. TypeOK /\ FileInv /\ [Next]_vars => FileInv'
  <2> SUFFICES ASSUME TypeOK, FileInv, [Next]_vars PROVE FileInv'
    OBVIOUS
  <2>1. ~pendingFile'.ok => pendingFile'.events = {}
    <3>1. CASE pendingFile' = pendingFile
      BY <3>1 DEF FileInv
    <3>2. CASE FlushSucceeds \/ PostFails \/ Crash
      BY <3>2 DEF FileInv, FlushSucceeds, PostFails, Crash, Write, TornQueue
    <3> QED
      BY <3>1, <3>2, FilesChange
  <2>2. pc' = "fetched" => SinceID' <= newMax'
    <3>1. CASE Poll
      <4>1. SinceID' = SinceID
        BY <3>1 DEF Poll, disk, SinceID
      <4>2. SinceID \in 0..Len(logs) /\ Len(logs) \in Nat
        BY LenLogs, FieldTypes DEF TypeOK, SinceID
      <4> QED
        BY <3>1, <4>1, <4>2 DEF Poll, MaxLogID
    <3>2. CASE pc = "fetched" /\ newMax' = newMax /\ cursorFile' = cursorFile
      BY <3>2 DEF FileInv, SinceID
    <3>3. CASE SaveCursor \/ Crash
      BY <3>3 DEF SaveCursor, Crash
    <3> QED
      BY <3>1, <3>2, <3>3, FilesChange
  <2> QED
    BY <2>1, <2>2 DEF FileInv
<1> QED
  BY <1>1, <1>2, TypeCorrect, PTL DEF Spec

\* An event that is not stored leaves the retry file only when the file is
\* truncated or cannot be read and is overwritten (PunchDelivery!QueueKeepsUntilStored).
THEOREM QueueKeepsUntilStoredHolds == Spec => QueueKeepsUntilStored
<1>1. TypeOK /\ AckMeansStored /\ FileInv /\ [Next]_vars
        => [pendingFile'.ok /\ faults'["read"] = faults["read"] =>
              \A e \in pendingFile.events \ pendingFile'.events : e \in Recorded]_vars
  <2> SUFFICES ASSUME TypeOK, AckMeansStored, FileInv, [Next]_vars, pendingFile'.ok,
                      faults'["read"] = faults["read"],
                      NEW e \in pendingFile.events \ pendingFile'.events
               PROVE  e \in Recorded
    OBVIOUS
  <2>0. ~Fault("read", MaxRead)
    BY DEF Fault, TypeOK, FaultKind
  <2>1. CASE FlushSucceeds
    BY <2>1 DEF FlushSucceeds, Answered, AckMeansStored
  <2>2. CASE PostFails
    BY <2>0, <2>2 DEF FileInv, PostFails, Write, Queued, TornQueue
  <2>3. CASE Crash
    BY <2>3 DEF Crash, TornQueue
  <2> QED
    BY <2>1, <2>2, <2>3, FilesChange
<1> QED
  BY <1>1, TypeCorrect, AckMeansStoredHolds, FileInvHolds, PTL DEF Spec, QueueKeepsUntilStored

\* The persisted cursor never goes back (PunchDelivery!CursorNeverGoesBack).
THEOREM CursorNeverGoesBackHolds == Spec => CursorNeverGoesBack
<1>1. TypeOK /\ FileInv /\ [Next]_vars
        => [cursorFile.ok /\ cursorFile'.ok => cursorFile'.id >= cursorFile.id]_vars
  <2> SUFFICES ASSUME TypeOK, FileInv, [Next]_vars, cursorFile.ok, cursorFile'.ok
               PROVE  cursorFile'.id >= cursorFile.id
    OBVIOUS
  <2>1. cursorFile.id \in Nat
    BY FieldTypes, LenLogs DEF TypeOK
  <2>2. CASE cursorFile' = cursorFile
    BY <2>1, <2>2
  <2>3. CASE SaveCursor
    <3>1. cursorFile.id <= newMax
      BY <2>3 DEF FileInv, SaveCursor, SinceID
    <3>2. cursorFile' = cursorFile \/ cursorFile' = [ok |-> TRUE, id |-> newMax] \/ cursorFile' = TornCursor
      BY <2>3 DEF SaveCursor, Write
    <3> QED
      BY <2>1, <3>1, <3>2, LenLogs DEF TornCursor, TypeOK
  <2>4. CASE Crash
    BY <2>1, <2>4 DEF Crash, TornCursor
  <2> QED
    BY <2>2, <2>3, <2>4, FilesChange
<1> QED
  BY <1>1, TypeCorrect, FileInvHolds, PTL DEF Spec, CursorNeverGoesBack
==============================================================================
