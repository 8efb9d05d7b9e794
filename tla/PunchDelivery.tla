---------------------------- MODULE PunchDelivery ----------------------------
(***************************************************************************)
(* The path of a punch from the Control iD clock to the time_punches table *)
(* : the Go agent's polling cycle (agent/internal/sync), its two files on  *)
(* disk, the webhook POSTs and the request handlers of the API, which      *)
(* ingest the events of one POST one by one, each in a transaction.        *)
(*                                                                         *)
(* A punch is the number of its access log on the clock: the event_id      *)
(* "controlid-<id>" is a function of it, and the clock numbers its logs    *)
(* 1, 2, 3...  A POST and the retry file are sets of such numbers; both    *)
(* are read in ascending order (the code's order may differ, with an event *)
(* twice, after a cursor that could not be read; no property depends on    *)
(* it).                                                                    *)
(*                                                                         *)
(* The clock and the network are external: an operation on the clock may   *)
(* fail, a POST may be lost, answered with an error, or time out while the *)
(* handler goes on working on it.                                          *)
(***************************************************************************)
EXTENDS Integers, Sequences

CONSTANTS
    User,       \* users of the clock
    Handler,    \* request handlers of the API that may run at the same time
    NoHandler,  \* the agent has no POST under way
    MaxLog,     \* bound: punches on the clock
    MaxNet,     \* bound: failures of the clock, the network and the API
    MaxDisk,    \* bound: failed writes of the agent's files
    MaxRead,    \* bound: failed reads of the agent's files
    MaxCrash    \* bound: crashes of the agent

ASSUME NoHandlerAssumption == NoHandler \notin Handler
ASSUME BoundsAssumption ==
    MaxLog \in Nat /\ MaxNet \in Nat /\ MaxDisk \in Nat /\ MaxRead \in Nat /\ MaxCrash \in Nat

VARIABLES
    logs,         \* the clock's access logs: logs[i] is the user of log i
    registered,   \* users that have a registration on the clock
    pc,           \* where the agent's cycle is
    userCache,    \* Syncer.userCache (loaded = FALSE is the nil map)
    newMax,       \* newMaxID of the cycle
    batch,        \* logs fetched by the cycle, then the events built from them
    conn,         \* the handler that serves the agent's POST
    cursorFile,   \* last_sync.json; ok = FALSE when it cannot be parsed
    pendingFile,  \* pending_events.json; ok = FALSE when it cannot be parsed
    handlers,     \* the API's request handlers
    punches,      \* time_punches of this device, in the order of the commits
    skipped,      \* history: logs that BuildEvents ignored
    faults        \* history: faults of each kind so far

clock  == <<logs, registered>>
disk   == <<cursorFile, pendingFile>>
server == <<handlers, punches>>
agent  == <<pc, userCache, newMax, batch, conn>>
vars   == <<clock, agent, disk, server, skipped, faults>>

LogID == 1..Len(logs)

FaultKind == {"net", "disk", "read", "crash"}

Free == [busy |-> FALSE, todo |-> {}, event |-> 0]

Recorded == {punches[i] : i \in DOMAIN punches}

Fault(kind, max) ==
    /\ faults[kind] < max
    /\ faults' = [faults EXCEPT ![kind] = @ + 1]

Init ==
    /\ logs = <<>>
    /\ registered = {}
    /\ pc = "idle"
    /\ userCache = [loaded |-> FALSE, users |-> {}]
    /\ newMax = 0
    /\ batch = {}
    /\ conn = NoHandler
    /\ cursorFile = [ok |-> TRUE, id |-> 0]
    /\ pendingFile = [ok |-> TRUE, events |-> {}]
    /\ handlers = [h \in Handler |-> Free]
    /\ punches = <<>>
    /\ skipped = {}
    /\ faults = [kind \in FaultKind |-> 0]

------------------------------------------------------------------------------
(* The clock.                                                              *)

Punch(u) ==
    /\ Len(logs) < MaxLog
    /\ logs' = Append(logs, u)
    /\ UNCHANGED <<registered, agent, disk, server, skipped, faults>>

Register(u) ==
    /\ u \notin registered
    /\ registered' = registered \cup {u}
    /\ UNCHANGED <<logs, agent, disk, server, skipped, faults>>

------------------------------------------------------------------------------
(* The agent: one cycle at a time, run by the goroutine of Run on a tick   *)
(* of the timer or on SyncNow.                                             *)

\* postEvents, up to the moment the request reaches a handler.
Post(events) ==
    \E h \in Handler :
        /\ ~handlers[h].busy
        /\ handlers' = [handlers EXCEPT ![h] = [busy |-> TRUE, todo |-> events, event |-> 0]]
        /\ conn' = h

\* (As Answered, with any answer of the API taken for a 200.)
AnsweredAnyhow ==
    /\ conn # NoHandler
    /\ handlers' = [handlers EXCEPT ![conn] = Free]
    /\ conn' = NoHandler

\* The handler has ingested every event and its 200 reaches the agent.
Answered ==
    /\ conn # NoHandler
    /\ handlers[conn].todo = {}
    /\ handlers' = [handlers EXCEPT ![conn] = Free]
    /\ conn' = NoHandler

TornCursor == [ok |-> FALSE, id |-> 0]
TornQueue == [ok |-> FALSE, events |-> {}]

\* A file becomes value, or the operation fails and leaves it as outcomes say:
\* os.WriteFile truncates before it writes, os.Remove is atomic.
Write(new, value, outcomes) ==
    \/ new = value /\ UNCHANGED faults
    \/ new \in outcomes /\ Fault("disk", MaxDisk)

\* The retry file, if it can be read, is sent first.
StartCycle ==
    /\ pc = "idle"
    /\ \/ IF pendingFile.ok /\ pendingFile.events # {}
            THEN Post(pendingFile.events) /\ pc' = "flushing" /\ UNCHANGED faults
            ELSE pc' = "polling" /\ UNCHANGED <<handlers, conn, faults>>
       \/ /\ Fault("read", MaxRead)
          /\ pc' = "polling"
          /\ UNCHANGED <<handlers, conn>>
    /\ UNCHANGED <<clock, userCache, newMax, batch, disk, punches, skipped>>

FlushSucceeds ==
    /\ pc = "flushing"
    /\ Answered
    /\ Write(pendingFile', [ok |-> TRUE, events |-> {}], {pendingFile})
    /\ pc' = "polling"
    /\ UNCHANGED <<clock, userCache, newMax, batch, cursorFile, punches, skipped>>

FlushFails ==
    /\ pc = "flushing"
    /\ conn = NoHandler
    /\ pc' = "polling"
    /\ UNCHANGED <<clock, userCache, newMax, batch, conn, disk, server, skipped, faults>>

\* The cache is reloaded when there is none or when it is older than
\* userCacheTTL: how old it is, is left open.
RefreshUserCacheIfStale ==
    \/ userCache' = [loaded |-> TRUE, users |-> registered]
    \/ userCache.loaded /\ UNCHANGED userCache

SinceID == IF cursorFile.ok THEN cursorFile.id ELSE 0

\* (As MaxLogID, with 0 for a last log of an unknown user; with the next free id.)
MaxKnownID(since) ==
    IF Len(logs) > since /\ logs[Len(logs)] \in userCache.users THEN Len(logs) ELSE 0
NextLogID(since) == Len(logs) + 1

MaxLogID(since) == IF Len(logs) > since THEN Len(logs) ELSE since

\* Login, the user cache, the cursor and GetAccessLogs.  A cursor that cannot
\* be read counts as 0.
Poll ==
    /\ pc = "polling"
    /\ RefreshUserCacheIfStale
    /\ \E since \in {SinceID, 0} :
         /\ batch' = {i \in LogID : i > since}
         /\ newMax' = MaxLogID(since)
         /\ IF since = SinceID THEN UNCHANGED faults ELSE Fault("read", MaxRead)
    /\ pc' = "fetched"
    /\ UNCHANGED <<clock, conn, disk, server, skipped>>

\* The clock does not answer Login, LoadUsers or GetAccessLogs.
PollFails ==
    /\ pc = "polling"
    /\ RefreshUserCacheIfStale \/ UNCHANGED userCache
    /\ Fault("net", MaxNet)
    /\ pc' = "idle"
    /\ UNCHANGED <<clock, newMax, batch, conn, disk, server, skipped>>

\* (As BuildEvents, with the last log left out.)
BuildEventsButLast(fetched) == {i \in fetched : i < newMax /\ logs[i] \in userCache.users}

BuildEvents(fetched) == {i \in fetched : logs[i] \in userCache.users}

\* saveLastSyncID, and then the events of the users in the cache are built.
SaveCursor ==
    /\ pc = "fetched"
    /\ IF batch # {}
         THEN Write(cursorFile', [ok |-> TRUE, id |-> newMax], {cursorFile, TornCursor})
         ELSE UNCHANGED <<cursorFile, faults>>
    /\ batch' = BuildEvents(batch)
    /\ skipped' = skipped \cup (batch \ BuildEvents(batch))
    /\ pc' = "built"
    /\ UNCHANGED <<clock, userCache, newMax, conn, pendingFile, server>>

PostEvents ==
    /\ pc = "built"
    /\ IF batch = {}
         THEN pc' = "idle" /\ UNCHANGED <<handlers, conn>>
         ELSE Post(batch) /\ pc' = "posting"
    /\ UNCHANGED <<clock, userCache, newMax, batch, disk, punches, skipped, faults>>

PostSucceeds ==
    /\ pc = "posting"
    /\ Answered
    /\ batch' = {}
    /\ pc' = "idle"
    /\ UNCHANGED <<clock, userCache, newMax, disk, punches, skipped, faults>>

\* (As Queued, with a queue that is always empty.)
QueuedNothing == {}

\* pending.Load of a file that is read: its events, and none if they cannot be
\* parsed, the error being ignored.
Queued == IF pendingFile.ok THEN pendingFile.events ELSE {}

\* The events join those of the retry file.  They replace a file that cannot be
\* parsed, and, the error of the read being ignored, one that cannot be read
\* just now.  (A write that fails after a read that failed leaves the file as
\* one that fails after a good read does.)
PostFails ==
    /\ pc = "posting"
    /\ conn = NoHandler
    /\ \/ Write(pendingFile', [ok |-> TRUE, events |-> Queued \cup batch], {pendingFile, TornQueue})
       \/ pendingFile' = [ok |-> TRUE, events |-> batch] /\ Fault("read", MaxRead)
    /\ batch' = {}
    /\ pc' = "idle"
    /\ UNCHANGED <<clock, userCache, newMax, conn, cursorFile, server, skipped>>

\* The process dies and is started again.  A file that was being written is
\* left truncated; the removal of the retry file is atomic.
Crash ==
    /\ Fault("crash", MaxCrash)
    /\ \/ UNCHANGED cursorFile
       \/ pc = "fetched" /\ batch # {} /\ cursorFile' = TornCursor
    /\ \/ UNCHANGED pendingFile
       \/ pc = "posting" /\ conn = NoHandler /\ pendingFile' = TornQueue
    /\ pc' = "idle"
    /\ userCache' = [loaded |-> FALSE, users |-> {}]
    /\ newMax' = 0
    /\ batch' = {}
    /\ conn' = NoHandler
    /\ UNCHANGED <<clock, server, skipped>>

------------------------------------------------------------------------------
(* The network and the API.                                                *)

\* The agent gets an error or webhookTimeout expires.  The handler is gone
\* (the request never arrived, or failed half way) or works on.
RequestFails ==
    /\ conn # NoHandler
    /\ Fault("net", MaxNet)
    /\ conn' = NoHandler
    /\ \/ UNCHANGED handlers
       \/ handlers' = [handlers EXCEPT ![conn] = Free]
    /\ UNCHANGED <<clock, pc, userCache, newMax, batch, disk, punches, skipped>>

\* A handler nobody waits for has ingested everything, or dies.
OrphanEnds(h) ==
    /\ handlers[h].busy
    /\ conn # h
    /\ handlers[h].todo = {}
    /\ handlers' = [handlers EXCEPT ![h] = Free]
    /\ UNCHANGED <<clock, agent, disk, punches, skipped, faults>>

OrphanDies(h) ==
    /\ handlers[h].busy
    /\ conn # h
    /\ Fault("net", MaxNet)
    /\ handlers' = [handlers EXCEPT ![h] = Free]
    /\ UNCHANGED <<clock, agent, disk, punches, skipped>>

\* (As Done, with the loop left after the first event.)
DoneWithAll(h, e) == [handlers EXCEPT ![h].todo = {}, ![h].event = 0]

Done(h, e) == [handlers EXCEPT ![h].todo = @ \ {e}, ![h].event = 0]

\* ingest_punch, first half: the SELECT by (device_id, external_event_id).
LookUp(h) ==
    /\ handlers[h].event = 0
    /\ \E e \in handlers[h].todo :
         /\ \A f \in handlers[h].todo : e <= f
         /\ handlers' = IF e \in Recorded
                          THEN Done(h, e)
                          ELSE [handlers EXCEPT ![h].event = e]
    /\ UNCHANGED <<clock, agent, disk, punches, skipped, faults>>

\* (As InsertRow, without the unique constraint.)
InsertAnyhow(e) == Append(punches, e)

\* If another handler has committed the event since the SELECT, the unique
\* constraint of (device_id, external_event_id) raises IntegrityError.
InsertRow(e) == IF e \in Recorded THEN punches ELSE Append(punches, e)

\* ingest_punch, second half: the INSERT and its COMMIT; or the ROLLBACK, which
\* expires the handler's device, so that the SELECT for the other handler's row
\* raises (device.id) and the request ends in a 500, the rest of its events
\* not handled.
Insert(h) ==
    LET e == handlers[h].event
    IN  /\ e # 0
        /\ punches' = InsertRow(e)
        /\ IF e \in Recorded
             THEN /\ handlers' = [handlers EXCEPT ![h] = Free]
                  /\ conn' = IF conn = h THEN NoHandler ELSE conn
             ELSE handlers' = Done(h, e) /\ UNCHANGED conn
        /\ UNCHANGED <<clock, pc, userCache, newMax, batch, disk, skipped, faults>>

------------------------------------------------------------------------------
Clock == \E u \in User : Punch(u) \/ Register(u)

Cycle ==
    \/ StartCycle \/ FlushSucceeds \/ FlushFails
    \/ Poll \/ SaveCursor
    \/ PostEvents \/ PostSucceeds \/ PostFails

Serve(h) == OrphanEnds(h) \/ LookUp(h) \/ Insert(h)

Faulty == PollFails \/ Crash \/ RequestFails \/ \E h \in Handler : OrphanDies(h)

Next == Clock \/ Cycle \/ (\E h \in Handler : Serve(h)) \/ Faulty

Spec == Init /\ [][Next]_vars

\* The goroutine of Run keeps cycling and the API's event loop keeps running
\* its handlers; faults are limited by their bounds.
FairSpec == Spec /\ WF_vars(Cycle) /\ \A h \in Handler : WF_vars(Serve(h))

------------------------------------------------------------------------------
UserCache    == [loaded : BOOLEAN, users : SUBSET User]
CursorFile   == [ok : BOOLEAN, id : 0..Len(logs)]
PendingFile  == [ok : BOOLEAN, events : SUBSET LogID]
HandlerState == [busy : BOOLEAN, todo : SUBSET LogID, event : 0..Len(logs)]

TypeOK ==
    /\ logs \in Seq(User)
    /\ registered \in SUBSET User
    /\ pc \in {"idle", "flushing", "polling", "fetched", "built", "posting"}
    /\ userCache \in UserCache
    /\ newMax \in 0..Len(logs)
    /\ batch \in SUBSET LogID
    /\ conn \in Handler \cup {NoHandler}
    /\ cursorFile \in CursorFile
    /\ pendingFile \in PendingFile
    /\ handlers \in [Handler -> HandlerState]
    /\ punches \in Seq(LogID)
    /\ skipped \in SUBSET LogID
    /\ faults \in [FaultKind -> Nat]

(***************************************************************************)
(* An event of the clock is stored at most once, however many handlers     *)
(* ingest it at the same time (a POST that timed out is still being        *)
(* processed when the retry file sends its events again):                  *)
(* ingest_punch's SELECT and the unique constraint behind it.              *)
(***************************************************************************)
AtMostOnce == \A i, j \in DOMAIN punches : punches[i] = punches[j] => i = j

(***************************************************************************)
(* What the agent waits for is either stored or still to be ingested by    *)
(* the handler it waits for: so a 200 means that every event of the POST   *)
(* is in time_punches, and the retry file may be removed.                  *)
(***************************************************************************)
AckMeansStored ==
    conn # NoHandler =>
        /\ pc = "flushing" => pendingFile.events \subseteq Recorded \cup handlers[conn].todo
        /\ pc = "posting" => batch \subseteq Recorded \cup handlers[conn].todo

(***************************************************************************)
(* While the agent does not crash and reads and writes its files, no       *)
(* failure of the network, of the API or of the clock loses a punch: every *)
(* log below the cursor is stored, in the retry file, in the hands of the  *)
(* current cycle, or was ignored by BuildEvents.                           *)
(***************************************************************************)
NoLossByNetwork ==
    (\A kind \in {"disk", "read", "crash"} : faults[kind] = 0) =>
        \A i \in 1..cursorFile.id :
            i \in Recorded \cup pendingFile.events \cup batch \cup skipped

(***************************************************************************)
(* An event that is not stored leaves the retry file only in a step that   *)
(* truncates the file (a write that fails or a crash in its middle) or     *)
(* overwrites it because it could not be read (runCycle ignores the error  *)
(* of pending.Load): not by a lost or late answer, a retry, a handler that *)
(* dies half way or a restart, however often they come together.           *)
(***************************************************************************)
QueueKeepsUntilStored ==
    [][pendingFile'.ok /\ faults'["read"] = faults["read"] =>
         \A e \in pendingFile.events \ pendingFile'.events : e \in Recorded]_vars

(***************************************************************************)
(* The persisted cursor never goes back, unless a crash truncates its      *)
(* file; it then restarts from 0, which is safe (AtMostOnce).              *)
(***************************************************************************)
CursorNeverGoesBack ==
    [][cursorFile.ok /\ cursorFile'.ok => cursorFile'.id >= cursorFile.id]_vars

(***************************************************************************)
(* The agent only gives up a punch that is not stored when it crashes,     *)
(* when it cannot read or write its files, or when the user is unknown:    *)
(* liveness, for a log of a user in the cache.  Checked without crashes    *)
(* and failed reads and writes.                                            *)
(***************************************************************************)
KnownPunchArrives ==
    \A i \in 1..MaxLog :
        (i \in LogID /\ logs[i] \in userCache.users /\ i > cursorFile.id) ~> (i \in Recorded)

(***************************************************************************)
(* An event in the retry file is stored in the end.  Checked without       *)
(* crashes and failed reads and writes.                                    *)
(***************************************************************************)
QueuedIsDelivered ==
    \A i \in 1..MaxLog : (i \in pendingFile.events) ~> (i \in Recorded)

\* The pipeline keeps the promise of the ledger, with time_punches as the ledger.
Ledger == INSTANCE PunchLedger WITH ledger <- punches
LedgerSpec == Ledger!Spec

------------------------------------------------------------------------------
(* What the comments of the code say, and the code does not do.            *)

(***************************************************************************)
(* agent/internal/sync/payload.go:27-30: a log of an unknown user is       *)
(* processed by a later cycle, because its id is still greater than the    *)
(* cursor, which is persisted only after it was processed.                 *)
(***************************************************************************)
SkippedStaysAheadOfCursor == \A i \in skipped \ Recorded : i > cursorFile.id
==============================================================================
