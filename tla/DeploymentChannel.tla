-------------------------- MODULE DeploymentChannel --------------------------
(***************************************************************************)
(* The deployment channel: the central node's desired-state file watcher   *)
(* (file_watcher.go) and its handler (app.go 177-199), the node registry's *)
(* deployment streams and broker (node_regisry.go OpenChannel, broker.go), *)
(* every node's receive loop and actual-state ticker (app.go 278-351), and *)
(* the central actual-state aggregator (app.go 203-272).                  *)
(*                                                                         *)
(* The desired-state file holds version 0..MaxEdits; every version has an *)
(* entry for every host. A node's reconciliation (Orchestrator.tla) is    *)
(* abstracted to its outcome: running[n] is the version whose images the  *)
(* node's containers reflect, or NoImages after an empty image list.      *)
(* A message is a record; JSON encoding is left out because every message *)
(* round-trips.                                                           *)
(***************************************************************************)
EXTENDS Integers, Sequences, FiniteSets

CONSTANTS
    Central,          \* the node with enableCentralMode
    Sats,             \* satellites
    Cap,              \* capacity of a broker reader (broker.go 47: 5)
    MaxEdits,         \* bound on edits of the desired-state file
    MaxReports,       \* bound on actual-state reports of all tickers
    SaveOps,          \* how saves reach the file: "write", "replace", "move"
    IntendedEmission  \* TRUE: starting/stopped are emitted when JSON succeeds

Nodes == {Central} \cup Sats

ASSUME /\ Central \notin Sats /\ Cap \in Nat \ {0} /\ IntendedEmission \in BOOLEAN
       /\ SaveOps \subseteq {"write", "replace", "move"}

Versions == 0..MaxEdits
Empty == -1          \* lastRead holding no bytes
NoImages == -1       \* a node whose containers follow an empty image list

Desired(v) == [type |-> "DESIRED", host |-> Central, state |-> "running", ver |-> v]
Actual(h, st, v) == [type |-> "ACTUAL", host |-> h, state |-> st, ver |-> v]

(* config.DeploymentConfigForStartingNode / ForStoppedNode: one host, no   *)
(* images.                                                                *)
StartingConfig(h) == Actual(h, "starting", NoImages)
StoppedConfig(h) == Actual(h, "stopped", NoImages)

Msgs == {Desired(v) : v \in Versions}
        \cup {Actual(h, "running", v) : h \in Nodes, v \in Versions \cup {NoImages}}
        \cup {StartingConfig(h) : h \in Nodes} \cup {StoppedConfig(h) : h \in Nodes}

VARIABLES
    file,       \* version held by the desired-state file
    fsPending,  \* ops of the fsnotify events queued for the file
    watched,    \* the file's path is in the fsnotify watch list
    wOp,        \* op of the event Watch is handling ("none" for Diff's)
    lastRead,   \* FileWatcher.lastRead
    wPc,        \* Watch goroutine: "wait" | "send" | "process"
    wPrev,      \* the handler's a (lastRead when the event was taken)
    wCur,       \* the handler's b (the content read)
    mainPc,     \* central main goroutine: "inject" (Diff(false)) | "loop"
    aggPc,      \* aggregator: "recv" | "inject" (Diff(true)) | "write"
    conn,       \* node -> "down" | "up" | "gone": its deployment stream
    chRead,     \* node -> messages in its broker reader and on its stream
    running,    \* node -> version its containers reflect
    tick,       \* node -> "idle" | "send"
    tickVal,    \* node -> version listed by the ticker
    reports,
    global,     \* aggregator's globalActualDplmCfg: host -> state
    actualFile  \* host -> state persisted in global_actual_state.json

vars == <<file, fsPending, watched, wOp, lastRead, wPc, wPrev, wCur, mainPc,
          aggPc, conn, chRead, running, tick, tickVal, reports, global,
          actualFile>>

-----------------------------------------------------------------------------
(* broker.Write and Listen: the message goes to every registered reader    *)
(* whose 5-slot buffer has room, and is dropped for a full one. A reader   *)
(* stays registered after its stream ends.                                *)
Deliver(readers, m) ==
    [n \in Nodes |-> IF n \in readers /\ Len(chRead[n]) < Cap
                     THEN Append(chRead[n], m) ELSE chRead[n]]

Readers == {n \in Nodes : conn[n] # "down"}

Fanout(m) == chRead' = Deliver(Readers, m)

(* orchestrator.process on node n for a received configuration: a DESIRED *)
(* configuration has an entry for every host; any other one has an entry  *)
(* for its own host only, and its images are reconciled whatever its state.*)
ProcessEffect(n, m) ==
    CASE m.type = "DESIRED" -> m.ver
      [] m.host = n         -> m.ver
      [] OTHER              -> running[n]

(* The sticky-state coercion of app.go 252-258.                           *)
Coerce(prev, st) ==
    CASE prev = "stopping" /\ st = "running" -> "stopping"
      [] prev = "starting" /\ st = "stopped" -> "starting"
      [] OTHER                                -> st

(* app.go 241-270: read the persisted file, coerce every host the          *)
(* aggregator has a record of, and write it back. The aggregator is the    *)
(* file's only writer in the model, so the read (243) and the write (267)  *)
(* are one step.                                                          *)
Persist(g) ==
    [h \in Nodes |-> IF g[h] = "none" THEN actualFile[h] ELSE Coerce(actualFile[h], g[h])]

(* The node's receive loop and ticker run: on the central node once the   *)
(* initial Diff(false) has returned (app.go 275), elsewhere while its      *)
(* deployment stream is open.                                             *)
LoopRunning(n) == IF n = Central THEN mainPc = "loop" ELSE conn[n] = "up"

-----------------------------------------------------------------------------
(* The central node has opened its deployment stream (app.go 139; with the *)
(* intended emission its own starting record is in its reader) and is     *)
(* blocked in the initial Diff(false).                                    *)
Init ==
    /\ file = 0
    /\ fsPending = {}
    /\ watched = TRUE
    /\ wOp = "none"
    /\ lastRead = Empty
    /\ wPc = "wait"
    /\ wPrev = Empty
    /\ wCur = Empty
    /\ mainPc = "inject"
    /\ aggPc = "recv"
    /\ conn = [n \in Nodes |-> IF n = Central THEN "up" ELSE "down"]
    /\ chRead = [n \in Nodes |->
                   IF n = Central /\ IntendedEmission
                   THEN <<StartingConfig(Central)>> ELSE <<>>]
    /\ running = [n \in Nodes |-> NoImages]
    /\ tick = [n \in Nodes |-> "idle"]
    /\ tickVal = [n \in Nodes |-> NoImages]
    /\ reports = 0
    /\ global = [n \in Nodes |-> "none"]
    /\ actualFile = [n \in Nodes |-> "none"]

(* How a save reaches the watched path, and the fsnotify event it raises   *)
(* on the watched inode: an in-place write (Write); an atomic replace,     *)
(* a temporary file renamed over the path, which unlinks the watched inode *)
(* (Remove, and fsnotify drops the watch); a move of the file away and a    *)
(* new file written at the path (Rename on the old inode; the new file is  *)
(* not watched). Only "write" leaves the path watched.                    *)
SaveEvent == [write |-> "write", replace |-> "remove", move |-> "rename"]

(* An operator saves a new desired state; while the path is watched,      *)
(* fsnotify queues an event, otherwise the save raises none. Events of one *)
(* op queued together are handled alike, so they are kept once.            *)
Save(op) ==
    /\ file < MaxEdits
    /\ file' = file + 1
    /\ fsPending' = IF watched THEN fsPending \cup {SaveEvent[op]} ELSE fsPending
    /\ watched' = (watched /\ op = "write")
    /\ UNCHANGED <<wOp, lastRead, wPc, wPrev, wCur, mainPc, aggPc, conn, chRead,
                   running, tick, tickVal, reports, global, actualFile>>

(* NodeRegistryServer.OpenChannel for a satellite: its reader is registered*)
(* with the broker, then the starting record is written only when its JSON *)
(* conversion fails (node_regisry.go 132-138), which it never does.        *)
Connect(n) ==
    /\ conn[n] = "down"
    /\ conn' = [conn EXCEPT ![n] = "up"]
    /\ chRead' = IF IntendedEmission
                 THEN Deliver(Readers \cup {n}, StartingConfig(n))
                 ELSE chRead
    /\ UNCHANGED <<file, fsPending, lastRead, wPc, wPrev, wCur, mainPc, aggPc,
                   running, tick, tickVal, reports, global, actualFile, watched, wOp>>

(* The satellite's stream ends: OpenChannel writes the stopped record only *)
(* when its JSON conversion fails (node_regisry.go 141-150) and cancels    *)
(* the forwarding goroutine; the reader stays registered with the broker.  *)
Disconnect(n) ==
    /\ conn[n] = "up"
    /\ conn' = [conn EXCEPT ![n] = "gone"]
    /\ IF IntendedEmission THEN Fanout(StoppedConfig(n)) ELSE UNCHANGED chRead
    /\ UNCHANGED <<file, fsPending, lastRead, wPc, wPrev, wCur, mainPc, aggPc,
                   running, tick, tickVal, reports, global, actualFile, watched, wOp>>

(* Watch takes an fsnotify event, reads the file and calls the handler     *)
(* with lastRead and the content (file_watcher.go 58-73). waitUntilFind    *)
(* spins while the path is missing, so every save reads its own content.  *)
WatchTakeEvent ==
    /\ wPc = "wait"
    /\ \E op \in fsPending :
         /\ fsPending' = fsPending \ {op}
         /\ wOp' = op
    /\ wPrev' = lastRead
    /\ wCur' = file
    /\ wPc' = "send"
    /\ UNCHANGED <<file, watched, lastRead, mainPc, aggPc, conn, chRead, running,
                   tick, tickVal, reports, global, actualFile>>

(* Watch takes the event a blocked Diff call sends (file_watcher.go 109): *)
(* the main goroutine's Diff(false) or the aggregator's Diff(true).        *)
WatchTakeDiff ==
    /\ wPc = "wait"
    /\ \/ mainPc = "inject" /\ mainPc' = "loop" /\ UNCHANGED aggPc
       \/ aggPc = "inject" /\ aggPc' = "write" /\ UNCHANGED mainPc
    /\ wPrev' = lastRead
    /\ wCur' = file
    /\ wPc' = "send"
    /\ wOp' = "none"
    /\ UNCHANGED <<file, fsPending, watched, lastRead, conn, chRead, running,
                   tick, tickVal, reports, global, actualFile>>

(* After the handler Watch stores the content as lastRead (line 76) and,  *)
(* for a Rename event only, adds the path to the watch list again (78-81). *)
ReAdd == watched' = (watched \/ wOp = "rename")

(* The handler (app.go 177-196): equal bytes return at once and Watch      *)
(* goes on with lines 76-81; otherwise the content goes out as DESIRED on  *)
(* the central node's stream and through the broker.                      *)
WatchSend ==
    /\ wPc = "send"
    /\ \/ /\ wPrev = wCur
          /\ lastRead' = wCur
          /\ ReAdd
          /\ wPc' = "wait"
          /\ UNCHANGED chRead
       \/ /\ wPrev # wCur
          /\ Fanout(Desired(wCur))
          /\ wPc' = "process"
          /\ UNCHANGED <<lastRead, watched>>
    /\ UNCHANGED <<file, fsPending, wOp, wPrev, wCur, mainPc, aggPc, conn, running,
                   tick, tickVal, reports, global, actualFile>>

(* The handler reconciles the central node (app.go 197), then Watch goes   *)
(* on with file_watcher.go 76-81.                                         *)
WatchProcess ==
    /\ wPc = "process"
    /\ running' = [running EXCEPT ![Central] = wCur]
    /\ lastRead' = wCur
    /\ ReAdd
    /\ wPc' = "wait"
    /\ UNCHANGED <<file, fsPending, wOp, wPrev, wCur, mainPc, aggPc, conn, chRead,
                   tick, tickVal, reports, global, actualFile>>

(* The ticker lists the running managed containers (app.go 282-312).      *)
Ticker(n) ==
    /\ LoopRunning(n)
    /\ tick[n] = "idle"
    /\ reports < MaxReports
    /\ tick' = [tick EXCEPT ![n] = "send"]
    /\ tickVal' = [tickVal EXCEPT ![n] = running[n]]
    /\ reports' = reports + 1
    /\ UNCHANGED <<file, fsPending, lastRead, wPc, wPrev, wCur, mainPc, aggPc,
                   conn, chRead, running, global, actualFile, watched, wOp>>

(* ... and sends them as this host's ACTUAL running record (app.go        *)
(* 314-325), which the server writes to the broker.                       *)
TickSend(n) ==
    /\ tick[n] = "send"
    /\ conn[n] = "up"
    /\ Fanout(Actual(n, "running", tickVal[n]))
    /\ tick' = [tick EXCEPT ![n] = "idle"]
    /\ UNCHANGED <<file, fsPending, lastRead, wPc, wPrev, wCur, mainPc, aggPc,
                   conn, running, tickVal, reports, global, actualFile, watched, wOp>>

(* The receive loop (app.go 330-351) reconciles every message it takes,    *)
(* DESIRED or ACTUAL.                                                      *)
RecvMain(n) ==
    /\ LoopRunning(n)
    /\ chRead[n] # <<>>
    /\ running' = [running EXCEPT ![n] = ProcessEffect(n, Head(chRead[n]))]
    /\ chRead' = [chRead EXCEPT ![n] = Tail(@)]
    /\ UNCHANGED <<file, fsPending, watched, wOp, lastRead, wPc, wPrev, wCur,
                   mainPc, aggPc, conn, tick, tickVal, reports, global, actualFile>>

(* The aggregator's Recv on the same stream (app.go 206-240): a DESIRED    *)
(* message is skipped; a starting record of one host calls Diff(true),    *)
(* which empties lastRead and blocks until Watch takes its event; a        *)
(* running or stopped record is stored and the actual-state file is        *)
(* rewritten.                                                             *)
RecvAgg ==
    /\ aggPc = "recv"
    /\ chRead[Central] # <<>>
    /\ LET m == Head(chRead[Central]) IN
         \/ /\ m.type # "ACTUAL"
            /\ UNCHANGED <<lastRead, aggPc, global, actualFile>>
         \/ /\ m.type = "ACTUAL" /\ m.state = "starting"
            /\ lastRead' = Empty
            /\ aggPc' = "inject"
            /\ UNCHANGED <<global, actualFile>>
         \/ /\ m.type = "ACTUAL" /\ m.state \in {"running", "stopped"}
            /\ global' = [global EXCEPT ![m.host] = m.state]
            /\ actualFile' = Persist(global')
            /\ UNCHANGED <<lastRead, aggPc>>
    /\ chRead' = [chRead EXCEPT ![Central] = Tail(@)]
    /\ UNCHANGED <<file, fsPending, wPc, wPrev, wCur, mainPc, conn, running,
                   tick, tickVal, reports, watched, wOp>>

(* After Diff(true) returns, the file is rewritten (app.go 241-270).      *)
AggWrite ==
    /\ aggPc = "write"
    /\ actualFile' = Persist(global)
    /\ aggPc' = "recv"
    /\ UNCHANGED <<file, fsPending, lastRead, wPc, wPrev, wCur, mainPc, conn,
                   chRead, running, tick, tickVal, reports, global, watched, wOp>>

Next ==
    \/ \E op \in SaveOps : Save(op)
    \/ WatchTakeEvent \/ WatchTakeDiff \/ WatchSend \/ WatchProcess
    \/ RecvAgg \/ AggWrite
    \/ \E n \in Sats : Connect(n) \/ Disconnect(n)
    \/ \E n \in Nodes : Ticker(n) \/ TickSend(n) \/ RecvMain(n)

(* Every goroutine that has work runs: Watch, the receive loops, the        *)
(* aggregator and the tickers (5 s period). Operators, satellites starting  *)
(* and stopping are not obliged to act.                                    *)
Fairness ==
    /\ WF_vars(WatchTakeEvent) /\ WF_vars(WatchTakeDiff)
    /\ WF_vars(WatchSend) /\ WF_vars(WatchProcess)
    /\ WF_vars(RecvAgg) /\ WF_vars(AggWrite)
    /\ \A n \in Nodes : WF_vars(Ticker(n)) /\ WF_vars(TickSend(n)) /\ WF_vars(RecvMain(n))

Spec == Init /\ [][Next]_vars /\ Fairness

-----------------------------------------------------------------------------
(* Every save of the desired-state file is published: once the edits stop, *)
(* Watch ends idle with no event pending and lastRead equal to the file,   *)
(* so the last save was compared with the bytes handled before it and sent  *)
(* as DESIRED if they differed (spec.md: "file changes broadcast a new     *)
(* desired configuration"), however the save was made and however its     *)
(* events interleave with the handler and Diff (file_watcher.go 53-110,   *)
(* app.go 177-199).                                                        *)
LastEditPublished == <>[](wPc = "wait" /\ fsPending = {} /\ lastRead = file)

(* A node never goes back to an older desired state than the one its       *)
(* containers reflect.                                                      *)
NoRevert == [][\A n \in Nodes : running'[n] >= running[n]]_vars

(* Every satellite that stays connected ends up running the desired state  *)
(* the file holds.                                                         *)
DesiredReachesSatellites ==
    <>[](\A n \in Sats : conn[n] = "up" => running[n] = file)
=============================================================================
