---------------------------- MODULE Orchestrator ----------------------------
(***************************************************************************)
(* Reconciliation on one node: orchestrator.process (orchestrator.go),    *)
(* diff, and the Docker container manager it drives                       *)
(* (docker_container_manager.go).                                         *)
(*                                                                         *)
(* A run of process lists the containers, computes the images to remove   *)
(* and to install with diff, and then calls the runtime for one image at  *)
(* a time. Several runs may be active at once: the central node calls     *)
(* process from the desired-file handler and from its receive loop.       *)
(* Every runtime call is one atomic step and may fail. The service         *)
(* announcements reach this node's entry of the service registry, which   *)
(* is kept as a set of (bundle, port) pairs.                              *)
(*                                                                         *)
(* The status manager's web UI (carisma-status-manager) drives the same   *)
(* runtime: its "stop" and "start" actions call StopContainer and         *)
(* StartContainer on any container of the node, concurrently with process.*)
(* A container's st is "none" (no container), "created" (exists but not   *)
(* running: created, or exited after a stop) or "up".                     *)
(***************************************************************************)
EXTENDS Integers, Sequences, FiniteSets, SequencesExt

CONSTANTS
    Callers,        \* goroutines that call process on this node
    Names,          \* fully qualified image names of apps
    Versions,       \* image tags
    EnvoyName,      \* name of the sidecar image, exempt from removal
    Slots,          \* container slots of the runtime; a container's port
    EnvoySlot,      \* the sidecar's container, started by runEnvoy
    KeepSlot,       \* a container named /carisma-keep-..., unmanaged
    KeepImage,      \* the image of the unmanaged container
    Preexisting,    \* app containers already up when the orchestrator starts
    DesiredConfigs, \* image lists of this host's entry in DESIRED messages
    MaxRuns,        \* bound on the runs of process
    MaxFaults,      \* bound on failing runtime calls
    MaxUIOps,       \* bound on the status manager's stop/start requests
    MaxRestarts     \* bound on crashes and restarts of the orchestrator

AppImages == [name : Names, version : Versions]
EnvoyImage == [name |-> EnvoyName, version |-> "v1.27"]
Images == AppImages \cup {EnvoyImage, KeepImage}
AppSlots == Slots \ {EnvoySlot, KeepSlot}

ASSUME /\ {EnvoySlot, KeepSlot} \subseteq Slots
       /\ KeepImage \in AppImages \cup {[name |-> "keep", version |-> "1"]}
       /\ \A pre \in Preexisting : DOMAIN pre \subseteq AppSlots
       /\ DesiredConfigs \subseteq Seq(AppImages)

VARIABLES
    ctr,     \* slot -> [img, st]; st "none" means no container in that slot
    reg,     \* (bundle, port) pairs this node has announced as registered
    pc,      \* caller -> "idle" | "rm" | "in"
    todoRm,  \* caller -> images still to remove in the current run
    todoIn,  \* caller -> images still to install in the current run
    input,   \* caller -> desired image list of the current or last run
    clean,   \* caller -> the current run met no fault and no other run
    runs,
    faults,
    uiOps,   \* stop/start requests the status manager has made
    restarts \* crashes and restarts of the orchestrator process

vars == <<ctr, reg, pc, todoRm, todoIn, input, clean, runs, faults, uiOps,
          restarts>>

NoContainer == [img |-> EnvoyImage, st |-> "none"]

(* The bundle ID read from info.json: both versions of an app declare the *)
(* same bundle, so it is the image name.                                  *)
Bundle(img) == img.name

-----------------------------------------------------------------------------
(* diff(a, b): the images of b whose name is not in a, or whose version    *)
(* differs from the version a last gives that name. memory is keyed by     *)
(* name, so a later entry of a overwrites an earlier one.                 *)
Memory(a) ==
    [n \in {a[k].name : k \in DOMAIN a} |->
        a[CHOOSE k \in DOMAIN a :
              a[k].name = n /\ \A j \in DOMAIN a : a[j].name = n => j <= k].version]

diff_NoVersion(a, b) ==
    SelectSeq(b, LAMBDA i : i.name \notin DOMAIN Memory(a))

diff(a, b) ==
    LET mem == Memory(a)
    IN  SelectSeq(b, LAMBDA i : i.name \notin DOMAIN mem \/ mem[i.name] # i.version)

Managed(c) == {s \in Slots \ {KeepSlot} : c[s].st = "up"}

(* ExtractImageList over the listed containers, in the runtime's order.   *)
Listings(c) == {[k \in DOMAIN o |-> c[o[k]].img] : o \in SetToSeqs(Managed(c))}

(* ContainerList with the ancestor filter: running containers of the image *)
(* whatever their name.                                                   *)
Running(c, img) == {s \in Slots : c[s].st = "up" /\ c[s].img = img}

Drop_StopOnly(c, s) == [c EXCEPT ![s].st = "exited"]

Drop(c, s) == [c EXCEPT ![s] = NoContainer]

FreeSlots == {s \in AppSlots : ctr[s].st = "none"}

-----------------------------------------------------------------------------
Init ==
    /\ \E pre \in Preexisting :
         ctr = [s \in Slots |->
                  CASE s = EnvoySlot -> [img |-> EnvoyImage, st |-> "up"]
                    [] s = KeepSlot  -> [img |-> KeepImage, st |-> "up"]
                    [] s \in DOMAIN pre -> [img |-> pre[s], st |-> "up"]
                    [] OTHER -> NoContainer]
    /\ reg = {}
    /\ pc = [p \in Callers |-> "idle"]
    /\ todoRm = [p \in Callers |-> <<>>]
    /\ todoIn = [p \in Callers |-> <<>>]
    /\ input = [p \in Callers |-> <<>>]
    /\ clean = [p \in Callers |-> FALSE]
    /\ runs = 0
    /\ faults = 0
    /\ uiOps = 0
    /\ restarts = 0

(* process up to the loops: list the containers, filter them, and compute *)
(* removedImages and newImages. The run is clean if no other run is active.*)
Start(p, d) ==
    /\ pc[p] = "idle"
    /\ runs < MaxRuns
    /\ \E cur \in Listings(ctr) :
         /\ todoRm' = [todoRm EXCEPT ![p] = diff(d, cur)]
         /\ todoIn' = [todoIn EXCEPT ![p] = diff(cur, d)]
    /\ pc' = [pc EXCEPT ![p] = "rm"]
    /\ input' = [input EXCEPT ![p] = d]
    /\ clean' = [q \in Callers |->
                   IF q = p THEN \A r \in Callers : pc[r] = "idle" ELSE FALSE]
    /\ runs' = runs + 1
    /\ UNCHANGED <<ctr, reg, faults, uiOps, restarts>>

(* Containers(ctx) fails: process returns the error before any change.    *)
StartListFails(p) ==
    /\ pc[p] = "idle"
    /\ runs < MaxRuns
    /\ faults < MaxFaults
    /\ runs' = runs + 1
    /\ faults' = faults + 1
    /\ UNCHANGED <<ctr, reg, pc, todoRm, todoIn, input, clean, uiOps, restarts>>

(* One iteration of the removal loop. The sidecar's image is skipped.      *)
(* RemoveImageAndContainer(i, true) removes containerList[0], some running *)
(* container of the image, and on success hUnreg announces its bundle and  *)
(* port. With no running container both calls fail. A failing first call   *)
(* (introspection, ContainerRemove, or ImageRemove after the container is  *)
(* gone) is logged and retried once with verifyBundleConfig false, which   *)
(* removes a running container of the image if one is left; neither call   *)
(* announces anything.                                                    *)
RemoveFirstFails(i) == {ctr} \cup {Drop(ctr, s) : s \in Running(ctr, i)}

RetryRemove(c1, i) == {c1} \cup {Drop(c1, s) : s \in Running(c1, i)}

RemoveStep(p) ==
    LET i == Head(todoRm[p]) IN
    /\ pc[p] = "rm"
    /\ todoRm[p] # <<>>
    /\ todoRm' = [todoRm EXCEPT ![p] = Tail(@)]
    /\ \/ /\ i.name = EnvoyName
          /\ UNCHANGED <<ctr, reg, clean, faults>>
       \/ /\ i.name # EnvoyName
          /\ Running(ctr, i) = {}
          /\ UNCHANGED <<ctr, reg, clean, faults>>
       \/ /\ i.name # EnvoyName
          /\ \E s \in Running(ctr, i) :
                /\ ctr' = Drop(ctr, s)
                /\ reg' = reg \ {<<Bundle(i), s>>}
          /\ UNCHANGED <<clean, faults>>
       \/ /\ i.name # EnvoyName
          /\ Running(ctr, i) # {}
          /\ faults < MaxFaults
          /\ faults' = faults + 1
          /\ clean' = [clean EXCEPT ![p] = FALSE]
          /\ ctr' \in UNION {RetryRemove(c1, i) : c1 \in RemoveFirstFails(i)}
          /\ UNCHANGED reg
    /\ UNCHANGED <<pc, todoIn, input, runs, uiOps, restarts>>

(* The removal loop is done; the installation loop starts.                *)
RemoveDone(p) ==
    /\ pc[p] = "rm"
    /\ todoRm[p] = <<>>
    /\ pc' = [pc EXCEPT ![p] = "in"]
    /\ UNCHANGED <<ctr, reg, todoRm, todoIn, input, clean, runs, faults, uiOps,
                   restarts>>

(* One iteration of the installation loop: PullImageAndCreateContainer    *)
(* with verifyBundleConfig true, then hReg on success. A failing pull or   *)
(* create leaves nothing, a failing start leaves a created container, and  *)
(* a failing introspection leaves a running one; in each case process logs *)
(* and continues without an announcement.                                 *)
InstallStep(p) ==
    LET i == Head(todoIn[p]) IN
    /\ pc[p] = "in"
    /\ todoIn[p] # <<>>
    /\ FreeSlots # {}
    /\ todoIn' = [todoIn EXCEPT ![p] = Tail(@)]
    /\ \/ /\ \E s \in FreeSlots :
                /\ ctr' = [ctr EXCEPT ![s] = [img |-> i, st |-> "up"]]
                /\ reg' = reg \cup {<<Bundle(i), s>>}
          /\ UNCHANGED <<clean, faults>>
       \/ /\ faults < MaxFaults
          /\ faults' = faults + 1
          /\ clean' = [clean EXCEPT ![p] = FALSE]
          /\ \/ ctr' = ctr
             \/ \E s \in FreeSlots, st \in {"created", "up"} :
                  ctr' = [ctr EXCEPT ![s] = [img |-> i, st |-> st]]
          /\ UNCHANGED reg
    /\ UNCHANGED <<pc, todoRm, input, runs, uiOps, restarts>>

(* The installation loop is done; process returns.                        *)
InstallDone(p) ==
    /\ pc[p] = "in"
    /\ todoIn[p] = <<>>
    /\ pc' = [pc EXCEPT ![p] = "idle"]
    /\ UNCHANGED <<ctr, reg, todoRm, todoIn, input, clean, runs, faults, uiOps,
                   restarts>>
(* The status manager's readMessages (status-manager app.go 107-158): a    *)
(* "stop" message calls StopContainer, docker ContainerStop (docker       *)
(* manager 175-181), on any running container, the sidecar and the         *)
(* unmanaged one included; "start" calls StartContainer, ContainerStart   *)
(* (167-173), on a stopped one. The operator's intervention disturbs any  *)
(* run of process, which then no longer counts as clean.                  *)
(* ContainerStop and ContainerStart of the Docker client.                *)
Stopped(c, s) == [c EXCEPT ![s].st = "created"]

Started(c, s) == [c EXCEPT ![s].st = "up"]

StopContainer(s) ==
    /\ uiOps < MaxUIOps
    /\ ctr[s].st = "up"
    /\ ctr' = Stopped(ctr, s)
    /\ uiOps' = uiOps + 1
    /\ clean' = [p \in Callers |-> FALSE]
    /\ UNCHANGED <<reg, pc, todoRm, todoIn, input, runs, faults, restarts>>

StartContainer(s) ==
    /\ uiOps < MaxUIOps
    /\ ctr[s].st = "created"
    /\ ctr' = Started(ctr, s)
    /\ uiOps' = uiOps + 1
    /\ clean' = [p \in Callers |-> FALSE]
    /\ UNCHANGED <<reg, pc, todoRm, todoIn, input, runs, faults, restarts>>

(* The orchestrator process dies at any point between two runtime calls  *)
(* and Run (app.go) starts again; the containers live on in Docker. Every *)
(* run of process in flight is gone. Start-up calls stopEnvoy, which force- *)
(* removes a running sidecar (RemoveImageAndContainer(envoy, false)), then *)
(* Register, which appends a new address record and returns a new node ID, *)
(* and runEnvoy, which creates and starts a fresh sidecar. The service      *)
(* channel is opened under the new ID, whose entry of the service registry *)
(* is empty; what was announced under the old ID stays with the old ID.   *)
(* A sidecar the operator had stopped stays as a created container that    *)
(* process never lists; the model keeps only the running one. A start-up  *)
(* that fails returns from Run, and the next start-up ends as this one.   *)
(* stopEnvoy then runEnvoy (envoy.go): a running sidecar is force-removed *)
(* and a new container of the sidecar image is created and started.       *)
SidecarRenewed(c) == [c EXCEPT ![EnvoySlot] = [img |-> EnvoyImage, st |-> "up"]]

Restart ==
    /\ restarts < MaxRestarts
    /\ ctr' = SidecarRenewed(ctr)
    /\ reg' = {}
    /\ pc' = [p \in Callers |-> "idle"]
    /\ todoRm' = [p \in Callers |-> <<>>]
    /\ todoIn' = [p \in Callers |-> <<>>]
    /\ clean' = [p \in Callers |-> FALSE]
    /\ restarts' = restarts + 1
    /\ UNCHANGED <<input, runs, faults, uiOps>>

Next ==
    \/ Restart
    \/ \E s \in Slots : StopContainer(s) \/ StartContainer(s)
    \/ \E p \in Callers, d \in DesiredConfigs : Start(p, d)
    \/ \E p \in Callers :
         \/ StartListFails(p)
         \/ RemoveStep(p)
         \/ RemoveDone(p)
         \/ InstallStep(p)
         \/ InstallDone(p)

(* Each run of process is a goroutine that keeps running once started.    *)
Spec == Init /\ [][Next]_vars
        /\ \A p \in Callers : WF_vars(RemoveStep(p) \/ RemoveDone(p)
                                      \/ InstallStep(p) \/ InstallDone(p))

-----------------------------------------------------------------------------
ContainerState == [img : Images, st : {"none", "created", "up"}]

TypeOK ==
    /\ ctr \in [Slots -> ContainerState]
    /\ reg \subseteq Names \X AppSlots
    /\ pc \in [Callers -> {"idle", "rm", "in"}]
    /\ \A p \in Callers : ToSet(todoRm[p]) \cup ToSet(todoIn[p]) \subseteq Images
    /\ input \in [Callers -> DesiredConfigs \cup {<<>>}]
    /\ clean \in [Callers -> BOOLEAN]
    /\ runs \in 0..MaxRuns
    /\ faults \in 0..MaxFaults
    /\ uiOps \in 0..MaxUIOps
    /\ restarts \in 0..MaxRestarts

-----------------------------------------------------------------------------
AllIdle == \A p \in Callers : pc[p] = "idle"

(* The running app containers: neither the sidecar nor the unmanaged one. *)
AppRunning == {s \in AppSlots : ctr[s].st = "up"}

RunningImages == {ctr[s].img : s \in AppRunning}

(* A run of process is complete and clean when every caller is idle and   *)
(* the run met no failing runtime call and overlapped no other run.        *)
CleanRunDone(p) == AllIdle /\ clean[p]

RegisteredAfterCleanRun ==
    \A p \in Callers :
        CleanRunDone(p) => reg = {<<Bundle(ctr[s].img), s>> : s \in AppRunning}

(* process installs each desired image once: no two running app           *)
(* containers of one image.                                               *)
NoDuplicateApps ==
    \A s, t \in AppRunning : s # t => ctr[s].img # ctr[t].img

(* diff against its reference: when a run of process starts and neither  *)
(* the desired list nor the listed containers name an app twice, the       *)
(* removal list is the listed images not desired and the install list the  *)
(* desired images not listed (orchestrator.go 88 and 126).                 *)
UniqueNames(a) == \A k, j \in DOMAIN a : a[k].name = a[j].name => k = j

ListedImages == {ctr[s].img : s \in Managed(ctr)}

DiffIsSetDifference ==
    [][\A p \in Callers :
         /\ pc[p] = "idle" /\ pc'[p] = "rm"
         /\ UniqueNames(input'[p])
         /\ \A s, t \in Managed(ctr) : ctr[s].img.name = ctr[t].img.name => s = t
         => /\ ToSet(todoRm'[p]) = ListedImages \ ToSet(input'[p])
            /\ ToSet(todoIn'[p]) = ToSet(input'[p]) \ ListedImages]_vars
=============================================================================
