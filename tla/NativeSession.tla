---------------------------- MODULE NativeSession ----------------------------
(***************************************************************************)
(* One engine process serving one client: serve.go over stdio (purpose     *)
(* "serve"), or an elevated native-serve process behind a named pipe       *)
(* (native_serve_windows.go) whose launch chose the purpose, a read-only   *)
(* "configuration" session or an "install" session that runs only what one *)
(* single-use grant and one confirmation cover (native_install_session.go, *)
(* native_maintenance.go, native_vm.go).  The server thread, the install   *)
(* worker, the VM worker and the watcher of the client process interleave; *)
(* the PC changes under them, the client may stop reading, close its end   *)
(* or die at any moment.                                                   *)
(***************************************************************************)
EXTENDS Admission, Sequences

CONSTANTS
    Purposes,     \* the kinds of session to serve
    Worlds,       \* the states of the PC an observation may find
    Hellos,       \* the first lines a client may send
    Requests,     \* the requests it may send after that, by purpose
    MaxRequests,  \* how many of them, by purpose
    MaxChanges, MaxEvents, MaxInstalls

ASSUME SessionAssumption ==
    /\ Purposes \subseteq {"serve", "configuration", "install"}
    /\ MaxRequests \in [Purposes -> Nat]
    /\ {MaxChanges, MaxEvents, MaxInstalls} \subseteq Nat

Installs == 1 .. MaxInstalls
Threads  == {"server", "install", "vm"}
Kinds    == {"install", "maintenance", "vm"}

VARIABLES
    purpose,  \* --purpose of the launch
    pc,       \* the server thread
    client,   \* [alive, input: has it kept its end open?, reading: our output?]
    writer,   \* [stopped, closed, holder] of the synchronizedWriter
    out,      \* a thread's WriteLine: "idle", or "wait" for the lock and the pipe
    world,    \* what this PC is now
    root,     \* the installation selected at startup
    req,      \* the request being served
    answer,   \* what its reply says: "ok", "error", or "none" yet
    session,  \* nativeInstallSession: [prepared, confirmed, started, vmUsed]
    auth,     \* the authority of each kind: {} or its one grant
    conf,     \* the confirmation being served: {} or [kind, grant]
    intents,  \* how many intents were drawn
    observed, \* GetNativeConfiguration's last answer: {} or [images, drives]
    app,      \* App: [running, done, error, stopping]
    work,     \* each install worker: "free", "run", "report" its end, "done"
    cancelled,\* the workers whose context is cancelled; 0 is the session's own
    vm,       \* [phase, worker, owned, cancelled] of the VM system
    did,      \* history: what the engine ran, in order: [kind, intent, held, room]
    since,    \* history: the observations possible since the confirmation
    sent, changes, events

clientVars  == <<client, sent>>
writerVars  == <<writer, out, events>>
sessionVars == <<session, auth, conf, intents, observed>>
appVars     == <<app, work, cancelled, vm>>
vars == <<purpose, pc, clientVars, writerVars, world, root, req, answer, sessionVars,
          appVars, did, since, changes>>

\* What one observation of the engine can find now.
Observation == [world |-> world, running |-> app.running, phase |-> vm.phase]

NoRequest == [method |-> "", params |-> [shape |-> "none", keys |-> {}, body |-> <<>>]]

Init ==
    /\ purpose \in Purposes
    /\ pc = IF purpose = "serve" THEN "read" ELSE "peer"
    /\ client = [alive |-> TRUE, input |-> TRUE, reading |-> TRUE]
    /\ writer = [stopped |-> FALSE, closed |-> FALSE, holder |-> "none"]
    /\ out = [t \in Threads |-> "idle"]
    /\ world \in Worlds
    /\ root = "unset"
    /\ req = NoRequest /\ answer = "none"
    /\ session = [prepared |-> FALSE, confirmed |-> FALSE, started |-> FALSE, vmUsed |-> FALSE]
    /\ auth = [k \in Kinds |-> {}] /\ conf = {} /\ intents = 0 /\ observed = {}
    /\ app = [running |-> FALSE, done |-> FALSE, error |-> FALSE, stopping |-> FALSE]
    /\ work = [i \in Installs |-> "free"] /\ cancelled = {}
    /\ vm \in [phase : {"absent", "ready"}, worker : {FALSE}, owned : {FALSE}, cancelled : {FALSE}]
    /\ did = <<>> /\ since = {}
    /\ sent = 0 /\ changes = 0 /\ events = 0

-----------------------------------------------------------------------------
(* The transport *)

\* The pipe takes a line if someone reads it; a broken or closed pipe fails at once.
PipeReturns == writer.closed \/ ~client.alive \/ client.reading

\* WriteLine starts: nothing is written once the writer is stopped.
Emit(t) == out' = [out EXCEPT ![t] = IF writer.stopped THEN "idle" ELSE "wait"]

\* It takes the lock, looks again, and writes outside of nobody's way.
WriteLine(t) ==
    /\ out[t] = "wait"
    /\ \/ /\ writer.holder = "none"
          /\ IF writer.stopped
             THEN out' = [out EXCEPT ![t] = "idle"] /\ UNCHANGED writer
             ELSE writer' = [writer EXCEPT !.holder = t] /\ UNCHANGED out
       \/ /\ writer.holder = t
          /\ PipeReturns
          /\ out' = [out EXCEPT ![t] = "idle"]
          /\ writer' = [writer EXCEPT !.holder = "none"]
    /\ UNCHANGED <<purpose, pc, clientVars, world, root, req, answer, sessionVars, appVars,
                   did, changes, events>>

\* Mutant: stop waits for the line being written.
StopBehindLine(w) ==
    IF w.holder = "none" THEN {[w EXCEPT !.stopped = TRUE, !.closed = TRUE]} ELSE {}

\* stop never takes the lock: closing the pipe releases whoever writes.
stop(w) == {[w EXCEPT !.stopped = TRUE, !.closed = TRUE]}

-----------------------------------------------------------------------------
(* Startup of a native session *)

serverVars == <<purpose, client, sent, writerVars, world, sessionVars, appVars, did, changes>>

\* source.checkAlive and the token it was captured with.
checkAlive == client.alive
revalidateToken == checkAlive /\ world.tokenUnchanged

\* Both processes are observed; elevation, session, user, package and path
\* must fit, else the engine ends before it has a pipe.
observeNativeProcessPeer ==
    /\ pc = "peer"
    /\ \/ checkAlive /\ pc' = "connect"
       \/ pc' = "exited"
    /\ UNCHANGED <<serverVars, root, req, answer>>

\* One local-only pipe instance; the wait for the shell ends after 15 s.
connectNativePipe ==
    /\ pc = "connect"
    /\ \/ client.alive /\ client.input /\ pc' = "hello"
       \/ pc' = "exited"
    /\ UNCHANGED <<serverVars, root, req, answer>>

\* The process at the other end is the one observed, and so is its token.
verifyNativePipeClient == checkAlive

\* Same-user capture; the pipe variant has no caller.
captureNativeOriginalUser == purpose = "install" => checkAlive

\* Every folder and group is read before the token is looked at once more.
completeNativeOriginalUser == purpose = "install" => revalidateToken

\* The bounded hello line, within 10 s, then the peer and the person.
Hello ==
    /\ pc = "hello"
    /\ \/ \E raw \in Hellos :
            \E hello \in readNativeHandshake(raw) :
               /\ client.alive /\ client.input
               /\ validateNativeHandshake(hello, raw.keys)
               /\ verifyNativePipeClient
               /\ captureNativeOriginalUser /\ completeNativeOriginalUser
               /\ pc' = "select"
       \/ \E raw \in Hellos :
            /\ readNativeHandshake(raw) = {} \/ ~validateNativeHandshake(raw.body, raw.keys)
            /\ pc' = "exited"
       \/ pc' = "exited"
    /\ UNCHANGED <<serverVars, root, req, answer>>

\* Selection only reads; the shell is told each phase, and a client that does
\* not read, or the deadline, ends the startup.
prepareNativeAssessment ==
    /\ pc = "select"
    /\ \/ /\ selectWindowsStatusState(world) # "error"
          /\ client.alive /\ client.reading
          /\ root' = selectWindowsStatusState(world)
          /\ pc' = "read"
       \/ pc' = "exited" /\ UNCHANGED root
    /\ UNCHANGED <<serverVars, req, answer>>

\* The source process is polled; when it is gone, the run context ends and
\* the connection is closed.
Watch ==
    /\ purpose # "serve"
    /\ pc \notin {"peer", "connect", "hello", "select", "exited"}
    /\ ~client.alive
    /\ writer' = [writer EXCEPT !.closed = TRUE]
    /\ cancelled' = cancelled \union {0} \union {i \in Installs : work[i] # "free"}
    /\ UNCHANGED <<purpose, pc, clientVars, out, events, world, root, req, answer,
                   sessionVars, app, work, vm, did, changes>>

-----------------------------------------------------------------------------
(* The read loop *)

Receive(r) ==
    /\ pc = "read"
    /\ client.alive /\ client.input /\ ~writer.closed
    /\ sent < MaxRequests[purpose]
    /\ sent' = sent + 1
    /\ req' = r
    /\ pc' = "dispatch"
    /\ UNCHANGED <<purpose, client, writerVars, world, root, answer, sessionVars, appVars, did, changes>>

\* The end of input, or a closed connection, ends the loop.
EndOfInput ==
    /\ pc = "read"
    /\ ~client.alive \/ ~client.input \/ writer.closed
    /\ pc' = "stop"
    /\ UNCHANGED <<purpose, clientVars, writerVars, world, root, req, answer, sessionVars,
                   appVars, did, changes>>

\* A handler is done: its answer is a line of its own.
Reply(next, ok) ==
    pc' = next /\ answer' = (IF ok THEN "ok" ELSE "error") /\ Emit("server")

\* What a handler leaves alone unless it says otherwise.
Handling(m) ==
    /\ pc = "dispatch" /\ req.method = m
    /\ UNCHANGED <<purpose, clientVars, writer, events, world, root, req, changes>>

Answered ==
    /\ pc \in {"answer", "bye"}
    /\ out["server"] = "idle"
    /\ pc' = IF pc = "bye" THEN "stop" ELSE "read"
    /\ req' = NoRequest /\ answer' = "none"
    /\ UNCHANGED <<purpose, clientVars, writerVars, world, root, sessionVars,
                   appVars, did, changes>>

InstallMethods ==
    {"GetStatus", "CancelInstall", "Reboot", "GetUninstallInfo", "InspectBoot",
     "GetNativeVMStatus", "PrepareNativeInstall", "ConfirmNativeInstall",
     "PrepareNativeMaintenance", "ConfirmNativeMaintenance",
     "PrepareNativeVMAction", "ConfirmNativeVMAction"}
ConfigurationMethods ==
    {"GetStatus", "GetLastRun", "GetRecoveryVerdict", "GetInstallRecovery",
     "GetNativeConfiguration", "GetNativeInstallSpace", "E2EDriveReport"}
ServeMethods ==
    {"GetStatus", "GetLastRun", "GetRecoveryVerdict", "GetInstallRecovery", "E2EDriveReport",
     "GetUninstallInfo", "InspectBoot", "CancelInstall", "Reboot", "StartInstall",
     "UninstallWith", "BootIntoLinux", "TryInVMFresh", "PrepareVM", "InstallVMRuntime",
     "BootInVM", "StopVM", "ForceStopVM", "Shutdown"}

\* Mutant: the configuration session has no list of its own.
AnyMethod(m) == purpose = "install" => m \in InstallMethods

\* What the session's purpose lets a request ask for; no request can widen it.
MethodAvailable(m) ==
    CASE purpose = "install"       -> m \in InstallMethods
      [] purpose = "configuration" -> m \in ConfigurationMethods
      [] OTHER                     -> m \in ServeMethods

\* A line that is no request, or asks for what this session does not have.
Refuse ==
    /\ Handling(req.method)
    /\ ~MethodAvailable(req.method)
    /\ Reply("answer", FALSE)
    /\ UNCHANGED <<sessionVars, appVars, did>>

-----------------------------------------------------------------------------
(* Observations: they change nothing but what the session remembers *)

\* The selection made at startup is validated before every answer.
startupValidate == purpose = "serve" \/ selectWindowsStatusState(world) = root

NoParams == req.params.shape = "none"

LifecycleReads == {"GetStatus", "GetLastRun", "GetRecoveryVerdict", "GetInstallRecovery"}

\* Whatever it finds, or refuses, the answer is one line.
ReadLifecycle ==
    /\ req.method \in LifecycleReads /\ MethodAvailable(req.method)
    /\ Handling(req.method)
    /\ Reply("answer", startupValidate /\ (req.method = "GetInstallRecovery" => NoParams))
    /\ UNCHANGED <<sessionVars, appVars, did>>

\* Where the installation lives, and the boot check.
read ==
    /\ req.method \in {"GetUninstallInfo", "InspectBoot"} /\ MethodAvailable(req.method)
    /\ Handling(req.method)
    /\ Reply("answer", purpose = "serve" \/ (NoParams /\ startupValidate))
    /\ UNCHANGED <<sessionVars, appVars, did>>

vmStatus ==
    /\ req.method = "GetNativeVMStatus" /\ MethodAvailable(req.method)
    /\ Handling(req.method)
    /\ Reply("answer", NoParams /\ startupValidate)
    /\ UNCHANGED <<sessionVars, appVars, did>>

\* The harness's reports are inert outside of its own environment.
DriveReport ==
    /\ req.method = "E2EDriveReport" /\ MethodAvailable(req.method)
    /\ Handling(req.method)
    /\ Reply("answer", unmarshalStringParam(req.params))
    /\ UNCHANGED <<sessionVars, appVars, did>>

GetNativeConfiguration ==
    LET admitted == NoParams /\ startupValidate /\ world.storageObserved
    IN  /\ Handling("GetNativeConfiguration") /\ MethodAvailable(req.method)
        /\ observed' = IF admitted THEN {[images |-> world.catalogue,
                                          drives |-> {v.drive : v \in world.volumes}]}
                                   ELSE observed
        /\ Reply("answer", admitted)
        /\ UNCHANGED <<session, auth, conf, intents, appVars, did>>

\* Only for an image and a drive the last configuration listed.
installSpace ==
    /\ Handling("GetNativeInstallSpace") /\ MethodAvailable(req.method)
    /\ Reply("answer", /\ req.params.shape = "object" /\ startupValidate
                       /\ \E o \in observed : /\ req.params.body.imageRef \in o.images
                                              /\ req.params.body.storageDrive \in o.drives)
    /\ UNCHANGED <<sessionVars, appVars, did>>

-----------------------------------------------------------------------------
(* The install worker of app.go *)

\* The facts an observation o gives for a plan; {} when it is not admitted.
Facts(g, o) ==
    CASE g.kind = "install"     -> bindNativeInstallPlan(o.world, g.plan)
      [] g.kind = "maintenance" -> admitNativeMaintenance(g.plan, o.running, o.world)
      [] g.kind = "vm"          -> admitNativeVMAction(g.plan, o.running, o.phase, o.world)

\* The history of a run: did the facts it was granted for hold at a moment
\* since the request arrived, and was there room for the deployer?
Record(k, c) ==
    did' = Append(did,
        [kind |-> k, intent |-> c.intent,
         held |-> \E o \in since : c.facts \in Facts(c, o),
         room |-> k = "install" =>
                    \E o \in since : o.world.freeKnown => ensure_scratch_capacity(c.plan, o.world)])

\* A request over stdio carries no grant: it is the user's own click.
Ungranted(k) == did' = Append(did, [kind |-> k, intent |-> 0, held |-> FALSE, room |-> TRUE])

\* Mutant: Running stands for the worker.
StartBesideWorker(i) ==
    /\ work[i] = "free" /\ \A j \in 1 .. i - 1 : work[j] # "free"
    /\ ~app.stopping /\ ~app.running
    /\ app' = [app EXCEPT !.running = TRUE, !.done = FALSE, !.error = FALSE]
    /\ work' = [work EXCEPT ![i] = "run"]
    /\ cancelled' = IF 0 \in cancelled THEN cancelled \union {i} ELSE cancelled
    /\ UNCHANGED vm

\* The slot is owned until the whole worker, cleanup and last event included,
\* has returned: Running may be false before that.
startInstallWorker(i) ==
    /\ work[i] = "free" /\ \A j \in 1 .. i - 1 : work[j] # "free"
    /\ ~app.stopping /\ ~app.running
    /\ \A j \in Installs : work[j] \in {"free", "done"}
    /\ app' = [app EXCEPT !.running = TRUE, !.done = FALSE, !.error = FALSE]
    /\ work' = [work EXCEPT ![i] = "run"]
    /\ cancelled' = IF 0 \in cancelled THEN cancelled \union {i} ELSE cancelled
    /\ UNCHANGED vm

\* StartInstall validates the plan against a new system read.
StartInstall(plan) ==
    /\ validateInstallConfigWith(plan, world, world) # {}
    /\ \E i \in Installs : startInstallWorker(i)

StartInstallRefused(plan) ==
    /\ \/ validateInstallConfigWith(plan, world, world) = {}
       \/ app.stopping \/ app.running
       \/ \E j \in Installs : work[j] \in {"run", "report"}
       \/ \A i \in Installs : work[i] # "free"
    /\ UNCHANGED appVars

\* StartInstall over stdio: no grant, the client is the user's own shell.
ServeStartInstall ==
    /\ Handling("StartInstall") /\ MethodAvailable(req.method)
    /\ \/ \E plan \in unmarshalParams(req.params) :
            \/ /\ StartInstall(plan)
               /\ Record("install", [kind |-> "install", intent |-> 0, plan |-> plan, facts |-> <<>>])
               /\ Reply("answer", TRUE)
            \/ StartInstallRefused(plan) /\ UNCHANGED did /\ Reply("answer", FALSE)
       \/ unmarshalParams(req.params) = {} /\ UNCHANGED <<appVars, did>> /\ Reply("answer", FALSE)
    /\ UNCHANGED sessionVars

\* Cancels the context of the last worker started.
CancelInstall ==
    /\ Handling("CancelInstall") /\ MethodAvailable(req.method)
    /\ cancelled' = cancelled \union
                      {i \in Installs : /\ work[i] # "free"
                                        /\ \A j \in Installs : j > i => work[j] = "free"}
    /\ Reply("answer", TRUE)
    /\ UNCHANGED <<sessionVars, app, work, vm, did>>

workerVars == <<purpose, pc, clientVars, world, root, req, answer, sessionVars, did, changes>>

\* A progress event of the install worker or of the VM worker.
emit(t) ==
    /\ \/ t = "install" /\ \E i \in Installs : work[i] = "run"
       \/ t = "vm" /\ vm.worker
    /\ out[t] = "idle" /\ events < MaxEvents
    /\ events' = events + 1
    /\ Emit(t)
    /\ UNCHANGED <<workerVars, writer, appVars>>

\* runInstall returns: Running is cleared and the outcome set, then the last
\* event is sent unless the run was cancelled.
RunEnds(i) ==
    /\ work[i] = "run" /\ out["install"] = "idle"
    /\ \E end \in {"ok", "error"} \union (IF i \in cancelled THEN {"cancelled"} ELSE {}) :
         /\ app' = [app EXCEPT !.running = FALSE, !.done = @ \/ end = "ok",
                               !.error = @ \/ end = "error"]
         /\ IF end = "cancelled" THEN UNCHANGED out ELSE Emit("install")
    /\ work' = [work EXCEPT ![i] = "report"]
    /\ UNCHANGED <<workerVars, writer, events, cancelled, vm>>

\* close(done)
WorkerReturns(i) ==
    /\ work[i] = "report" /\ out["install"] = "idle"
    /\ work' = [work EXCEPT ![i] = "done"]
    /\ UNCHANGED <<workerVars, writerVars, app, cancelled, vm>>

-----------------------------------------------------------------------------
(* The VM system, as this session sees it *)

\* Preparation and runtime setup return once their worker runs; the others
\* return when they are through.
runNativeVMAction(action) ==
    /\ \/ action = "install-runtime" /\ ~vm.worker
          /\ vm' = [vm EXCEPT !.worker = TRUE, !.cancelled = FALSE]
       \/ action = "prepare" /\ ~vm.worker /\ vm.phase = "absent"
          /\ vm' = [vm EXCEPT !.worker = TRUE, !.cancelled = FALSE, !.phase = "preparing"]
       \/ action = "boot" /\ vm.phase \in {"ready", "stopped"}
          /\ vm' \in {[vm EXCEPT !.phase = "running", !.owned = TRUE],
                      [vm EXCEPT !.phase = "needs_recovery"]}
       \/ action = "stop" /\ vm.owned
          /\ vm' \in {[vm EXCEPT !.phase = p, !.owned = FALSE] : p \in {"stopped", "needs_recovery"}}
       \/ action = "force-stop" /\ vm.owned /\ ~vm.worker
          /\ vm' = [vm EXCEPT !.phase = "needs_recovery", !.owned = FALSE]
       \/ action = "force-stop" /\ vm.worker
          /\ vm' = [vm EXCEPT !.cancelled = TRUE]
    /\ UNCHANGED <<app, work, cancelled>>

\* The worker ends: a runtime changes no phase, a prepared system is started
\* unless it was cancelled, and what failed stays for recovery.
VMWorkerEnds ==
    /\ vm.worker /\ out["vm"] = "idle"
    /\ vm' \in IF vm.phase # "preparing" THEN {[vm EXCEPT !.worker = FALSE]}
               ELSE {[vm EXCEPT !.worker = FALSE, !.phase = "needs_recovery"]}
                      \union (IF vm.cancelled THEN {} ELSE
                              {[vm EXCEPT !.worker = FALSE, !.phase = "running", !.owned = TRUE]})
    /\ UNCHANGED <<workerVars, writerVars, app, work, cancelled>>

GuestEnds ==
    /\ vm.owned
    /\ \E p \in {"stopped", "needs_recovery"} :
         vm' = [vm EXCEPT !.phase = p, !.owned = FALSE]
    /\ UNCHANGED <<workerVars, writerVars, app, work, cancelled>>

VMMethod == [PrepareVM |-> "prepare", InstallVMRuntime |-> "install-runtime",
             BootInVM |-> "boot", StopVM |-> "stop", ForceStopVM |-> "force-stop"]

\* ForceStopVM cancels a preparation and waits for its worker; the other
\* calls answer when they return.
AfterVM(action) ==
    IF action = "force-stop" /\ vm.worker THEN pc' = "force" /\ UNCHANGED <<out, answer>>
                                          ELSE Reply("answer", TRUE)

\* A VM the preparation started before it saw the cancellation is killed.
ForceReturns ==
    /\ pc = "force" /\ ~vm.worker
    /\ vm' = IF vm.owned THEN [vm EXCEPT !.phase = "needs_recovery", !.owned = FALSE] ELSE vm
    /\ Reply("answer", TRUE)
    /\ UNCHANGED <<purpose, clientVars, writer, events, world, root, req, sessionVars,
                   app, work, cancelled, did, changes>>

\* The legacy VM methods; TryInVMFresh always refuses.
ServeVM ==
    /\ req.method \in DOMAIN VMMethod \union {"TryInVMFresh"} /\ MethodAvailable(req.method)
    /\ Handling(req.method)
    /\ \/ /\ req.method \in DOMAIN VMMethod
          /\ req.method = "PrepareVM" => unmarshalParams(req.params) # {}
          /\ runNativeVMAction(VMMethod[req.method])
          /\ AfterVM(VMMethod[req.method])
       \/ UNCHANGED appVars /\ Reply("answer", FALSE)
    /\ UNCHANGED <<sessionVars, did>>

-----------------------------------------------------------------------------
(* Long calls on the server thread, restart and the end of the session *)

\* UninstallWith, BootIntoLinux: the loop waits for them.
ServeAct ==
    /\ req.method \in {"UninstallWith", "BootIntoLinux"} /\ MethodAvailable(req.method)
    /\ Handling(req.method)
    /\ IF req.method = "UninstallWith" /\ unmarshalParams(req.params) = {}
       THEN Reply("answer", FALSE) /\ UNCHANGED did
       ELSE /\ pc' = "act" /\ UNCHANGED <<out, answer>>
            /\ Ungranted("maintenance")
    /\ UNCHANGED <<sessionVars, appVars>>

ActReturns ==
    /\ pc = "act"
    /\ \E ok \in BOOLEAN : Reply("answer", ok)
    /\ UNCHANGED <<purpose, clientVars, writer, events, world, root, req, sessionVars,
                   appVars, did, changes>>

\* Mutant: a restart is offered as soon as the install was started.
RestartEarly(status) == session.started

\* A restart only after this session's own installation finished well.
restart(status) ==
    /\ session.started
    /\ status.done /\ ~status.running /\ ~status.error

Reboot ==
    LET earned == purpose = "serve" \/ (NoParams /\ restart(app))
    IN  /\ Handling("Reboot") /\ MethodAvailable(req.method)
        /\ IF earned
           THEN Ungranted("reboot")
           ELSE UNCHANGED did
        /\ Reply("answer", earned)
        /\ UNCHANGED <<sessionVars, appVars>>

Shutdown ==
    /\ Handling("Shutdown") /\ MethodAvailable(req.method)
    /\ Reply("bye", TRUE)
    /\ UNCHANGED <<sessionVars, appVars, did>>

StopWriter ==
    /\ pc = "stop"
    /\ writer' \in stop(writer)
    /\ pc' = "stopvm"
    /\ UNCHANGED <<purpose, clientVars, out, events, world, root, req, answer, sessionVars,
                   appVars, did, changes>>

\* Preparation is cancelled and waited for, then the VM this engine owns ends.
shutdownVM ==
    /\ pc = "stopvm"
    /\ IF vm.worker
       THEN ~vm.cancelled /\ vm' = [vm EXCEPT !.cancelled = TRUE] /\ UNCHANGED pc
       ELSE /\ pc' = "stopinstall"
            /\ vm' \in IF vm.owned THEN {[vm EXCEPT !.owned = FALSE, !.phase = p] :
                                           p \in {"stopped", "needs_recovery"}}
                                   ELSE {vm}
    /\ UNCHANGED <<purpose, clientVars, writerVars, world, root, req, answer, sessionVars,
                   app, work, cancelled, did, changes>>

\* Mutant: the wait for the worker ends with the grace period.
LeaveAfterGrace ==
    /\ pc = "stopinstall"
    /\ app' = [app EXCEPT !.stopping = TRUE]
    /\ cancelled' = cancelled \union {i \in Installs : work[i] # "free"}
    /\ pc' = "exited"
    /\ UNCHANGED <<purpose, clientVars, writerVars, world, root, req, answer, sessionVars,
                   work, vm, did, changes>>

\* No install starts any more, the running one is cancelled and waited for,
\* however long its cleanup takes.
stopInstall ==
    /\ pc = "stopinstall"
    /\ IF ~app.stopping
       THEN /\ app' = [app EXCEPT !.stopping = TRUE]
            /\ cancelled' = cancelled \union {i \in Installs : work[i] # "free"}
            /\ UNCHANGED pc
       ELSE /\ \A i \in Installs : work[i] \in {"free", "done"}
            /\ pc' = "exited"
            /\ UNCHANGED <<app, cancelled>>
    /\ UNCHANGED <<purpose, clientVars, writerVars, world, root, req, answer, sessionVars,
                   work, vm, did, changes>>

-----------------------------------------------------------------------------
(* The install-purpose session: one plan, one confirmation *)

\* A handler of the session answers without having run anything.
Refused == Reply("answer", FALSE) /\ UNCHANGED <<conf, appVars, did>>

\* The session already holds, or held, a plan or a VM grant.
PlanTaken == session.prepared \/ session.vmUsed

\* The plan asked for, validated, and bound to the physical volume observed now.
boundPlans ==
    LET plans == UNION {validateInstallConfigWith(raw, world, world) :
                          raw \in decodeNativeInstallPlan(req.params)}
    IN  UNION {{[kind |-> "install", intent |-> 0, plan |-> p, facts |-> f, sys |-> world] :
                  f \in bindNativeInstallPlan(world, p)} : p \in plans}

\* The session is spent before the plan is even decoded.
PrepareNativeInstall ==
    /\ Handling("PrepareNativeInstall") /\ MethodAvailable(req.method)
    /\ IF ~startupValidate \/ PlanTaken
       THEN Refused /\ UNCHANGED session
       ELSE /\ session' = [session EXCEPT !.prepared = TRUE]
            /\ \/ boundPlans = {} /\ Refused
               \/ \E b \in boundPlans : /\ conf' = {b} /\ pc' = "grant"
                                        /\ UNCHANGED <<out, answer, appVars, did>>
    /\ UNCHANGED <<auth, intents, observed>>

Grant(kind, plan, facts) ==
    /\ intents' = intents + 1
    /\ auth' = [auth EXCEPT ![kind] = {[intent |-> intents + 1, plan |-> plan, facts |-> facts]}]
    /\ Reply("answer", TRUE)

\* The person, the plan, the selection and the volume are looked at again,
\* with the system facts of the first read, before the intent is drawn.
prepareNativeInstallAuthorization ==
    /\ pc = "grant"
    /\ \E c \in conf :
         IF /\ revalidateToken
            /\ validateInstallConfigWith(c.plan, c.sys, world) # {}
            /\ startupValidate
            /\ unchangedIn(c.facts, world, c.plan)
         THEN Grant("install", c.plan, c.facts)
         ELSE Reply("answer", FALSE) /\ UNCHANGED <<auth, intents>>
    /\ conf' = {}
    /\ UNCHANGED <<purpose, clientVars, writer, events, world, root, req, session, observed,
                   appVars, did, changes>>

\* One observation between two looks at the person.
PrepareNativeMaintenance ==
    /\ Handling("PrepareNativeMaintenance") /\ MethodAvailable(req.method)
    /\ IF ~startupValidate \/ PlanTaken
       THEN Refused /\ UNCHANGED <<session, auth, intents>>
       ELSE /\ session' = [session EXCEPT !.prepared = TRUE]
            /\ LET grants == {<<p, f>> \in decodeNativeMaintenancePlan(req.params) \X
                                UNION {admitNativeMaintenance(p, app.running, world) :
                                         p \in decodeNativeMaintenancePlan(req.params)} :
                                revalidateToken}
               IN  \/ grants = {} /\ Refused /\ UNCHANGED <<auth, intents>>
                   \/ \E g \in grants : /\ Grant("maintenance", g[1], g[2])
                                        /\ UNCHANGED <<conf, appVars, did>>
    /\ UNCHANGED observed

\* VM grants follow each other, one pending at a time: a new one replaces an
\* unconfirmed one.  A session that used one takes no plan.
PrepareNativeVMAction ==
    /\ Handling("PrepareNativeVMAction") /\ MethodAvailable(req.method)
    /\ IF ~startupValidate \/ session.prepared \/ decodeNativeVMPlan(req.params) = {}
       THEN Refused /\ UNCHANGED <<session, auth, intents>>
       ELSE /\ session' = [session EXCEPT !.vmUsed = TRUE]
            /\ \E p \in decodeNativeVMPlan(req.params) :
                 LET facts == admitNativeVMAction(p, app.running, vm.phase, world)
                 IN  IF facts = {} \/ ~revalidateToken
                     THEN Refused /\ auth' = [auth EXCEPT !["vm"] = {}] /\ UNCHANGED intents
                     ELSE /\ \E f \in facts : Grant("vm", p, f)
                          /\ UNCHANGED <<conf, appVars, did>>
    /\ UNCHANGED observed

\* The message carries the words of this session and the intent granted.
Bound(kind, grant) ==
    LET raw == req.params
    IN  IF kind = "install"
        THEN \E c \in decodeNativeInstallConfirmation(raw) : c.bound /\ c.intent = grant.intent
        ELSE /\ strictJSONObject(raw, ConfirmKeys \union {"action"}, ConfirmKeys \union {"action"})
             /\ raw.body.bound /\ raw.body.intent = grant.intent
             /\ raw.body.action = grant.plan.action

\* The first attempt consumes the authority, whatever it says; then the
\* message must be this session's, and the person still there.
Consume(kind, already) ==
    /\ auth' = [auth EXCEPT ![kind] = {}]
    /\ LET usable == {g \in auth[kind] : ~already /\ Bound(kind, g) /\ revalidateToken}
       IN  \/ usable = {} /\ Reply("answer", FALSE) /\ UNCHANGED conf
           \/ \E g \in usable :
                /\ conf' = {[kind |-> kind, intent |-> g.intent, plan |-> g.plan,
                             facts |-> g.facts, sys |-> world]}
                /\ pc' = "observe" /\ UNCHANGED <<out, answer>>

ConfirmNativeInstall ==
    /\ Handling("ConfirmNativeInstall") /\ MethodAvailable(req.method)
    /\ IF startupValidate
       THEN /\ session' = [session EXCEPT !.confirmed = TRUE]
            /\ Consume("install", session.confirmed)
       ELSE Reply("answer", FALSE) /\ UNCHANGED <<session, auth, conf>>
    /\ UNCHANGED <<intents, observed, appVars, did>>

ConfirmNativeMaintenance ==
    /\ Handling("ConfirmNativeMaintenance") /\ MethodAvailable(req.method)
    /\ IF startupValidate
       THEN /\ session' = [session EXCEPT !.confirmed = TRUE]
            /\ Consume("maintenance", session.confirmed)
       ELSE Reply("answer", FALSE) /\ UNCHANGED <<session, auth, conf>>
    /\ UNCHANGED <<intents, observed, appVars, did>>

ConfirmNativeVMAction ==
    /\ Handling("ConfirmNativeVMAction") /\ MethodAvailable(req.method)
    /\ IF startupValidate
       THEN Consume("vm", FALSE)
       ELSE Reply("answer", FALSE) /\ UNCHANGED <<auth, conf>>
    /\ UNCHANGED <<session, intents, observed, appVars, did>>

\* Mutant: the confirmation trusts the observation of the grant.
TrustGrant(c) == TRUE

\* The same observations must still hold.
revalidate(c) ==
    /\ c.kind = "install" => startupValidate
    /\ Facts(c, Observation) = {c.facts}

ObserveAgain ==
    /\ pc = "observe"
    /\ \E c \in conf :
         IF revalidate(c) THEN pc' = "run" /\ UNCHANGED <<out, answer, conf>>
                          ELSE Reply("answer", FALSE) /\ conf' = {}
    /\ UNCHANGED <<purpose, clientVars, writer, events, world, root, req, session, auth, intents,
                   observed, appVars, did, changes>>

\* The person is looked at once more, and the granted plan runs.
confirm ==
    /\ pc = "run"
    /\ \E c \in conf :
         IF ~revalidateToken
         THEN Reply("answer", FALSE) /\ UNCHANGED <<session, appVars, did>>
         ELSE \/ /\ c.kind = "install"
                 /\ \/ /\ StartInstall(c.plan) /\ Record("install", c)
                       /\ session' = [session EXCEPT !.started = TRUE]
                       /\ Reply("answer", TRUE)
                    \/ /\ StartInstallRefused(c.plan)
                       /\ Reply("answer", FALSE) /\ UNCHANGED <<session, did>>
              \/ /\ c.kind = "maintenance"
                 /\ pc' = "act" /\ Record("maintenance", c)
                 /\ UNCHANGED <<session, appVars, out, answer>>
              \/ /\ c.kind = "vm"
                 /\ \/ /\ runNativeVMAction(c.plan.action) /\ AfterVM(c.plan.action)
                       /\ Record("vm", c)
                    \/ Reply("answer", FALSE) /\ UNCHANGED <<appVars, did>>
                 /\ UNCHANGED session
    /\ conf' = {}
    /\ UNCHANGED <<purpose, clientVars, writer, events, world, root, req, auth, intents,
                   observed, changes>>

-----------------------------------------------------------------------------
(* The world outside *)

envVars == <<purpose, pc, writerVars, root, req, answer, sessionVars, appVars, did>>

ClientStops ==
    /\ pc # "exited"
    /\ \/ client.alive /\ client' = [alive |-> FALSE, input |-> FALSE, reading |-> FALSE]
       \/ client.alive /\ client.input /\ client' = [client EXCEPT !.input = FALSE]
       \/ client.alive /\ client.reading /\ client' = [client EXCEPT !.reading = FALSE]
    /\ UNCHANGED <<envVars, sent, world, changes>>

\* Windows, another program or the engine's own work changes the PC; a change
\* between two looks of the engine is one that happened before the second.
WorldChanges ==
    /\ pc \in {"select", "read", "grant", "observe", "run"}
    /\ changes < MaxChanges
    /\ changes' = changes + 1
    /\ world' \in Worlds \ {world}
    /\ UNCHANGED <<envVars, clientVars>>

Startup == observeNativeProcessPeer \/ connectNativePipe \/ Hello \/ prepareNativeAssessment

Dispatch ==
    \/ Refuse \/ ReadLifecycle \/ read \/ vmStatus \/ DriveReport
    \/ GetNativeConfiguration \/ installSpace
    \/ ServeStartInstall \/ CancelInstall \/ ServeVM \/ ServeAct \/ Reboot \/ Shutdown
    \/ PrepareNativeInstall \/ PrepareNativeMaintenance \/ PrepareNativeVMAction
    \/ ConfirmNativeInstall \/ ConfirmNativeMaintenance \/ ConfirmNativeVMAction

Server ==
    \/ Startup \/ EndOfInput \/ Dispatch \/ Answered \/ ActReturns \/ ForceReturns
    \/ prepareNativeInstallAuthorization \/ ObserveAgain \/ confirm
    \/ StopWriter \/ shutdownVM \/ stopInstall

Step ==
    \/ Server \/ Watch
    \/ \E r \in Requests[purpose] : Receive(r)
    \/ \E t \in Threads : WriteLine(t)
    \/ \E t \in {"install", "vm"} : emit(t)
    \/ \E i \in Installs : RunEnds(i) \/ WorkerReturns(i)
    \/ VMWorkerEnds \/ GuestEnds
    \/ ClientStops \/ WorldChanges

\* The history of what could be observed while a request is served.
Track == since' = IF pc' \in {"dispatch", "grant", "observe", "run"}
                  THEN since \union {Observation'} ELSE {}

Next == Step /\ Track

Spec == Init /\ [][Next]_vars

\* Every step of the engine's own threads is taken when it can be: handlers,
\* cleanup and install steps end, and the runtime schedules its goroutines.
\* The client owes nothing: it may neither read nor send.
Fairness ==
    /\ WF_vars(Server /\ Track) /\ WF_vars(Watch /\ Track)
    /\ \A t \in Threads : WF_vars(WriteLine(t) /\ Track)
    /\ \A i \in Installs : WF_vars((RunEnds(i) \/ WorkerReturns(i)) /\ Track)
    /\ WF_vars(VMWorkerEnds /\ Track)

FairSpec == Spec /\ Fairness

-----------------------------------------------------------------------------
(* Properties *)

\* Types; an intent is never granted beside another of its kind, and the writer is
\* held only by a thread that has something to write (serve.go, WriteLine).
TypeOK ==
    /\ purpose \in Purposes
    /\ pc \in {"peer", "connect", "hello", "select", "read", "dispatch", "grant", "observe",
               "run", "act", "force", "answer", "bye", "stop", "stopvm", "stopinstall", "exited"}
    /\ client \in [alive : BOOLEAN, input : BOOLEAN, reading : BOOLEAN]
    /\ writer \in [stopped : BOOLEAN, closed : BOOLEAN, holder : Threads \union {"none"}]
    /\ writer.holder # "none" => out[writer.holder] = "wait"
    /\ out \in [Threads -> {"idle", "wait"}]
    /\ world \in Worlds /\ req \in Requests[purpose] \union {NoRequest}
    /\ answer \in {"none", "ok", "error"}
    /\ session \in [prepared : BOOLEAN, confirmed : BOOLEAN, started : BOOLEAN, vmUsed : BOOLEAN]
    /\ \A k \in Kinds : Cardinality(auth[k]) <= 1
    /\ Cardinality(conf) <= 1 /\ Cardinality(observed) <= 1
    /\ app \in [running : BOOLEAN, done : BOOLEAN, error : BOOLEAN, stopping : BOOLEAN]
    /\ work \in [Installs -> {"free", "run", "report", "done"}]
    /\ cancelled \subseteq 0 .. MaxInstalls
    /\ intents \in Nat /\ sent \in 0 .. MaxRequests[purpose] /\ changes \in 0 .. MaxChanges

Ran(kinds) == {n \in DOMAIN did : did[n].kind \in kinds}

\* Whatever an install session ran, the person was told its facts in a grant
\* and confirmed that very intent, no intent ran twice, and at some moment
\* after the confirmation arrived the PC still showed those facts: the
\* one-shot consent of native_install_session.go.
ConsentedOnly ==
    purpose = "install" =>
        \A n \in Ran(Kinds) :
            /\ did[n].intent \in 1 .. intents
            /\ did[n].held
            /\ \A m \in Ran(Kinds) : did[m].intent = did[n].intent => m = n

\* "A session holds one plan of either kind", and one that used the VM takes
\* neither: at most one install or maintenance action, never next to a VM
\* action; a configuration session runs nothing at all.
OnePurpose ==
    /\ purpose = "install" =>
         /\ Cardinality(Ran({"install", "maintenance"})) <= 1
         /\ Ran({"install", "maintenance"}) # {} => Ran({"vm"}) = {} /\ ~vm.owned
    /\ purpose = "configuration" =>
         did = <<>> /\ ~vm.worker /\ ~vm.owned /\ \A i \in Installs : work[i] = "free"

\* A restart an install session gave was earned, and stays so: its own
\* installation had finished without an error, and none runs when Windows goes down.
RestartIsEarned ==
    purpose = "install" /\ Ran({"reboot"}) # {} =>
        app.done /\ ~app.error /\ \A i \in Installs : work[i] # "run"

\* At most one install pipeline writes to the disk and the boot store, also
\* when a cancelled one is still cleaning up or reporting.
OneWorker == Cardinality({i \in Installs : work[i] \in {"run", "report"}}) <= 1

\* What the preflight on Windows lets through, the deployer can do after the
\* restart: the drive has room for its scratch (deploy.sh refuses otherwise).
PreflightCoversDeployer == \A n \in DOMAIN did : did[n].room

\* When the engine process ends, nothing it started is left running: no
\* install worker between two disk writes, no VM that only it could stop.
ExitIsClean ==
    pc = "exited" => /\ \A i \in Installs : work[i] \in {"free", "done"}
                     /\ ~vm.worker /\ ~vm.owned

\* The engine ends when its client is gone, or has closed its end while the
\* engine waits for a request, even if nobody ever reads its events again.
EngineEnds ==
    (~client.alive \/ (pc = "read" /\ ~client.input)) ~> (pc = "exited")
=============================================================================
