------------------------- MODULE NativeSessionProofs -------------------------
(***************************************************************************)
(* Theorems about NativeSession: the consent, the one purpose, the earned  *)
(* restart, the one worker and the clean exit of an engine process, for    *)
(* every set of requests, worlds and bounds.                               *)
(***************************************************************************)
EXTENDS NativeSession, TLAPS, FiniteSetTheorems, SequenceTheorems

-----------------------------------------------------------------------------
(* The inductive invariant *)

Places ==
    {"peer", "connect", "hello", "select", "read", "dispatch", "grant", "observe", "run",
     "act", "force", "answer", "bye", "stop", "stopvm", "stopinstall", "exited"}
Startups == {"peer", "connect", "hello", "select"}
Held     == {"grant", "observe", "run"}
Phases   == {"absent", "ready", "preparing", "running", "stopped", "needs_recovery"}
Plans    == {"install", "maintenance"}
Entries  == [kind : Kinds \union {"reboot"}, intent : Nat, held : BOOLEAN, room : BOOLEAN]

\* The part of the type invariant that the arguments below need.
Types ==
    /\ purpose \in Purposes /\ pc \in Places
    /\ session \in [prepared : BOOLEAN, confirmed : BOOLEAN, started : BOOLEAN, vmUsed : BOOLEAN]
    /\ app \in [running : BOOLEAN, done : BOOLEAN, error : BOOLEAN, stopping : BOOLEAN]
    /\ work \in [Installs -> {"free", "run", "report", "done"}]
    /\ vm \in [phase : Phases, worker : BOOLEAN, owned : BOOLEAN, cancelled : BOOLEAN]
    /\ DOMAIN auth = Kinds /\ intents \in Nat
    /\ did \in Seq(Entries)

\* One worker at a time, and Running is set for as long as it installs.
OneSlot ==
    /\ \A i, j \in Installs : work[i] \in {"run", "report"} /\ work[j] \in {"run", "report"} => i = j
    /\ (\E i \in Installs : work[i] = "run") => app.running

\* What the place of the server thread says about the rest.
ByPlace ==
    /\ pc \in Startups => ~vm.worker /\ ~vm.owned /\ \A i \in Installs : work[i] = "free"
    /\ pc \in {"stopinstall", "exited"} => ~vm.worker /\ ~vm.owned
    /\ pc = "exited" => \A i \in Installs : work[i] \in {"free", "done"}
    /\ pc \notin Held => conf = {}
    /\ \A c, d \in conf : c = d
    /\ \A c \in conf : /\ c.kind \in Kinds /\ c.intent \in Nat
                       /\ pc = "grant" => c.kind = "install"

\* A configuration session has no method that could start anything.
Inert ==
    purpose = "configuration" =>
        /\ did = <<>> /\ conf = {} /\ \A k \in Kinds : auth[k] = {}
        /\ ~vm.worker /\ ~vm.owned
        /\ \A i \in Installs : work[i] = "free"

\* The one plan of an install session is in one place: its authority, the
\* confirmation being served, or the history of what ran.
OnePlan ==
    purpose = "install" =>
        /\ ~(session.prepared /\ session.vmUsed)
        /\ \A k \in Plans : auth[k] # {} => session.prepared
        /\ \A k, l \in Plans : auth[k] # {} /\ auth[l] # {} => k = l
        /\ \A c \in conf : c.kind \in Plans =>
             session.prepared /\ \A k \in Plans : auth[k] = {}
        /\ \A n \in DOMAIN did : did[n].kind \in Plans =>
             /\ session.prepared
             /\ \A k \in Plans : auth[k] = {}
             /\ \A c \in conf : c.kind \notin Plans
             /\ \A m \in DOMAIN did : did[m].kind \in Plans => m = n

\* The VM is used only by a session that gave up its plan for it.
VMOnly ==
    purpose = "install" =>
        /\ auth["vm"] # {} => session.vmUsed
        /\ \A c \in conf : c.kind = "vm" => session.vmUsed
        /\ \A n \in DOMAIN did : did[n].kind = "vm" => session.vmUsed
        /\ vm.owned \/ vm.worker => session.vmUsed

\* A restart follows this session's own installation, and no other starts.
Earned ==
    purpose = "install" =>
        /\ session.started => \E n \in DOMAIN did : did[n].kind = "install"
        /\ \A n \in DOMAIN did : did[n].kind = "reboot" =>
             /\ session.started /\ app.done /\ ~app.error
             /\ \A i \in Installs : work[i] # "run"

\* Every intent drawn is in at most one place.
OneIntent ==
    purpose = "install" =>
        /\ \A k \in Kinds : \A g \in auth[k] : g.intent \in 1 .. intents
        /\ \A k, l \in Kinds : \A g \in auth[k], h \in auth[l] : g.intent = h.intent => k = l
        /\ pc \in {"observe", "run"} => \A c \in conf :
             /\ c.intent \in 1 .. intents
             /\ \A k \in Kinds : \A g \in auth[k] : g.intent # c.intent
             /\ \A n \in DOMAIN did : did[n].kind \in Kinds => did[n].intent # c.intent
        /\ \A n \in DOMAIN did : did[n].kind \in Kinds =>
             /\ did[n].intent \in 1 .. intents /\ did[n].held
             /\ \A k \in Kinds : \A g \in auth[k] : g.intent # did[n].intent
             /\ \A m \in DOMAIN did :
                  did[m].kind \in Kinds /\ did[m].intent = did[n].intent => m = n

\* What is about to run was observed since its confirmation arrived.
Observed ==
    pc = "run" => \A c \in conf : \E o \in since : c.facts \in Facts(c, o)

IInv == /\ Types /\ OneSlot /\ ByPlace /\ Inert /\ OnePlan /\ VMOnly /\ Earned
        /\ OneIntent /\ Observed

-----------------------------------------------------------------------------
(* Lemmas about the operators *)

\* Appending to the history keeps what is there, and adds one entry.
LEMMA Appends ==
    ASSUME NEW S, NEW s \in Seq(S), NEW e \in S
    PROVE  /\ Append(s, e) \in Seq(S)
           /\ DOMAIN Append(s, e) = DOMAIN s \union {Len(s) + 1}
           /\ Len(s) + 1 \notin DOMAIN s
           /\ Append(s, e)[Len(s) + 1] = e
           /\ \A n \in DOMAIN s : Append(s, e)[n] = s[n]
  OBVIOUS

\* A granted run is recorded with its kind and intent, and as held when the
\* facts were observed since the request arrived.
LEMMA Recorded ==
    ASSUME NEW k \in Kinds, NEW c, c.intent \in Nat, Record(k, c)
    PROVE  \E e \in Entries :
              /\ did' = Append(did, e) /\ e.kind = k /\ e.intent = c.intent
              /\ (\E o \in since : c.facts \in Facts(c, o)) => e.held
              /\ (\E o \in since : o.world.freeKnown => ensure_scratch_capacity(c.plan, o.world)) => e.room
              /\ k # "install" => e.room
<1> DEFINE e == [kind |-> k, intent |-> c.intent,
                 held |-> \E o \in since : c.facts \in Facts(c, o),
                 room |-> k = "install" =>
                    \E o \in since : o.world.freeKnown => ensure_scratch_capacity(c.plan, o.world)]
<1>1. e.held \in BOOLEAN /\ e.room \in BOOLEAN
  BY Zenon
<1>2. e \in Entries
  BY <1>1, Zenon DEF Entries
<1>3. did' = Append(did, e)
  BY DEF Record
<1>4. e.kind = k /\ e.intent = c.intent
  OBVIOUS
<1>5. (\E o \in since : c.facts \in Facts(c, o)) => e.held
  BY Zenon
<1>6. (\E o \in since : o.world.freeKnown => ensure_scratch_capacity(c.plan, o.world)) => e.room
  BY Zenon
<1>7. k # "install" => e.room
  BY Zenon
<1> HIDE DEF e
<1> QED
  BY <1>2, <1>3, <1>4, <1>5, <1>6, <1>7

\* What runs without a grant has no intent.
LEMMA Unrecorded ==
    ASSUME NEW k \in Kinds \union {"reboot"}, Ungranted(k)
    PROVE  \E e \in Entries : did' = Append(did, e) /\ e.kind = k /\ e.room
<1> DEFINE e == [kind |-> k, intent |-> 0, held |-> FALSE, room |-> TRUE]
<1>1. e \in Entries
  BY DEF Entries
<1>2. did' = Append(did, e) /\ e.kind = k /\ e.room
  BY DEF Ungranted
<1> QED
  BY <1>1, <1>2

\* The methods that draw or use a grant are those of an install session.
LEMMA OnlyInstall ==
    ASSUME Types, NEW m, MethodAvailable(m),
           m \in {"PrepareNativeInstall", "ConfirmNativeInstall", "PrepareNativeMaintenance",
                  "ConfirmNativeMaintenance", "PrepareNativeVMAction", "ConfirmNativeVMAction"}
    PROVE  purpose = "install"
  BY SessionAssumption DEF Types, MethodAvailable, ServeMethods, ConfigurationMethods

\* The methods that run without a grant are those of the stdio server.
LEMMA OnlyServe ==
    ASSUME Types, NEW m, MethodAvailable(m),
           m \in {"StartInstall", "UninstallWith", "BootIntoLinux", "TryInVMFresh", "PrepareVM",
                  "InstallVMRuntime", "BootInVM", "StopVM", "ForceStopVM"}
    PROVE  purpose = "serve"
  BY SessionAssumption DEF Types, MethodAvailable, InstallMethods, ConfigurationMethods

\* A configuration session never restarts the PC.
LEMMA NoRestart ==
    ASSUME Types, MethodAvailable("Reboot")
    PROVE  purpose # "configuration"
  BY DEF Types, MethodAvailable, ConfigurationMethods

-----------------------------------------------------------------------------
(* Steps that leave the plan, the workers and the history alone *)

coreVars == <<purpose, session, auth, conf, intents, app, work, vm, did>>

\* Such a step moves the server thread only where no confirmation is served.
Quiet ==
    /\ UNCHANGED coreVars
    /\ \/ pc' = pc
       \/ /\ pc \notin Held \union {"stopinstall", "exited"}
          /\ pc' \in Places \ (Held \union {"stopinstall"})
          /\ pc' \in Startups \union {"exited"} => pc \in Startups

\* While a confirmation is served, what was observed stays in the history.
LEMMA Tracked ==
    ASSUME Track, pc' \in {"dispatch", "grant", "observe", "run"}
    PROVE  since \subseteq since' /\ Observation' \in since'
  BY DEF Track

\* A quiet step keeps every part of the invariant.
LEMMA QuietKeeps ==
    ASSUME IInv, Quiet, Track
    PROVE  IInv'
<1> USE DEF IInv
<1>1. Types'
  BY DEF Quiet, coreVars, Types, Places
<1>2. OneSlot'
  BY DEF Quiet, coreVars, OneSlot
<1>3. ByPlace'
  BY DEF Quiet, coreVars, ByPlace, Types, Places, Startups, Held
<1>4. Inert'
  BY DEF Quiet, coreVars, Inert
<1>5. OnePlan'
  BY DEF Quiet, coreVars, OnePlan
<1>6. VMOnly'
  BY DEF Quiet, coreVars, VMOnly
<1>7. Earned'
  BY DEF Quiet, coreVars, Earned
<1>8. OneIntent'
  BY DEF Quiet, coreVars, OneIntent, Held, Places
<1>9. Observed'
  <2>1. ASSUME pc' = "run", NEW c \in conf'
        PROVE  \E o \in since' : c.facts \in Facts(c, o)
    <3>1. pc = "run" /\ c \in conf
      BY <2>1 DEF Quiet, coreVars, Held
    <3>2. PICK o \in since : c.facts \in Facts(c, o)
      BY <3>1 DEF Observed
    <3>3. o \in since'
      BY <2>1, Tracked
    <3> QED
      BY <3>2, <3>3
  <2> QED
    BY <2>1 DEF Observed
<1> QED
  BY <1>1, <1>2, <1>3, <1>4, <1>5, <1>6, <1>7, <1>8, <1>9

\* Startup, reads, replies, the transport and the world outside are quiet.
LEMMA QuietActions ==
    ASSUME Types
    PROVE  /\ (observeNativeProcessPeer => Quiet) /\ (connectNativePipe => Quiet)
           /\ (Hello => Quiet) /\ (prepareNativeAssessment => Quiet)
           /\ (Watch => Quiet) /\ (EndOfInput => Quiet) /\ (Answered => Quiet) /\ (Refuse => Quiet)
           /\ (ReadLifecycle => Quiet) /\ (read => Quiet) /\ (vmStatus => Quiet)
           /\ (DriveReport => Quiet)
           /\ (GetNativeConfiguration => Quiet) /\ (installSpace => Quiet)
           /\ (CancelInstall => Quiet) /\ (Shutdown => Quiet)
           /\ (ActReturns => Quiet) /\ (StopWriter => Quiet) /\ (ClientStops => Quiet)
           /\ (WorldChanges => Quiet)
           /\ \A r : Receive(r) => Quiet
           /\ \A t : WriteLine(t) => Quiet
           /\ \A t : emit(t) => Quiet
<1> USE DEF Quiet, coreVars, clientVars, writerVars, sessionVars, appVars, Places, Startups, Held
<1>1. observeNativeProcessPeer => Quiet
  BY DEF observeNativeProcessPeer, serverVars, Types
<1>2. connectNativePipe => Quiet
  BY DEF connectNativePipe, serverVars, Types
<1>3. Hello => Quiet
  BY DEF Hello, serverVars, Types
<1>4. prepareNativeAssessment => Quiet
  BY DEF prepareNativeAssessment, serverVars, Types
<1>5. Watch => Quiet
  BY DEF Watch, Types
<1>6. EndOfInput => Quiet
  BY DEF EndOfInput, Types
<1>7. Answered => Quiet
  BY DEF Answered, Types
<1>8. Refuse => Quiet
  BY DEF Refuse, Handling, Reply, Types
<1>9. ReadLifecycle => Quiet
  BY DEF ReadLifecycle, Handling, Reply, Types
<1>10. read => Quiet
  BY DEF read, Handling, Reply, Types
<1>11. vmStatus => Quiet
  BY DEF vmStatus, Handling, Reply, Types
<1>12. DriveReport => Quiet
  BY DEF DriveReport, Handling, Reply, Types
<1>13. GetNativeConfiguration => Quiet
  BY DEF GetNativeConfiguration, Handling, Reply, Types
<1>14. installSpace => Quiet
  BY DEF installSpace, Handling, Reply, Types
<1>15. CancelInstall => Quiet
  BY DEF CancelInstall, Handling, Reply, Types
<1>16. Shutdown => Quiet
  BY DEF Shutdown, Handling, Reply, Types
<1>17. ActReturns => Quiet
  BY DEF ActReturns, Reply, Types
<1>18. StopWriter => Quiet
  BY DEF StopWriter, Types
<1>19. ClientStops => Quiet
  BY DEF ClientStops, envVars, Types
<1>20. WorldChanges => Quiet
  BY DEF WorldChanges, envVars, Types
<1>21. \A r : Receive(r) => Quiet
  BY DEF Receive, Types
<1>22. \A t : WriteLine(t) => Quiet
  BY DEF WriteLine, Types
<1>23. \A t : emit(t) => Quiet
  BY DEF emit, workerVars, Types
<1> QED
  BY <1>1, <1>2, <1>3, <1>4, <1>5, <1>6, <1>7, <1>8, <1>9, <1>10, <1>11, <1>12, <1>13, <1>14,
     <1>15, <1>16, <1>17, <1>18, <1>19, <1>20, <1>21, <1>22, <1>23

-----------------------------------------------------------------------------
(* Workers, the VM and the end of the session *)

\* runInstall returns: the slot stays owned, Running is cleared.
LEMMA RunEndsKeeps ==
    ASSUME IInv, NEW i \in Installs, RunEnds(i), Track
    PROVE  IInv'
<1> USE DEF IInv
<1>1. Types'
  <2>1. app' \in [running : BOOLEAN, done : BOOLEAN, error : BOOLEAN, stopping : BOOLEAN]
    <3>1. PICK end : app' = [app EXCEPT !.running = FALSE, !.done = @ \/ end = "ok",
                                        !.error = @ \/ end = "error"]
      BY DEF RunEnds
    <3>2. (app.done \/ end = "ok") \in BOOLEAN /\ (app.error \/ end = "error") \in BOOLEAN
      BY Zenon
    <3> QED
      BY <3>1, <3>2, Zenon DEF Types
  <2> QED
    BY <2>1 DEF RunEnds, workerVars, sessionVars, Types, Places
<1>2. OneSlot'
  BY DEF RunEnds, workerVars, sessionVars, OneSlot, Types
<1>3. ByPlace'
  BY DEF RunEnds, workerVars, sessionVars, ByPlace, Types, Places, Startups, Held
<1>4. Inert'
  BY DEF RunEnds, workerVars, sessionVars, Inert, Types
<1>5. OnePlan'
  BY DEF RunEnds, workerVars, sessionVars, OnePlan, Types, Plans
<1>6. VMOnly'
  BY DEF RunEnds, workerVars, sessionVars, VMOnly, Types
<1>7. Earned'
  BY DEF RunEnds, workerVars, sessionVars, Earned, Types
<1>8. OneIntent'
  BY DEF RunEnds, workerVars, sessionVars, OneIntent, Types, Held, ByPlace
<1>9. Observed'
  <2>1. pc' = "run" => pc = "run" /\ conf' = conf
    BY DEF RunEnds, workerVars, sessionVars
  <2> QED
    BY <2>1, Tracked DEF Observed
<1> QED
  BY <1>1, <1>2, <1>3, <1>4, <1>5, <1>6, <1>7, <1>8, <1>9

\* The worker's done channel is closed.
LEMMA WorkerReturnsKeeps ==
    ASSUME IInv, NEW i \in Installs, WorkerReturns(i), Track
    PROVE  IInv'
<1> USE DEF IInv
<1>1. Types'
  BY DEF WorkerReturns, workerVars, sessionVars, Types, Places
<1>2. OneSlot'
  BY DEF WorkerReturns, workerVars, sessionVars, OneSlot, Types
<1>3. ByPlace'
  BY DEF WorkerReturns, workerVars, sessionVars, ByPlace, Types, Places, Startups, Held
<1>4. Inert'
  BY DEF WorkerReturns, workerVars, sessionVars, Inert, Types
<1>5. OnePlan'
  BY DEF WorkerReturns, workerVars, sessionVars, OnePlan, Types, Plans
<1>6. VMOnly'
  BY DEF WorkerReturns, workerVars, sessionVars, VMOnly, Types
<1>7. Earned'
  BY DEF WorkerReturns, workerVars, sessionVars, Earned, Types
<1>8. OneIntent'
  BY DEF WorkerReturns, workerVars, sessionVars, OneIntent, Types, Held, ByPlace
<1>9. Observed'
  <2>1. pc' = "run" => pc = "run" /\ conf' = conf
    BY DEF WorkerReturns, workerVars, sessionVars
  <2> QED
    BY <2>1, Tracked DEF Observed
<1> QED
  BY <1>1, <1>2, <1>3, <1>4, <1>5, <1>6, <1>7, <1>8, <1>9

\* The VM worker ends; a prepared system may start.
LEMMA VMWorkerEndsKeeps ==
    ASSUME IInv, VMWorkerEnds, Track
    PROVE  IInv'
<1> USE DEF IInv
<1>1. Types'
  <2>1. "stopped" \in Phases /\ "needs_recovery" \in Phases /\ "running" \in Phases
    BY DEF Phases
  <2>2. \/ vm' = [vm EXCEPT !.worker = FALSE]
        \/ vm' = [vm EXCEPT !.worker = FALSE, !.phase = "needs_recovery"]
        \/ vm' = [vm EXCEPT !.worker = FALSE, !.phase = "running", !.owned = TRUE]
    BY DEF VMWorkerEnds
  <2>3. vm' \in [phase : Phases, worker : BOOLEAN, owned : BOOLEAN, cancelled : BOOLEAN]
    BY <2>1, <2>2 DEF Types
  <2> QED
    BY <2>3 DEF VMWorkerEnds, sessionVars, workerVars, Types, Places
<1>2. OneSlot'
  BY DEF VMWorkerEnds, workerVars, sessionVars, OneSlot, Types
<1>3. ByPlace'
  BY DEF VMWorkerEnds, workerVars, sessionVars, ByPlace, Types, Places, Startups, Held
<1>4. Inert'
  BY DEF VMWorkerEnds, workerVars, sessionVars, Inert, Types
<1>5. OnePlan'
  BY DEF VMWorkerEnds, workerVars, sessionVars, OnePlan, Types, Plans
<1>6. VMOnly'
  BY DEF VMWorkerEnds, workerVars, sessionVars, VMOnly, Types
<1>7. Earned'
  BY DEF VMWorkerEnds, workerVars, sessionVars, Earned, Types
<1>8. OneIntent'
  BY DEF VMWorkerEnds, workerVars, sessionVars, OneIntent, Types, Held, ByPlace
<1>9. Observed'
  <2>1. pc' = "run" => pc = "run" /\ conf' = conf
    BY DEF VMWorkerEnds, workerVars, sessionVars
  <2> QED
    BY <2>1, Tracked DEF Observed
<1> QED
  BY <1>1, <1>2, <1>3, <1>4, <1>5, <1>6, <1>7, <1>8, <1>9

\* The guest of this engine's VM ends.
LEMMA GuestEndsKeeps ==
    ASSUME IInv, GuestEnds, Track
    PROVE  IInv'
<1> USE DEF IInv
<1>1. Types'
  <2>1. "stopped" \in Phases /\ "needs_recovery" \in Phases /\ "running" \in Phases
    BY DEF Phases
  <2>2. \/ vm' = [vm EXCEPT !.phase = "stopped", !.owned = FALSE]
        \/ vm' = [vm EXCEPT !.phase = "needs_recovery", !.owned = FALSE]
    BY DEF GuestEnds
  <2>3. vm' \in [phase : Phases, worker : BOOLEAN, owned : BOOLEAN, cancelled : BOOLEAN]
    BY <2>1, <2>2 DEF Types
  <2> QED
    BY <2>3 DEF GuestEnds, sessionVars, workerVars, Types, Places
<1>2. OneSlot'
  BY DEF GuestEnds, workerVars, sessionVars, OneSlot, Types
<1>3. ByPlace'
  BY DEF GuestEnds, workerVars, sessionVars, ByPlace, Types, Places, Startups, Held
<1>4. Inert'
  BY DEF GuestEnds, workerVars, sessionVars, Inert, Types
<1>5. OnePlan'
  BY DEF GuestEnds, workerVars, sessionVars, OnePlan, Types, Plans
<1>6. VMOnly'
  BY DEF GuestEnds, workerVars, sessionVars, VMOnly, Types
<1>7. Earned'
  BY DEF GuestEnds, workerVars, sessionVars, Earned, Types
<1>8. OneIntent'
  BY DEF GuestEnds, workerVars, sessionVars, OneIntent, Types, Held, ByPlace
<1>9. Observed'
  <2>1. pc' = "run" => pc = "run" /\ conf' = conf
    BY DEF GuestEnds, workerVars, sessionVars
  <2> QED
    BY <2>1, Tracked DEF Observed
<1> QED
  BY <1>1, <1>2, <1>3, <1>4, <1>5, <1>6, <1>7, <1>8, <1>9

\* A forced stop has waited for the worker.
LEMMA ForceReturnsKeeps ==
    ASSUME IInv, ForceReturns, Track
    PROVE  IInv'
<1> USE DEF IInv
<1>1. Types'
  BY DEF ForceReturns, Reply, sessionVars, Phases, Types, Places
<1>2. OneSlot'
  BY DEF ForceReturns, Reply, sessionVars, Phases, OneSlot, Types
<1>3. ByPlace'
  BY DEF ForceReturns, Reply, sessionVars, Phases, ByPlace, Types, Places, Startups, Held
<1>4. Inert'
  BY DEF ForceReturns, Reply, sessionVars, Phases, Inert, Types
<1>5. OnePlan'
  BY DEF ForceReturns, Reply, sessionVars, Phases, OnePlan, Types, Plans
<1>6. VMOnly'
  BY DEF ForceReturns, Reply, sessionVars, Phases, VMOnly, Types
<1>7. Earned'
  BY DEF ForceReturns, Reply, sessionVars, Phases, Earned, Types
<1>8. OneIntent'
  BY DEF ForceReturns, Reply, sessionVars, Phases, OneIntent, Types, Held, ByPlace
<1>9. Observed'
  <2>1. pc' = "run" => pc = "run" /\ conf' = conf
    BY DEF ForceReturns, Reply, sessionVars, Phases
  <2> QED
    BY <2>1, Tracked DEF Observed
<1> QED
  BY <1>1, <1>2, <1>3, <1>4, <1>5, <1>6, <1>7, <1>8, <1>9

\* The end of the session waits for the VM worker.
LEMMA shutdownVMKeeps ==
    ASSUME IInv, shutdownVM, Track
    PROVE  IInv'
<1> USE DEF IInv
<1>1. Types'
  <2>1. "stopped" \in Phases /\ "needs_recovery" \in Phases /\ "running" \in Phases
    BY DEF Phases
  <2>2. \/ vm' = [vm EXCEPT !.cancelled = TRUE] /\ pc' = pc /\ vm.worker
        \/ vm' = [vm EXCEPT !.owned = FALSE, !.phase = "stopped"] /\ pc' = "stopinstall" /\ ~vm.worker
        \/ vm' = [vm EXCEPT !.owned = FALSE, !.phase = "needs_recovery"] /\ pc' = "stopinstall" /\ ~vm.worker
        \/ vm' = vm /\ pc' = "stopinstall" /\ ~vm.worker /\ ~vm.owned
    BY DEF shutdownVM
  <2>3. vm' \in [phase : Phases, worker : BOOLEAN, owned : BOOLEAN, cancelled : BOOLEAN]
    BY <2>1, <2>2 DEF Types
  <2> QED
    BY <2>3 DEF shutdownVM, sessionVars, workerVars, Types, Places
<1>2. OneSlot'
  BY DEF shutdownVM, sessionVars, OneSlot, Types
<1>3. ByPlace'
  <2>1. \/ vm' = [vm EXCEPT !.cancelled = TRUE] /\ pc' = pc /\ vm.worker
        \/ vm' = [vm EXCEPT !.owned = FALSE, !.phase = "stopped"] /\ pc' = "stopinstall" /\ ~vm.worker
        \/ vm' = [vm EXCEPT !.owned = FALSE, !.phase = "needs_recovery"] /\ pc' = "stopinstall" /\ ~vm.worker
        \/ vm' = vm /\ pc' = "stopinstall" /\ ~vm.worker /\ ~vm.owned
    BY DEF shutdownVM
  <2> QED
    BY <2>1 DEF shutdownVM, sessionVars, ByPlace, Types, Startups, Held
<1>4. Inert'
  BY DEF shutdownVM, sessionVars, Inert, Types
<1>5. OnePlan'
  BY DEF shutdownVM, sessionVars, OnePlan, Types, Plans
<1>6. VMOnly'
  BY DEF shutdownVM, sessionVars, VMOnly, Types
<1>7. Earned'
  BY DEF shutdownVM, sessionVars, Earned, Types
<1>8. OneIntent'
  BY DEF shutdownVM, sessionVars, OneIntent, Types, Held, ByPlace
<1>9. Observed'
  <2>1. pc' = "run" => pc = "run" /\ conf' = conf
    BY DEF shutdownVM, sessionVars
  <2> QED
    BY <2>1, Tracked DEF Observed
<1> QED
  BY <1>1, <1>2, <1>3, <1>4, <1>5, <1>6, <1>7, <1>8, <1>9

\* The end of the session waits for the install worker.
LEMMA stopInstallKeeps ==
    ASSUME IInv, stopInstall, Track
    PROVE  IInv'
<1> USE DEF IInv
<1>1. Types'
  BY DEF stopInstall, sessionVars, Types, Places
<1>2. OneSlot'
  BY DEF stopInstall, sessionVars, OneSlot, Types
<1>3. ByPlace'
  BY DEF stopInstall, sessionVars, ByPlace, Types, Places, Startups, Held
<1>4. Inert'
  BY DEF stopInstall, sessionVars, Inert, Types
<1>5. OnePlan'
  BY DEF stopInstall, sessionVars, OnePlan, Types, Plans
<1>6. VMOnly'
  BY DEF stopInstall, sessionVars, VMOnly, Types
<1>7. Earned'
  BY DEF stopInstall, sessionVars, Earned, Types
<1>8. OneIntent'
  BY DEF stopInstall, sessionVars, OneIntent, Types, Held, ByPlace
<1>9. Observed'
  <2>1. pc' = "run" => pc = "run" /\ conf' = conf
    BY DEF stopInstall, sessionVars
  <2> QED
    BY <2>1, Tracked DEF Observed
<1> QED
  BY <1>1, <1>2, <1>3, <1>4, <1>5, <1>6, <1>7, <1>8, <1>9

-----------------------------------------------------------------------------
(* The stdio server *)

\* The history keeps its type.
LEMMA Grows ==
    ASSUME did \in Seq(Entries), did' = did \/ \E e \in Entries : did' = Append(did, e)
    PROVE  did' \in Seq(Entries)
<1>1. CASE did' = did
  BY <1>1
<1>2. CASE \E e \in Entries : did' = Append(did, e)
  <2>1. PICK e \in Entries : did' = Append(did, e)
    BY <1>2
  <2> QED
    BY <2>1, Appends
<1> QED
  BY <1>1, <1>2

\* A worker starts in a free slot, when no other is at work.
LEMMA Started ==
    ASSUME Types, OneSlot, NEW plan, StartInstall(plan)
    PROVE  /\ app' \in [running : BOOLEAN, done : BOOLEAN, error : BOOLEAN, stopping : BOOLEAN]
           /\ work' \in [Installs -> {"free", "run", "report", "done"}]
           /\ OneSlot' /\ UNCHANGED vm
<1>1. PICK i \in Installs : startInstallWorker(i)
  BY DEF StartInstall
<1> QED
  BY <1>1 DEF startInstallWorker, Types, OneSlot

\* What a VM action may do to the VM system.
LEMMA VMActed ==
    ASSUME Types, NEW action, runNativeVMAction(action)
    PROVE  /\ vm' \in [phase : Phases, worker : BOOLEAN, owned : BOOLEAN, cancelled : BOOLEAN]
           /\ UNCHANGED <<app, work, cancelled>>
<1>1. {"preparing", "running", "stopped", "needs_recovery"} \subseteq Phases
  BY DEF Phases
<1>2. \/ vm' = [vm EXCEPT !.worker = TRUE, !.cancelled = FALSE]
      \/ vm' = [vm EXCEPT !.worker = TRUE, !.cancelled = FALSE, !.phase = "preparing"]
      \/ vm' = [vm EXCEPT !.phase = "running", !.owned = TRUE]
      \/ vm' = [vm EXCEPT !.phase = "needs_recovery"]
      \/ vm' = [vm EXCEPT !.phase = "stopped", !.owned = FALSE]
      \/ vm' = [vm EXCEPT !.phase = "needs_recovery", !.owned = FALSE]
      \/ vm' = [vm EXCEPT !.cancelled = TRUE]
  BY DEF runNativeVMAction
<1> QED
  BY <1>1, <1>2 DEF Types, runNativeVMAction

\* StartInstall over stdio.
LEMMA ServeStartInstallKeeps ==
    ASSUME IInv, ServeStartInstall, Track
    PROVE  IInv'
<1> USE DEF IInv
<1>a. purpose = "serve" /\ purpose' = "serve" /\ pc = "dispatch"
  BY OnlyServe DEF ServeStartInstall, Handling
<1>b. /\ app' \in [running : BOOLEAN, done : BOOLEAN, error : BOOLEAN, stopping : BOOLEAN]
      /\ work' \in [Installs -> {"free", "run", "report", "done"}]
      /\ OneSlot' /\ UNCHANGED vm
  <2>1. CASE \E plan : StartInstall(plan)
    BY <2>1, Started
  <2>2. CASE UNCHANGED appVars
    BY <2>2 DEF appVars, Types, OneSlot
  <2> QED
    BY <2>1, <2>2 DEF ServeStartInstall, StartInstallRefused
<1>c. did' = did \/ \E e \in Entries : did' = Append(did, e)
  <2>1. CASE UNCHANGED did
    BY <2>1
  <2>2. CASE \E plan : Record("install", [kind |-> "install", intent |-> 0, plan |-> plan, facts |-> <<>>])
    <3>1. PICK plan : Record("install", [kind |-> "install", intent |-> 0, plan |-> plan, facts |-> <<>>])
      BY <2>2
    <3>2. "install" \in Kinds
      BY DEF Kinds
    <3> DEFINE c == [kind |-> "install", intent |-> 0, plan |-> plan, facts |-> <<>>]
    <3>3. c.intent \in Nat /\ Record("install", c)
      BY <3>1
    <3> HIDE DEF c
    <3> QED
      BY <3>2, <3>3, Recorded
  <2> QED
    BY <2>1, <2>2 DEF ServeStartInstall
<1>d. did' \in Seq(Entries)
  BY <1>c, Grows DEF Types
<1>e. conf' = conf /\ pc' = "answer" /\ intents' = intents /\ session' = session /\ auth' = auth
  BY DEF ServeStartInstall, Reply, sessionVars
<1>1. Types'
  BY <1>a, <1>b, <1>d, <1>e DEF Types, Places
<1>2. OneSlot'
  BY <1>b
<1>3. ByPlace'
  BY <1>a, <1>e DEF ByPlace, Held, Startups
<1>4. Inert'
  BY <1>a DEF Inert
<1>5. OnePlan'
  BY <1>a DEF OnePlan
<1>6. VMOnly'
  BY <1>a DEF VMOnly
<1>7. Earned'
  BY <1>a DEF Earned
<1>8. OneIntent'
  BY <1>a DEF OneIntent
<1>9. Observed'
  BY <1>e DEF Observed
<1> QED
  BY <1>1, <1>2, <1>3, <1>4, <1>5, <1>6, <1>7, <1>8, <1>9

\* The legacy VM methods.
LEMMA ServeVMKeeps ==
    ASSUME IInv, ServeVM, Track
    PROVE  IInv'
<1> USE DEF IInv
<1>a. purpose = "serve" /\ purpose' = "serve" /\ pc = "dispatch"
  BY OnlyServe DEF ServeVM, Handling, VMMethod
<1>b. /\ vm' \in [phase : Phases, worker : BOOLEAN, owned : BOOLEAN, cancelled : BOOLEAN]
      /\ UNCHANGED <<app, work>>
  BY VMActed DEF ServeVM, appVars, Types
<1>c. /\ pc' \in {"force", "answer"} /\ did' = did
      /\ conf' = conf /\ intents' = intents /\ session' = session /\ auth' = auth
  BY DEF ServeVM, AfterVM, Reply, sessionVars
<1>1. Types'
  BY <1>a, <1>b, <1>c DEF Types, Places
<1>2. OneSlot'
  BY <1>b DEF OneSlot
<1>3. ByPlace'
  BY <1>a, <1>c DEF ByPlace, Held, Startups
<1>4. Inert'
  BY <1>a DEF Inert
<1>5. OnePlan'
  BY <1>a DEF OnePlan
<1>6. VMOnly'
  BY <1>a DEF VMOnly
<1>7. Earned'
  BY <1>a DEF Earned
<1>8. OneIntent'
  BY <1>a DEF OneIntent
<1>9. Observed'
  BY <1>c DEF Observed
<1> QED
  BY <1>1, <1>2, <1>3, <1>4, <1>5, <1>6, <1>7, <1>8, <1>9

\* UninstallWith and BootIntoLinux over stdio.
LEMMA ServeActKeeps ==
    ASSUME IInv, ServeAct, Track
    PROVE  IInv'
<1> USE DEF IInv
<1>a. purpose = "serve" /\ purpose' = "serve" /\ pc = "dispatch"
  BY OnlyServe DEF ServeAct, Handling
<1>b. did' = did \/ \E e \in Entries : did' = Append(did, e)
  <2>1. "maintenance" \in Kinds \union {"reboot"}
    BY DEF Kinds
  <2>2. did' = did \/ Ungranted("maintenance")
    BY DEF ServeAct
  <2> QED
    BY <2>1, <2>2, Unrecorded
<1>c. did' \in Seq(Entries)
  BY <1>b, Grows DEF Types
<1>d. /\ pc' \in {"act", "answer"} /\ UNCHANGED <<app, work, vm>>
      /\ conf' = conf /\ intents' = intents /\ session' = session /\ auth' = auth
  BY DEF ServeAct, Reply, sessionVars, appVars
<1>1. Types'
  BY <1>a, <1>c, <1>d DEF Types, Places
<1>2. OneSlot'
  BY <1>d DEF OneSlot
<1>3. ByPlace'
  BY <1>a, <1>d DEF ByPlace, Held, Startups
<1>4. Inert'
  BY <1>a DEF Inert
<1>5. OnePlan'
  BY <1>a DEF OnePlan
<1>6. VMOnly'
  BY <1>a DEF VMOnly
<1>7. Earned'
  BY <1>a DEF Earned
<1>8. OneIntent'
  BY <1>a DEF OneIntent
<1>9. Observed'
  BY <1>d DEF Observed
<1> QED
  BY <1>1, <1>2, <1>3, <1>4, <1>5, <1>6, <1>7, <1>8, <1>9

\* A restart: over stdio the user's own, in an install session an earned one.
LEMMA RebootKeeps ==
    ASSUME IInv, Reboot, Track
    PROVE  IInv'
<1> USE DEF IInv
<1> DEFINE earned == purpose = "serve" \/ (session.started /\ app.done /\ ~app.running /\ ~app.error)
<1>a. /\ purpose # "configuration" /\ purpose' = purpose /\ pc = "dispatch"
      /\ MethodAvailable("Reboot")
  BY NoRestart DEF Reboot, Handling
<1>b. did' = did \/ \E e \in Entries : did' = Append(did, e) /\ e.kind = "reboot" /\ earned
  <2>1. did' = did \/ (Ungranted("reboot") /\ earned)
    BY DEF Reboot, restart
  <2>2. Ungranted("reboot") => \E e \in Entries : did' = Append(did, e) /\ e.kind = "reboot"
    BY Unrecorded
  <2> QED
    BY <2>1, <2>2
<1>c. did' \in Seq(Entries)
  <2>1. did' = did \/ \E e \in Entries : did' = Append(did, e)
    BY <1>b
  <2> QED
    BY <2>1, Grows DEF Types
<1>d. /\ pc' = "answer" /\ UNCHANGED <<app, work, vm>>
      /\ conf' = conf /\ intents' = intents /\ session' = session /\ auth' = auth
  BY DEF Reboot, Reply, sessionVars, appVars
<1>1. Types'
  BY <1>a, <1>c, <1>d DEF Types, Places
<1>2. OneSlot'
  BY <1>d DEF OneSlot
<1>3. ByPlace'
  BY <1>a, <1>d DEF ByPlace, Held, Startups
<1>4. Inert'
  BY <1>a DEF Inert
<1>5. OnePlan'
  <2>1. CASE did' = did
    BY <2>1, <1>a, <1>d DEF OnePlan, Plans
  <2>2. CASE \E e \in Entries : did' = Append(did, e) /\ e.kind = "reboot" /\ earned
    <3>1. PICK e \in Entries : did' = Append(did, e) /\ e.kind = "reboot" /\ earned
      BY <2>2
    <3>2. /\ DOMAIN did' = DOMAIN did \union {Len(did) + 1}
          /\ did'[Len(did) + 1].kind = "reboot"
          /\ \A n \in DOMAIN did : did'[n] = did[n]
      BY <3>1, Appends DEF Types
    <3> HIDE DEF earned
    <3> QED
      BY <3>1, <3>2, <1>a, <1>d DEF OnePlan, Plans
  <2> QED
    BY <2>1, <2>2, <1>b
<1>6. VMOnly'
  <2>1. CASE did' = did
    BY <2>1, <1>a, <1>d DEF VMOnly
  <2>2. CASE \E e \in Entries : did' = Append(did, e) /\ e.kind = "reboot" /\ earned
    <3>1. PICK e \in Entries : did' = Append(did, e) /\ e.kind = "reboot" /\ earned
      BY <2>2
    <3>2. /\ DOMAIN did' = DOMAIN did \union {Len(did) + 1}
          /\ did'[Len(did) + 1].kind = "reboot"
          /\ \A n \in DOMAIN did : did'[n] = did[n]
      BY <3>1, Appends DEF Types
    <3> HIDE DEF earned
    <3> QED
      BY <3>1, <3>2, <1>a, <1>d DEF VMOnly
  <2> QED
    BY <2>1, <2>2, <1>b
<1>7. Earned'
  <2>1. CASE did' = did
    BY <2>1, <1>a, <1>d DEF Earned, OneSlot
  <2>2. CASE \E e \in Entries : did' = Append(did, e) /\ e.kind = "reboot" /\ earned
    <3>1. PICK e \in Entries : did' = Append(did, e) /\ e.kind = "reboot" /\ earned
      BY <2>2
    <3>2. /\ DOMAIN did' = DOMAIN did \union {Len(did) + 1}
          /\ did'[Len(did) + 1].kind = "reboot"
          /\ \A n \in DOMAIN did : did'[n] = did[n]
      BY <3>1, Appends DEF Types
    <3> QED
      BY <3>1, <3>2, <1>a, <1>d DEF Earned, OneSlot
  <2> QED
    BY <2>1, <2>2, <1>b
<1>8. OneIntent'
  <2>1. CASE did' = did
    BY <2>1, <1>a, <1>d DEF OneIntent, Kinds
  <2>2. CASE \E e \in Entries : did' = Append(did, e) /\ e.kind = "reboot" /\ earned
    <3>1. PICK e \in Entries : did' = Append(did, e) /\ e.kind = "reboot" /\ earned
      BY <2>2
    <3>2. /\ DOMAIN did' = DOMAIN did \union {Len(did) + 1}
          /\ did'[Len(did) + 1].kind = "reboot"
          /\ \A n \in DOMAIN did : did'[n] = did[n]
      BY <3>1, Appends DEF Types
    <3> HIDE DEF earned
    <3> QED
      BY <3>1, <3>2, <1>a, <1>d DEF OneIntent, Kinds
  <2> QED
    BY <2>1, <2>2, <1>b
<1>9. Observed'
  BY <1>d DEF Observed
<1> QED
  BY <1>1, <1>2, <1>3, <1>4, <1>5, <1>6, <1>7, <1>8, <1>9

-----------------------------------------------------------------------------
(* The install session *)

\* The plan of an installation is taken, once.
LEMMA PrepareInstallKeeps ==
    ASSUME IInv, PrepareNativeInstall, Track
    PROVE  IInv'
<1> USE DEF IInv
<1>a. purpose = "install" /\ purpose' = "install" /\ pc = "dispatch" /\ conf = {}
  BY OnlyInstall DEF PrepareNativeInstall, Handling, ByPlace, Held
<1>b. UNCHANGED <<auth, intents, app, work, vm, did>>
  <2>1. /\ UNCHANGED <<auth, intents, observed>>
        /\ Refused \/ UNCHANGED <<out, answer, appVars, did>>
    BY DEF PrepareNativeInstall
  <2> QED
    BY <2>1 DEF Refused, appVars
<1>c. \/ session' = session
      \/ ~session.prepared /\ ~session.vmUsed /\ session' = [session EXCEPT !.prepared = TRUE]
  BY DEF PrepareNativeInstall, PlanTaken
<1>d. \/ pc' = "answer" /\ conf' = {}
      \/ /\ pc' = "grant" /\ session' = [session EXCEPT !.prepared = TRUE]
         /\ ~session.prepared /\ ~session.vmUsed
         /\ \E b : conf' = {b} /\ b.kind = "install" /\ b.intent = 0
  <2>1. \A b \in boundPlans : b.kind = "install" /\ b.intent = 0
    BY DEF boundPlans
  <2> QED
    BY <1>a, <2>1 DEF PrepareNativeInstall, Refused, Reply, PlanTaken
<1>1. Types'
  BY <1>a, <1>b, <1>c, <1>d DEF Types, Places
<1>2. OneSlot'
  BY <1>a, <1>b, <1>c, <1>d DEF OneSlot
<1>3. ByPlace'
  BY <1>a, <1>b, <1>c, <1>d DEF ByPlace, Held, Startups, Kinds
<1>4. Inert'
  BY <1>a, <1>b, <1>c, <1>d DEF Inert
<1>5. OnePlan'
  BY <1>a, <1>b, <1>c, <1>d DEF OnePlan, Plans, Kinds, Types
<1>6. VMOnly'
  BY <1>a, <1>b, <1>c, <1>d DEF VMOnly, Kinds, Types
<1>7. Earned'
  BY <1>a, <1>b, <1>c, <1>d DEF Earned, Types
<1>8. OneIntent'
  BY <1>a, <1>b, <1>c, <1>d DEF OneIntent, Kinds, Types
<1>9. Observed'
  BY <1>a, <1>b, <1>c, <1>d DEF Observed
<1> QED
  BY <1>1, <1>2, <1>3, <1>4, <1>5, <1>6, <1>7, <1>8, <1>9

\* A new grant takes the next intent, and replaces what its authority held.
LEMMA Granted ==
    ASSUME Types, NEW k \in Kinds, NEW plan, NEW facts, Grant(k, plan, facts)
    PROVE  /\ intents' = intents + 1 /\ DOMAIN auth' = Kinds /\ pc' = "answer"
           /\ \A g \in auth'[k] : g.intent = intents + 1
           /\ \A l \in Kinds \ {k} : auth'[l] = auth[l]
  BY DEF Grant, Reply, Types

\* The plan is looked at again before its intent is drawn.
LEMMA AuthorizeInstallKeeps ==
    ASSUME IInv, prepareNativeInstallAuthorization, Track
    PROVE  IInv'
<1> USE DEF IInv
<1>a. /\ purpose' = purpose /\ pc = "grant" /\ pc' = "answer" /\ conf # {} /\ conf' = {}
      /\ UNCHANGED <<session, app, work, vm, did>>
  BY DEF prepareNativeInstallAuthorization, Grant, Reply, appVars
<1>b. \E c \in conf : c.kind = "install"
  BY <1>a DEF ByPlace
<1>c. purpose # "configuration"
  BY <1>a DEF Inert
<1>d. \/ intents' = intents /\ auth' = auth
      \/ /\ intents' = intents + 1 /\ DOMAIN auth' = Kinds
         /\ \A g \in auth'["install"] : g.intent = intents + 1
         /\ \A l \in Kinds \ {"install"} : auth'[l] = auth[l]
  <2>1. "install" \in Kinds
    BY DEF Kinds
  <2>2. \/ intents' = intents /\ auth' = auth
        \/ \E c \in conf : Grant("install", c.plan, c.facts)
    BY DEF prepareNativeInstallAuthorization
  <2> QED
    BY <2>1, <2>2, Granted
<1>1. Types'
  BY <1>a, <1>b, <1>c, <1>d DEF Types, Places
<1>2. OneSlot'
  BY <1>a, <1>b, <1>c, <1>d DEF OneSlot
<1>3. ByPlace'
  BY <1>a, <1>b, <1>c, <1>d DEF ByPlace, Held, Startups, Kinds
<1>4. Inert'
  BY <1>a, <1>b, <1>c, <1>d DEF Inert
<1>5. OnePlan'
  BY <1>a, <1>b, <1>c, <1>d DEF OnePlan, Plans, Kinds, Types
<1>6. VMOnly'
  BY <1>a, <1>b, <1>c, <1>d DEF VMOnly, Kinds, Types
<1>7. Earned'
  BY <1>a, <1>b, <1>c, <1>d DEF Earned, Types
<1>8. OneIntent'
  BY <1>a, <1>b, <1>c, <1>d DEF OneIntent, Kinds, Types
<1>9. Observed'
  BY <1>a, <1>b, <1>c, <1>d DEF Observed
<1> QED
  BY <1>1, <1>2, <1>3, <1>4, <1>5, <1>6, <1>7, <1>8, <1>9

\* The plan of a maintenance action is taken, and granted.
LEMMA PrepareMaintenanceKeeps ==
    ASSUME IInv, PrepareNativeMaintenance, Track
    PROVE  IInv'
<1> USE DEF IInv
<1>a. purpose = "install" /\ purpose' = "install" /\ pc = "dispatch" /\ conf = {}
  BY OnlyInstall DEF PrepareNativeMaintenance, Handling, ByPlace, Held
<1>b. UNCHANGED <<app, work, vm, did>> /\ conf' = {} /\ pc' = "answer"
  BY <1>a DEF PrepareNativeMaintenance, Refused, appVars, Grant, Reply
<1>c. \/ session' = session /\ auth' = auth
      \/ ~session.prepared /\ ~session.vmUsed /\ session' = [session EXCEPT !.prepared = TRUE]
  BY DEF PrepareNativeMaintenance, PlanTaken
<1>d. \/ intents' = intents /\ auth' = auth
      \/ /\ intents' = intents + 1 /\ DOMAIN auth' = Kinds
         /\ \A g \in auth'["maintenance"] : g.intent = intents + 1
         /\ \A l \in Kinds \ {"maintenance"} : auth'[l] = auth[l]
  <2>1. "maintenance" \in Kinds
    BY DEF Kinds
  <2>2. \/ intents' = intents /\ auth' = auth
        \/ \E p, f : Grant("maintenance", p, f)
    BY DEF PrepareNativeMaintenance
  <2> QED
    BY <2>1, <2>2, Granted
<1>1. Types'
  <2>1. DOMAIN auth' = Kinds /\ intents' \in Nat
    BY <1>d DEF Types
  <2>2. session' \in [prepared : BOOLEAN, confirmed : BOOLEAN, started : BOOLEAN, vmUsed : BOOLEAN]
    BY <1>c DEF Types
  <2> QED
    BY <1>a, <1>b, <2>1, <2>2 DEF Types, Places
<1>2. OneSlot'
  BY <1>a, <1>b, <1>c, <1>d DEF OneSlot
<1>3. ByPlace'
  BY <1>a, <1>b, <1>c, <1>d DEF ByPlace, Held, Startups, Kinds
<1>4. Inert'
  BY <1>a, <1>b, <1>c, <1>d DEF Inert
<1>5. OnePlan'
  BY <1>a, <1>b, <1>c, <1>d DEF OnePlan, Plans, Kinds, Types
<1>6. VMOnly'
  BY <1>a, <1>b, <1>c, <1>d DEF VMOnly, Kinds, Types
<1>7. Earned'
  BY <1>a, <1>b, <1>c, <1>d DEF Earned, Types
<1>8. OneIntent'
  BY <1>a, <1>b, <1>c, <1>d DEF OneIntent, Kinds, Types
<1>9. Observed'
  BY <1>a, <1>b, <1>c, <1>d DEF Observed
<1> QED
  BY <1>1, <1>2, <1>3, <1>4, <1>5, <1>6, <1>7, <1>8, <1>9

\* A VM action is granted; the session gives up its plan.
LEMMA PrepareVMKeeps ==
    ASSUME IInv, PrepareNativeVMAction, Track
    PROVE  IInv'
<1> USE DEF IInv
<1>a. purpose = "install" /\ purpose' = "install" /\ pc = "dispatch" /\ conf = {}
  BY OnlyInstall DEF PrepareNativeVMAction, Handling, ByPlace, Held
<1>b. UNCHANGED <<app, work, vm, did>> /\ conf' = {} /\ pc' = "answer"
  BY <1>a DEF PrepareNativeVMAction, Refused, appVars, Grant, Reply
<1>c. \/ session' = session /\ auth' = auth
      \/ ~session.prepared /\ session' = [session EXCEPT !.vmUsed = TRUE]
  BY DEF PrepareNativeVMAction
<1>d. \/ intents' = intents /\ auth' = auth
      \/ intents' = intents /\ auth' = [auth EXCEPT !["vm"] = {}]
      \/ /\ intents' = intents + 1 /\ DOMAIN auth' = Kinds
         /\ \A g \in auth'["vm"] : g.intent = intents + 1
         /\ \A l \in Kinds \ {"vm"} : auth'[l] = auth[l]
  <2>1. "vm" \in Kinds
    BY DEF Kinds
  <2>2. \/ intents' = intents /\ auth' = auth
        \/ intents' = intents /\ auth' = [auth EXCEPT !["vm"] = {}]
        \/ \E p, f : Grant("vm", p, f)
    BY DEF PrepareNativeVMAction
  <2>3. CASE \E p, f : Grant("vm", p, f)
    BY <2>1, <2>3, Granted
  <2> QED
    BY <2>2, <2>3
<1>1. Types'
  <2>1. DOMAIN auth' = Kinds /\ intents' \in Nat
    BY <1>d DEF Types
  <2>2. session' \in [prepared : BOOLEAN, confirmed : BOOLEAN, started : BOOLEAN, vmUsed : BOOLEAN]
    BY <1>c DEF Types
  <2> QED
    BY <1>a, <1>b, <2>1, <2>2 DEF Types, Places
<1>2. OneSlot'
  BY <1>a, <1>b, <1>c, <1>d DEF OneSlot
<1>3. ByPlace'
  BY <1>a, <1>b, <1>c, <1>d DEF ByPlace, Held, Startups, Kinds
<1>4. Inert'
  BY <1>a, <1>b, <1>c, <1>d DEF Inert
<1>5. OnePlan'
  BY <1>a, <1>b, <1>c, <1>d DEF OnePlan, Plans, Kinds, Types
<1>6. VMOnly'
  BY <1>a, <1>b, <1>c, <1>d DEF VMOnly, Kinds, Types
<1>7. Earned'
  BY <1>a, <1>b, <1>c, <1>d DEF Earned, Types
<1>8. OneIntent'
  BY <1>a, <1>b, <1>c, <1>d DEF OneIntent, Kinds, Types
<1>9. Observed'
  BY <1>a, <1>b, <1>c, <1>d DEF Observed
<1> QED
  BY <1>1, <1>2, <1>3, <1>4, <1>5, <1>6, <1>7, <1>8, <1>9

\* A confirmation empties the authority; it goes on only with its own grant.
LEMMA Consumed ==
    ASSUME Types, conf = {}, NEW k \in Kinds, NEW already, Consume(k, already)
    PROVE  /\ auth' = [auth EXCEPT ![k] = {}]
           /\ \/ pc' = "answer" /\ conf' = {}
              \/ /\ pc' = "observe"
                 /\ \E g \in auth[k] : \E c :
                      conf' = {c} /\ c.kind = k /\ c.intent = g.intent /\ c.plan = g.plan
<1>1. auth' = [auth EXCEPT ![k] = {}]
  BY DEF Consume
<1>2. CASE pc' = "answer" /\ conf' = {}
  BY <1>1, <1>2
<1>3. CASE \E g \in auth[k] :
             /\ conf' = {[kind |-> k, intent |-> g.intent, plan |-> g.plan,
                          facts |-> g.facts, sys |-> world]}
             /\ pc' = "observe"
  <2>1. PICK g \in auth[k] :
             /\ conf' = {[kind |-> k, intent |-> g.intent, plan |-> g.plan,
                          facts |-> g.facts, sys |-> world]}
             /\ pc' = "observe"
    BY <1>3
  <2> DEFINE c == [kind |-> k, intent |-> g.intent, plan |-> g.plan, facts |-> g.facts,
                   sys |-> world]
  <2>2. conf' = {c} /\ c.kind = k /\ c.intent = g.intent /\ c.plan = g.plan
    BY <2>1
  <2> HIDE DEF c
  <2> QED
    BY <1>1, <2>1, <2>2
<1> QED
  BY <1>2, <1>3, Zenon DEF Consume, Reply

\* The confirmation of an installation is used up.
LEMMA ConfirmInstallKeeps ==
    ASSUME IInv, ConfirmNativeInstall, Track
    PROVE  IInv'
<1> USE DEF IInv
<1>a. purpose = "install" /\ purpose' = "install" /\ pc = "dispatch" /\ conf = {}
  BY OnlyInstall DEF ConfirmNativeInstall, Handling, ByPlace, Held
<1>b. /\ UNCHANGED <<intents, app, work, vm, did>>
      /\ session' = session \/ session' = [session EXCEPT !.confirmed = TRUE]
  BY DEF ConfirmNativeInstall, appVars
<1>c. \/ auth' = auth /\ pc' = "answer" /\ conf' = {}
      \/ /\ auth' = [auth EXCEPT !["install"] = {}]
         /\ \/ pc' = "answer" /\ conf' = {}
            \/ /\ pc' = "observe"
               /\ \E g \in auth["install"] : \E c :
                    conf' = {c} /\ c.kind = "install" /\ c.intent = g.intent
  <2>1. "install" \in Kinds
    BY DEF Kinds
  <2>2. CASE startupValidate
    <3>1. \E b : Consume("install", b)
      BY <2>2 DEF ConfirmNativeInstall
    <3> QED
      BY <1>a, <2>1, <3>1, Consumed
  <2>3. CASE ~startupValidate
    BY <1>a, <2>3 DEF ConfirmNativeInstall, Reply
  <2> QED
    BY <2>2, <2>3
<1>d. \A c \in conf' : c.kind = "install"
  BY <1>c
<1>1. Types'
  BY <1>a, <1>b, <1>c DEF Types, Places
<1>2. OneSlot'
  BY <1>a, <1>b, <1>c DEF OneSlot
<1>3. ByPlace'
  BY <1>a, <1>b, <1>c DEF ByPlace, Held, Startups, Kinds, OneIntent
<1>4. Inert'
  BY <1>a, <1>b, <1>c DEF Inert
<1>5. OnePlan'
  BY <1>a, <1>b, <1>c DEF OnePlan, Plans, Kinds, Types
<1>6. VMOnly'
  BY <1>a, <1>b, <1>c, <1>d DEF VMOnly, Kinds, Types
<1>7. Earned'
  BY <1>a, <1>b, <1>c DEF Earned, Types
<1>8. OneIntent'
  BY <1>a, <1>b, <1>c DEF OneIntent, Kinds, Types
<1>9. Observed'
  BY <1>a, <1>b, <1>c DEF Observed
<1> QED
  BY <1>1, <1>2, <1>3, <1>4, <1>5, <1>6, <1>7, <1>8, <1>9

\* The confirmation of a maintenance action is used up.
LEMMA ConfirmMaintenanceKeeps ==
    ASSUME IInv, ConfirmNativeMaintenance, Track
    PROVE  IInv'
<1> USE DEF IInv
<1>a. purpose = "install" /\ purpose' = "install" /\ pc = "dispatch" /\ conf = {}
  BY OnlyInstall DEF ConfirmNativeMaintenance, Handling, ByPlace, Held
<1>b. /\ UNCHANGED <<intents, app, work, vm, did>>
      /\ session' = session \/ session' = [session EXCEPT !.confirmed = TRUE]
  BY DEF ConfirmNativeMaintenance, appVars
<1>c. \/ auth' = auth /\ pc' = "answer" /\ conf' = {}
      \/ /\ auth' = [auth EXCEPT !["maintenance"] = {}]
         /\ \/ pc' = "answer" /\ conf' = {}
            \/ /\ pc' = "observe"
               /\ \E g \in auth["maintenance"] : \E c :
                    conf' = {c} /\ c.kind = "maintenance" /\ c.intent = g.intent
  <2>1. "maintenance" \in Kinds
    BY DEF Kinds
  <2>2. CASE startupValidate
    <3>1. \E b : Consume("maintenance", b)
      BY <2>2 DEF ConfirmNativeMaintenance
    <3> QED
      BY <1>a, <2>1, <3>1, Consumed
  <2>3. CASE ~startupValidate
    BY <1>a, <2>3 DEF ConfirmNativeMaintenance, Reply
  <2> QED
    BY <2>2, <2>3
<1>d. \A c \in conf' : c.kind = "maintenance"
  BY <1>c
<1>1. Types'
  BY <1>a, <1>b, <1>c DEF Types, Places
<1>2. OneSlot'
  BY <1>a, <1>b, <1>c DEF OneSlot
<1>3. ByPlace'
  BY <1>a, <1>b, <1>c DEF ByPlace, Held, Startups, Kinds, OneIntent
<1>4. Inert'
  BY <1>a, <1>b, <1>c DEF Inert
<1>5. OnePlan'
  BY <1>a, <1>b, <1>c DEF OnePlan, Plans, Kinds, Types
<1>6. VMOnly'
  BY <1>a, <1>b, <1>c, <1>d DEF VMOnly, Kinds, Types
<1>7. Earned'
  BY <1>a, <1>b, <1>c DEF Earned, Types
<1>8. OneIntent'
  BY <1>a, <1>b, <1>c DEF OneIntent, Kinds, Types
<1>9. Observed'
  BY <1>a, <1>b, <1>c DEF Observed
<1> QED
  BY <1>1, <1>2, <1>3, <1>4, <1>5, <1>6, <1>7, <1>8, <1>9

\* The confirmation of a VM action is used up.
LEMMA ConfirmVMActionKeeps ==
    ASSUME IInv, ConfirmNativeVMAction, Track
    PROVE  IInv'
<1> USE DEF IInv
<1>a. purpose = "install" /\ purpose' = "install" /\ pc = "dispatch" /\ conf = {}
  BY OnlyInstall DEF ConfirmNativeVMAction, Handling, ByPlace, Held
<1>b. /\ UNCHANGED <<intents, app, work, vm, did>>
      /\ session' = session \/ session' = [session EXCEPT !.confirmed = TRUE]
  BY DEF ConfirmNativeVMAction, appVars
<1>c. \/ auth' = auth /\ pc' = "answer" /\ conf' = {}
      \/ /\ auth' = [auth EXCEPT !["vm"] = {}]
         /\ \/ pc' = "answer" /\ conf' = {}
            \/ /\ pc' = "observe"
               /\ \E g \in auth["vm"] : \E c :
                    conf' = {c} /\ c.kind = "vm" /\ c.intent = g.intent
  <2>1. "vm" \in Kinds
    BY DEF Kinds
  <2>2. CASE startupValidate
    <3>1. \E b : Consume("vm", b)
      BY <2>2 DEF ConfirmNativeVMAction
    <3> QED
      BY <1>a, <2>1, <3>1, Consumed
  <2>3. CASE ~startupValidate
    BY <1>a, <2>3 DEF ConfirmNativeVMAction, Reply
  <2> QED
    BY <2>2, <2>3
<1>d. \A c \in conf' : c.kind = "vm"
  BY <1>c
<1>1. Types'
  BY <1>a, <1>b, <1>c DEF Types, Places
<1>2. OneSlot'
  BY <1>a, <1>b, <1>c DEF OneSlot
<1>3. ByPlace'
  BY <1>a, <1>b, <1>c DEF ByPlace, Held, Startups, Kinds, OneIntent
<1>4. Inert'
  BY <1>a, <1>b, <1>c DEF Inert
<1>5. OnePlan'
  BY <1>a, <1>b, <1>c DEF OnePlan, Plans, Kinds, Types
<1>6. VMOnly'
  BY <1>a, <1>b, <1>c, <1>d DEF VMOnly, Kinds, Types
<1>7. Earned'
  BY <1>a, <1>b, <1>c DEF Earned, Types
<1>8. OneIntent'
  BY <1>a, <1>b, <1>c DEF OneIntent, Kinds, Types
<1>9. Observed'
  BY <1>a, <1>b, <1>c DEF Observed
<1> QED
  BY <1>1, <1>2, <1>3, <1>4, <1>5, <1>6, <1>7, <1>8, <1>9

\* The facts of the grant are observed once more.
LEMMA ObserveAgainKeeps ==
    ASSUME IInv, ObserveAgain, Track
    PROVE  IInv'
<1> USE DEF IInv
<1>a. /\ pc = "observe" /\ UNCHANGED <<purpose, session, auth, intents, app, work, vm, did>>
      /\ Observation' = Observation
  BY DEF ObserveAgain, appVars, Observation
<1>b. \/ pc' = "answer" /\ conf' = {}
      \/ pc' = "run" /\ conf' = conf /\ \E c \in conf : c.facts \in Facts(c, Observation)
  BY DEF ObserveAgain, Reply, revalidate
<1>1. Types'
  BY <1>a, <1>b DEF Types, Places
<1>2. OneSlot'
  BY <1>a, <1>b DEF OneSlot
<1>3. ByPlace'
  BY <1>a, <1>b DEF ByPlace, Held, Startups, Kinds
<1>4. Inert'
  BY <1>a, <1>b DEF Inert
<1>5. OnePlan'
  BY <1>a, <1>b DEF OnePlan, Plans, Kinds, Types
<1>6. VMOnly'
  BY <1>a, <1>b DEF VMOnly, Kinds, Types
<1>7. Earned'
  BY <1>a, <1>b DEF Earned, Types
<1>8. OneIntent'
  BY <1>a, <1>b DEF OneIntent, Kinds, Types
<1>9. Observed'
  <2>1. ASSUME pc' = "run", NEW c \in conf'
        PROVE  \E o \in since' : c.facts \in Facts(c, o)
    <3>1. c \in conf /\ c.facts \in Facts(c, Observation)
      BY <1>b, <2>1 DEF ByPlace
    <3>2. Observation \in since'
      BY <1>a, <2>1, Tracked
    <3> QED
      BY <3>1, <3>2
  <2> QED
    BY <2>1 DEF Observed
<1> QED
  BY <1>1, <1>2, <1>3, <1>4, <1>5, <1>6, <1>7, <1>8, <1>9

\* The granted plan runs: its grant is spent, the history has it once.
LEMMA RanKeeps ==
    ASSUME IInv, pc = "run", NEW c \in conf, NEW e \in Entries,
           did' = Append(did, e), e.kind = c.kind, e.intent = c.intent, e.held,
           pc' \in {"answer", "act", "force"}, conf' = {}, UNCHANGED <<purpose, auth, intents>>,
           session' = session \/ (c.kind = "install" /\ session' = [session EXCEPT !.started = TRUE]),
           c.kind # "install" => UNCHANGED <<app, work>>,
           c.kind # "vm" => UNCHANGED vm,
           app' \in [running : BOOLEAN, done : BOOLEAN, error : BOOLEAN, stopping : BOOLEAN],
           work' \in [Installs -> {"free", "run", "report", "done"}],
           vm' \in [phase : Phases, worker : BOOLEAN, owned : BOOLEAN, cancelled : BOOLEAN],
           OneSlot'
    PROVE  IInv'
<1> USE DEF IInv
<1>a. /\ did' \in Seq(Entries)
      /\ DOMAIN did' = DOMAIN did \union {Len(did) + 1}
      /\ Len(did) + 1 \notin DOMAIN did
      /\ did'[Len(did) + 1] = e
      /\ \A n \in DOMAIN did : did'[n] = did[n]
  BY Appends DEF Types
<1>b. c.kind \in Kinds /\ c \in conf
  BY DEF ByPlace
<1>c. purpose # "configuration"
  BY DEF Inert
<1>d. session' \in [prepared : BOOLEAN, confirmed : BOOLEAN, started : BOOLEAN, vmUsed : BOOLEAN]
      /\ session'.prepared = session.prepared /\ session'.vmUsed = session.vmUsed
  BY DEF Types
<1>1. Types'
  BY <1>a, <1>b, <1>c, <1>d DEF Types, Places
<1>2. OneSlot'
  BY <1>a, <1>b, <1>c, <1>d
<1>3. ByPlace'
  BY <1>a, <1>b, <1>c, <1>d DEF ByPlace, Held, Startups
<1>4. Inert'
  BY <1>a, <1>b, <1>c, <1>d DEF Inert
<1>5. OnePlan'
  BY <1>a, <1>b, <1>c, <1>d DEF OnePlan, Plans, Kinds, ByPlace, Types
<1>6. VMOnly'
  BY <1>a, <1>b, <1>c, <1>d DEF VMOnly, ByPlace, Kinds, Types
<1>7. Earned'
  BY <1>a, <1>b, <1>c, <1>d DEF Earned, OnePlan, ByPlace, Plans, Kinds, Types
<1>8. OneIntent'
  BY <1>a, <1>b, <1>c, <1>d DEF OneIntent, ByPlace
<1>9. Observed'
  BY <1>a, <1>b, <1>c, <1>d DEF Observed
<1> QED
  BY <1>1, <1>2, <1>3, <1>4, <1>5, <1>6, <1>7, <1>8, <1>9

\* The confirmation ends in a refusal, or its granted plan runs.
LEMMA confirmKeeps ==
    ASSUME IInv, confirm, Track
    PROVE  IInv'
<1> USE DEF IInv
<1>a. /\ pc = "run" /\ conf' = {} /\ UNCHANGED <<purpose, auth, intents>>
  BY DEF confirm
<1>b. PICK c \in conf :
         \/ Reply("answer", FALSE) /\ UNCHANGED <<session, appVars, did>>
         \/ /\ c.kind = "install" /\ StartInstall(c.plan) /\ Record("install", c)
            /\ session' = [session EXCEPT !.started = TRUE] /\ Reply("answer", TRUE)
         \/ /\ c.kind = "maintenance" /\ pc' = "act" /\ Record("maintenance", c)
            /\ UNCHANGED <<session, appVars>>
         \/ /\ c.kind = "vm" /\ runNativeVMAction(c.plan.action) /\ AfterVM(c.plan.action)
            /\ Record("vm", c) /\ UNCHANGED session
  BY DEF confirm, StartInstallRefused, appVars
<1>c. c.kind \in Kinds /\ c.intent \in Nat
  BY DEF ByPlace
<1>d. Record(c.kind, c) => \E e \in Entries : /\ did' = Append(did, e) /\ e.kind = c.kind
                                              /\ e.intent = c.intent /\ e.held
  BY <1>a, <1>c, Recorded DEF Observed
<1>1. CASE Reply("answer", FALSE) /\ UNCHANGED <<session, appVars, did>>
  <2>a. pc' = "answer" /\ UNCHANGED <<session, app, work, vm, did>>
    BY <1>1 DEF Reply, appVars
  <2>1. Types'
    BY <1>a, <2>a DEF Types, Places
  <2>2. OneSlot'
    BY <1>a, <2>a DEF OneSlot
  <2>3. ByPlace'
    BY <1>a, <2>a DEF ByPlace, Held, Startups, Kinds
  <2>4. Inert'
    BY <1>a, <2>a DEF Inert
  <2>5. OnePlan'
    BY <1>a, <2>a DEF OnePlan, Plans, Kinds, Types
  <2>6. VMOnly'
    BY <1>a, <2>a DEF VMOnly, Kinds, Types
  <2>7. Earned'
    BY <1>a, <2>a DEF Earned, Types
  <2>8. OneIntent'
    BY <1>a, <2>a DEF OneIntent, Kinds, Types
  <2>9. Observed'
    BY <1>a, <2>a DEF Observed
  <2> QED
    BY <2>1, <2>2, <2>3, <2>4, <2>5, <2>6, <2>7, <2>8, <2>9
<1>2. CASE /\ c.kind = "install" /\ StartInstall(c.plan) /\ Record("install", c)
            /\ session' = [session EXCEPT !.started = TRUE] /\ Reply("answer", TRUE)
  <2>1. PICK e \in Entries : did' = Append(did, e) /\ e.kind = c.kind /\ e.intent = c.intent /\ e.held
    BY <1>2, <1>d
  <2>2. /\ app' \in [running : BOOLEAN, done : BOOLEAN, error : BOOLEAN, stopping : BOOLEAN]
        /\ work' \in [Installs -> {"free", "run", "report", "done"}]
        /\ OneSlot' /\ UNCHANGED vm
    BY <1>2, Started
  <2>3. pc' = "answer" /\ vm' \in [phase : Phases, worker : BOOLEAN, owned : BOOLEAN, cancelled : BOOLEAN]
    BY <1>2, <2>2 DEF Reply, Types
  <2> QED
    BY <1>2, <1>a, <2>1, <2>2, <2>3, RanKeeps
<1>3. CASE /\ c.kind = "maintenance" /\ pc' = "act" /\ Record("maintenance", c)
           /\ UNCHANGED <<session, appVars>>
  <2>1. PICK e \in Entries : did' = Append(did, e) /\ e.kind = c.kind /\ e.intent = c.intent /\ e.held
    BY <1>3, <1>d
  <2>2. /\ app' \in [running : BOOLEAN, done : BOOLEAN, error : BOOLEAN, stopping : BOOLEAN]
        /\ work' \in [Installs -> {"free", "run", "report", "done"}]
        /\ vm' \in [phase : Phases, worker : BOOLEAN, owned : BOOLEAN, cancelled : BOOLEAN]
        /\ OneSlot' /\ UNCHANGED <<app, work, vm>>
    BY <1>3 DEF appVars, Types, OneSlot
  <2> QED
    BY <1>3, <1>a, <2>1, <2>2, RanKeeps
<1>4. CASE /\ c.kind = "vm" /\ runNativeVMAction(c.plan.action) /\ AfterVM(c.plan.action)
           /\ Record("vm", c) /\ UNCHANGED session
  <2>1. PICK e \in Entries : did' = Append(did, e) /\ e.kind = c.kind /\ e.intent = c.intent /\ e.held
    BY <1>4, <1>d
  <2>2. /\ vm' \in [phase : Phases, worker : BOOLEAN, owned : BOOLEAN, cancelled : BOOLEAN]
        /\ UNCHANGED <<app, work>>
    BY <1>4, VMActed
  <2>3. /\ app' \in [running : BOOLEAN, done : BOOLEAN, error : BOOLEAN, stopping : BOOLEAN]
        /\ work' \in [Installs -> {"free", "run", "report", "done"}]
        /\ OneSlot' /\ pc' \in {"answer", "force"}
    BY <1>4, <2>2 DEF Types, OneSlot, AfterVM, Reply
  <2> QED
    BY <1>4, <1>a, <2>1, <2>2, <2>3, RanKeeps
<1> QED
  BY <1>b, <1>1, <1>2, <1>3, <1>4

-----------------------------------------------------------------------------
(* The specification *)

\* An engine process starts with nothing prepared and nothing running.
LEMMA Initially ==
    ASSUME Init PROVE IInv
<1>1. Types
  <2>1. vm \in [phase : Phases, worker : BOOLEAN, owned : BOOLEAN, cancelled : BOOLEAN]
    BY DEF Init, Phases
  <2> QED
    BY <2>1 DEF Init, Types, Places
<1>2. ~vm.worker /\ ~vm.owned /\ conf = {} /\ did = <<>> /\ DOMAIN did = {}
  <2>1. vm \in [phase : {"absent", "ready"}, worker : {FALSE}, owned : {FALSE}, cancelled : {FALSE}]
    BY DEF Init
  <2>2. ~vm.worker /\ ~vm.owned
    BY <2>1, Zenon
  <2>3. conf = {} /\ did = <<>>
    BY DEF Init
  <2> QED
    BY <2>2, <2>3
<1>3. OneSlot
  BY DEF Init, OneSlot
<1>4. ByPlace
  BY <1>2 DEF Init, ByPlace
<1>5. Inert /\ OnePlan
  BY <1>2 DEF Init, Inert, OnePlan, Kinds, Plans
<1>6. VMOnly /\ Earned
  BY <1>2 DEF Init, VMOnly, Earned, Kinds
<1>7. OneIntent /\ Observed
  BY <1>2 DEF Init, OneIntent, Observed, Kinds
<1> QED
  BY <1>1, <1>3, <1>4, <1>5, <1>6, <1>7 DEF IInv

\* Every step of the engine, its client and the world keeps the invariant.
LEMMA Steps ==
    ASSUME IInv, [Next]_vars
    PROVE  IInv'
<1>1. CASE Next
  <2>1. Track /\ Types /\ Step
    BY <1>1 DEF Next, IInv
  <2>2. CASE Startup \/ Dispatch
    BY <2>1, <2>2, QuietActions, QuietKeeps, ServeStartInstallKeeps, ServeVMKeeps, ServeActKeeps,
       RebootKeeps, PrepareInstallKeeps, PrepareMaintenanceKeeps, PrepareVMKeeps,
       ConfirmInstallKeeps, ConfirmMaintenanceKeeps, ConfirmVMActionKeeps DEF Startup, Dispatch
  <2>3. CASE Server
    BY <2>1, <2>2, <2>3, QuietActions, QuietKeeps, ForceReturnsKeeps, AuthorizeInstallKeeps,
       ObserveAgainKeeps, confirmKeeps, shutdownVMKeeps, stopInstallKeeps DEF Server
  <2>4. CASE Watch \/ ClientStops \/ WorldChanges
    BY <2>1, <2>4, QuietActions, QuietKeeps
  <2>5. CASE \/ \E r \in Requests[purpose] : Receive(r)
             \/ \E t \in Threads : WriteLine(t)
             \/ \E t \in {"install", "vm"} : emit(t)
    BY <2>1, <2>5, QuietActions, QuietKeeps
  <2>6. CASE \E i \in Installs : RunEnds(i) \/ WorkerReturns(i)
    BY <2>1, <2>6, RunEndsKeeps, WorkerReturnsKeeps
  <2>7. CASE VMWorkerEnds \/ GuestEnds
    BY <2>1, <2>7, VMWorkerEndsKeeps, GuestEndsKeeps
  <2> QED
    BY <2>1, <2>3, <2>4, <2>5, <2>6, <2>7 DEF Step
<1>2. CASE UNCHANGED vars
  <2>1. UNCHANGED <<purpose, pc, session, auth, conf, intents, app, work, vm, did, since>>
    BY <1>2 DEF vars, sessionVars, appVars
  <2> QED
    BY <2>1 DEF IInv, Types, OneSlot, ByPlace, Inert, OnePlan, VMOnly, Earned, OneIntent, Observed
<1> QED
  BY <1>1, <1>2

\* The inductive invariant holds in every reachable state.
LEMMA Invariant == Spec => []IInv
<1>1. Init => IInv
  BY Initially
<1>2. IInv /\ [Next]_vars => IInv'
  BY Steps
<1> QED
  BY <1>1, <1>2, PTL DEF Spec

\* Two entries that are the same are one.
LEMMA AtMostOne ==
    ASSUME NEW S, \A x, y \in S : x = y
    PROVE  Cardinality(S) <= 1
<1>1. CASE S = {}
  BY <1>1, FS_EmptySet
<1>2. CASE \E x : S = {x}
  BY <1>2, FS_Singleton
<1> QED
  BY <1>1, <1>2

\* Whatever an install session runs was granted, confirmed once, and still as
\* the person was told at a moment after the confirmation arrived.
THEOREM OnlyWithConsent == Spec => []ConsentedOnly
<1>1. IInv => ConsentedOnly
  BY DEF IInv, ConsentedOnly, OneIntent, Ran
<1> QED
  BY <1>1, Invariant, PTL

\* A session runs one plan, or VM actions, and a configuration session nothing.
THEOREM OnePurposeOnly == Spec => []OnePurpose
<1>1. ASSUME IInv PROVE OnePurpose
  <2>1. ASSUME purpose = "install"
        PROVE  \A x, y \in Ran({"install", "maintenance"}) : x = y
    BY <1>1, <2>1 DEF IInv, OnePlan, Plans, Ran
  <2>2. purpose = "install" => Cardinality(Ran({"install", "maintenance"})) <= 1
    BY <2>1, AtMostOne
  <2>3. purpose = "install" /\ Ran({"install", "maintenance"}) # {} => Ran({"vm"}) = {} /\ ~vm.owned
    BY <1>1 DEF IInv, OnePlan, VMOnly, Plans, Ran, Types
  <2> QED
    BY <1>1, <2>2, <2>3 DEF IInv, OnePurpose, Inert
<1> QED
  BY <1>1, Invariant, PTL

\* A restart that was given stays earned: no later installation undoes it.
THEOREM RestartStaysEarned == Spec => []RestartIsEarned
<1>1. IInv => RestartIsEarned
  BY DEF IInv, RestartIsEarned, Earned, Ran
<1> QED
  BY <1>1, Invariant, PTL

\* At most one install worker of the process runs or reports at any time.
THEOREM OneWorkerOnly == Spec => []OneWorker
<1>1. IInv => OneWorker
  BY AtMostOne DEF IInv, OneWorker, OneSlot
<1> QED
  BY <1>1, Invariant, PTL

\* An engine process that has ended left no worker and no VM of its own.
THEOREM CleanExit == Spec => []ExitIsClean
<1>1. IInv => ExitIsClean
  BY DEF IInv, ExitIsClean, ByPlace
<1> QED
  BY <1>1, Invariant, PTL

-----------------------------------------------------------------------------
(* The preflight on Windows and the deployer after the restart *)

\* A plan whose disk has a size, on PCs that know, or bound, the image's size
\* and count the free space of its drive in whole numbers.
Covered(plan) ==
    /\ plan.diskSizeGB \in Nat \ {0}
    /\ \A w \in Worlds :
         /\ w.imageSize \in Nat /\ w.scratch \in Nat /\ w.free[plan.storageDrive] \in Nat
         /\ \/ w.registryAnswers \/ w.imageSize <= scratchDefaultCompressed
            \/ stagedBundleCompressedBytes(w, plan.imageRef) > 0

PlanRecords ==
    [imageRef : STRING, diskSizeGB : Nat, storageDrive : STRING, bootloader : STRING,
     encryption : STRING, luksPassphrase : STRING]

\* Every install plan a client may send is such a plan.
Measured ==
    \A p \in Purposes : \A r \in Requests[p] :
        r.method \in {"StartInstall", "PrepareNativeInstall"}
        /\ r.params.shape \in {"object", "array"} =>
            r.params.body \in PlanRecords /\ Covered(r.params.body)

\* The plans under way are requested ones, and the engine has just looked.
Sized ==
    /\ world \in Worlds /\ req \in Requests[purpose] \union {NoRequest}
    /\ \A c \in conf : c.kind = "install" => Covered(c.plan)
    /\ \A g \in auth["install"] : Covered(g.plan)
    /\ pc \in {"dispatch", "grant", "observe", "run"} => Observation \in since
    /\ \A n \in DOMAIN did : did[n].room

\* Most steps bring in no plan and run none.
NoNewPlan ==
    /\ purpose' = purpose /\ did' = did
    /\ world' = world \/ world' \in Worlds
    /\ req' = req \/ req' \in Requests[purpose] \union {NoRequest}
    /\ \A c \in conf' : c \in conf \/ c.kind # "install"
    /\ auth'["install"] \subseteq auth["install"]

\* A larger image never needs less scratch, and none less than the floor.
LEMMA NeedGrows ==
    ASSUME NEW a \in Nat, NEW b \in Nat, a <= b
    PROVE  /\ scratchNeedGiB(a) \in Nat /\ scratchNeedGiB(a) >= 20
           /\ scratchNeedGiB(b) \in Nat /\ scratchNeedGiB(a) <= scratchNeedGiB(b)
<1>1. (a * 7) \div 2 <= (b * 7) \div 2 /\ (a * 7) \div 2 \in Nat /\ (b * 7) \div 2 \in Nat
  OBVIOUS
<1> QED
  BY <1>1 DEF scratchNeedGiB, scratchMinGiB, GiB

\* The size the preflight counts with is never below the image's.
LEMMA SizeCovers ==
    ASSUME NEW plan, Covered(plan), NEW w \in Worlds
    PROVE  /\ imageCompressedBytes(w, plan.imageRef) \in Nat
           /\ w.imageSize <= imageCompressedBytes(w, plan.imageRef)
  BY DEF Covered, imageCompressedBytes, stagedBundleCompressedBytes, scratchDefaultCompressed, GiB

\* What checkInstallSpace lets through, ensure_scratch_capacity can do.
LEMMA SpaceCovers ==
    ASSUME NEW plan, Covered(plan), NEW w \in Worlds, w.freeKnown, checkInstallSpace(plan, w)
    PROVE  ensure_scratch_capacity(plan, w)
<1> DEFINE size   == imageCompressedBytes(w, plan.imageRef)
           copy   == w.preload /\ w.bundle # plan.imageRef
           need   == scratchNeedGiB(size)
           bundle == IF copy THEN (size + GiB - 1) \div GiB ELSE 0
           least  == scratchNeedGiB(w.imageSize)
           copied == IF copy THEN (w.imageSize + GiB - 1) \div GiB ELSE 0
           free   == w.free[plan.storageDrive]
           disk   == plan.diskSizeGB
           old    == w.scratch
<1>1. /\ size \in Nat /\ w.imageSize \in Nat /\ w.imageSize <= size
      /\ free \in Nat /\ disk \in Nat /\ disk # 0 /\ old \in Nat
  BY SizeCovers DEF Covered
<1>2. need \in Nat /\ least \in Nat /\ least >= 20 /\ least <= need
  BY <1>1, NeedGrows
<1>3. bundle \in Nat /\ copied \in Nat /\ copied <= bundle
  <2> HIDE DEF size, copy
  <2> QED
    BY <1>1 DEF GiB
<1>4. free >= disk + (need + bundle + 1 + 1) - (IF old > need THEN need ELSE old)
  BY <1>1 DEF checkInstallSpace, checkInstallSpaceWith, installSpaceAt, newInstallSpace,
              scratchDriveSlackGiB, deployerArtifactsGiB
<1>5. LET new == IF old = 0 THEN 20 ELSE 0
      IN  old + new >= least \/ free >= (disk + 1 + copied) + new + (least - (old + new)) + 1
  <2> HIDE DEF need, bundle, least, copied, free, disk, old
  <2> QED
    BY <1>1, <1>2, <1>3, <1>4
<1> QED
  BY <1>5 DEF ensure_scratch_capacity, scratchMinGiB, deployerArtifactsGiB

\* The gate of an installation includes the space check.
LEMMA GateChecks ==
    ASSUME NEW plan, StartInstall(plan)
    PROVE  checkInstallSpace(plan, world)
  BY DEF StartInstall, validateInstallConfigWith

\* Defaults filled in leave disk, drive and image alone.
LEMMA DefaultsCovered ==
    ASSUME NEW cfg \in PlanRecords, Covered(cfg), NEW sys, NEW w,
           NEW p \in validateInstallConfigWith(cfg, sys, w)
    PROVE  Covered(p)
<1>1. PICK b : p = [cfg EXCEPT !.bootloader = b, !.encryption = IF @ = "" THEN "none" ELSE @]
  BY DEF validateInstallConfigWith
<1>2. p.diskSizeGB = cfg.diskSizeGB /\ p.storageDrive = cfg.storageDrive /\ p.imageRef = cfg.imageRef
  BY <1>1 DEF PlanRecords
<1> QED
  BY <1>2 DEF Covered

\* A step without a new plan keeps the sizes.
LEMMA NoNewPlanKeeps ==
    ASSUME IInv, Sized, NoNewPlan, Track
    PROVE  Sized'
  BY Tracked DEF Sized, NoNewPlan

\* Every step but a plan's arrival, its grant, its confirmation and a run.
LEMMA NoNewPlanActions ==
    ASSUME IInv, Sized
    PROVE  /\ (observeNativeProcessPeer => NoNewPlan) /\ (connectNativePipe => NoNewPlan)
           /\ (Hello => NoNewPlan)
           /\ (prepareNativeAssessment => NoNewPlan) /\ (Watch => NoNewPlan)
           /\ (EndOfInput => NoNewPlan)
           /\ (Answered => NoNewPlan) /\ (Refuse => NoNewPlan) /\ (ReadLifecycle => NoNewPlan)
           /\ (read => NoNewPlan) /\ (vmStatus => NoNewPlan) /\ (DriveReport => NoNewPlan)
           /\ (GetNativeConfiguration => NoNewPlan) /\ (installSpace => NoNewPlan)
           /\ (CancelInstall => NoNewPlan)
           /\ (Shutdown => NoNewPlan) /\ (ActReturns => NoNewPlan) /\ (StopWriter => NoNewPlan)
           /\ (ClientStops => NoNewPlan) /\ (WorldChanges => NoNewPlan)
           /\ (ForceReturns => NoNewPlan)
           /\ (shutdownVM => NoNewPlan) /\ (stopInstall => NoNewPlan) /\ (ServeVM => NoNewPlan)
           /\ (VMWorkerEnds => NoNewPlan) /\ (GuestEnds => NoNewPlan)
           /\ (PrepareNativeMaintenance => NoNewPlan)
           /\ (PrepareNativeVMAction => NoNewPlan) /\ (ObserveAgain => NoNewPlan)
           /\ (ConfirmNativeMaintenance => NoNewPlan)
           /\ (ConfirmNativeVMAction => NoNewPlan)
           /\ \A r \in Requests[purpose] : Receive(r) => NoNewPlan
           /\ \A t : WriteLine(t) => NoNewPlan
           /\ \A t : emit(t) => NoNewPlan
           /\ \A i : RunEnds(i) => NoNewPlan
           /\ \A i : WorkerReturns(i) => NoNewPlan
<1> USE DEF NoNewPlan, clientVars, writerVars, sessionVars, appVars, IInv
<1>1. observeNativeProcessPeer => NoNewPlan
  BY DEF observeNativeProcessPeer, serverVars
<1>2. connectNativePipe => NoNewPlan
  BY DEF connectNativePipe, serverVars
<1>3. Hello => NoNewPlan
  BY DEF Hello, serverVars
<1>4. prepareNativeAssessment => NoNewPlan
  BY DEF prepareNativeAssessment, serverVars
<1>5. Watch => NoNewPlan
  BY DEF Watch
<1>6. EndOfInput => NoNewPlan
  BY DEF EndOfInput
<1>7. Answered => NoNewPlan
  BY DEF Answered
<1>8. Refuse => NoNewPlan
  BY DEF Refuse, Handling, Reply
<1>9. ReadLifecycle => NoNewPlan
  BY DEF ReadLifecycle, Handling, Reply
<1>10. read => NoNewPlan
  BY DEF read, Handling, Reply
<1>11. vmStatus => NoNewPlan
  BY DEF vmStatus, Handling, Reply
<1>12. DriveReport => NoNewPlan
  BY DEF DriveReport, Handling, Reply
<1>13. GetNativeConfiguration => NoNewPlan
  BY DEF GetNativeConfiguration, Handling, Reply
<1>14. installSpace => NoNewPlan
  BY DEF installSpace, Handling, Reply
<1>15. CancelInstall => NoNewPlan
  BY DEF CancelInstall, Handling, Reply
<1>16. Shutdown => NoNewPlan
  BY DEF Shutdown, Handling, Reply
<1>17. ActReturns => NoNewPlan
  BY DEF ActReturns, Reply
<1>18. StopWriter => NoNewPlan
  BY DEF StopWriter
<1>19. ClientStops => NoNewPlan
  BY DEF ClientStops, envVars
<1>20. WorldChanges => NoNewPlan
  BY DEF WorldChanges, envVars, Sized
<1>21. ForceReturns => NoNewPlan
  BY DEF ForceReturns, Reply
<1>22. shutdownVM => NoNewPlan
  BY DEF shutdownVM
<1>23. stopInstall => NoNewPlan
  BY DEF stopInstall
<1>24. ServeVM => NoNewPlan
  BY DEF ServeVM, Handling, AfterVM, Reply
<1>25. VMWorkerEnds => NoNewPlan
  BY DEF VMWorkerEnds, workerVars
<1>26. GuestEnds => NoNewPlan
  BY DEF GuestEnds, workerVars
<1>27. PrepareNativeMaintenance => NoNewPlan
  BY DEF PrepareNativeMaintenance, Handling, Refused, Reply, Grant, Types, Kinds
<1>28. PrepareNativeVMAction => NoNewPlan
  BY DEF PrepareNativeVMAction, Handling, Refused, Reply, Grant, Types, Kinds
<1>29. ObserveAgain => NoNewPlan
  BY DEF ObserveAgain, Reply
<1>30. ConfirmNativeMaintenance => NoNewPlan
  <2> SUFFICES ASSUME ConfirmNativeMaintenance PROVE NoNewPlan
    OBVIOUS
  <2>1. UNCHANGED <<purpose, did, world, req>> /\ pc = "dispatch"
    BY DEF ConfirmNativeMaintenance, Handling
  <2>2. CASE ~startupValidate
    BY <2>1, <2>2 DEF ConfirmNativeMaintenance
  <2>3. CASE startupValidate
    <3>1. \E b : Consume("maintenance", b)
      BY <2>3 DEF ConfirmNativeMaintenance
    <3>2. /\ auth' = [auth EXCEPT !["maintenance"] = {}]
          /\ conf' = {} \/ \E c : conf' = {c} /\ c.kind = "maintenance"
      BY <2>1, <3>1, Consumed DEF ByPlace, Held, Kinds
    <3> QED
      BY <2>1, <3>2 DEF Types, Kinds
  <2> QED
    BY <2>2, <2>3
<1>31. ConfirmNativeVMAction => NoNewPlan
  <2> SUFFICES ASSUME ConfirmNativeVMAction PROVE NoNewPlan
    OBVIOUS
  <2>1. UNCHANGED <<purpose, did, world, req>> /\ pc = "dispatch"
    BY DEF ConfirmNativeVMAction, Handling
  <2>2. CASE ~startupValidate
    BY <2>1, <2>2 DEF ConfirmNativeVMAction
  <2>3. CASE startupValidate
    <3>1. \E b : Consume("vm", b)
      BY <2>3 DEF ConfirmNativeVMAction
    <3>2. /\ auth' = [auth EXCEPT !["vm"] = {}]
          /\ conf' = {} \/ \E c : conf' = {c} /\ c.kind = "vm"
      BY <2>1, <3>1, Consumed DEF ByPlace, Held, Kinds
    <3> QED
      BY <2>1, <3>2 DEF Types, Kinds
  <2> QED
    BY <2>2, <2>3
<1>32. \A r \in Requests[purpose] : Receive(r) => NoNewPlan
  BY DEF Receive
<1>33. \A t : WriteLine(t) => NoNewPlan
  BY DEF WriteLine
<1>34. \A t : emit(t) => NoNewPlan
  BY DEF emit, workerVars
<1>35. \A i : RunEnds(i) => NoNewPlan
  BY DEF RunEnds, workerVars
<1>36. \A i : WorkerReturns(i) => NoNewPlan
  BY DEF WorkerReturns, workerVars
<1> QED
  BY <1>1, <1>2, <1>3, <1>4, <1>5, <1>6, <1>7, <1>8, <1>9, <1>10, <1>11, <1>12, <1>13, <1>14,
     <1>15, <1>16, <1>17, <1>18, <1>19, <1>20, <1>21, <1>22, <1>23, <1>24, <1>25, <1>26, <1>27,
     <1>28, <1>29, <1>30, <1>31, <1>32, <1>33, <1>34, <1>35, <1>36

\* The request carries a plan that is covered.
LEMMA RequestCovered ==
    ASSUME IInv, Sized, Measured, NEW m \in {"StartInstall", "PrepareNativeInstall"}, req.method = m,
           req.params.shape \in {"object", "array"}
    PROVE  req.params.body \in PlanRecords /\ Covered(req.params.body)
<1>1. NoRequest.method = ""
  BY DEF NoRequest
<1>2. purpose \in Purposes /\ req \in Requests[purpose]
  <2>1. req # NoRequest
    BY <1>1
  <2> QED
    BY <2>1 DEF IInv, Types, Sized
<1> QED
  BY <1>2 DEF Measured

\* A run is recorded with the room it has.
LEMMA RoomRecorded ==
    ASSUME IInv, Sized, Track, NEW e \in Entries, did' = Append(did, e), e.room
    PROVE  \A n \in DOMAIN did' : did'[n].room
<1>1. /\ DOMAIN did' = DOMAIN did \union {Len(did) + 1}
      /\ did'[Len(did) + 1] = e
      /\ \A n \in DOMAIN did : did'[n] = did[n]
  BY Appends DEF IInv, Types
<1> QED
  BY <1>1 DEF Sized

\* An installation that passes the gate has room for its deployer.
LEMMA StartedWithRoom ==
    ASSUME IInv, Sized, Track, NEW c, c.intent \in Nat, Covered(c.plan), pc \in {"dispatch", "run"},
           StartInstall(c.plan), Record("install", c)
    PROVE  \A n \in DOMAIN did' : did'[n].room
<1>1. Observation \in since /\ world \in Worlds /\ Observation.world = world
  BY DEF Sized, Observation
<1>2. Observation.world.freeKnown => ensure_scratch_capacity(c.plan, Observation.world)
  BY <1>1, GateChecks, SpaceCovers
<1>3. "install" \in Kinds
  BY DEF Kinds
<1>4. PICK e \in Entries :
         /\ did' = Append(did, e)
         /\ (\E o \in since : o.world.freeKnown => ensure_scratch_capacity(c.plan, o.world)) => e.room
  BY <1>3, Recorded
<1> QED
  BY <1>1, <1>2, <1>4, RoomRecorded

\* The steps that bring in a plan or run one.
LEMMA PlanSteps ==
    ASSUME IInv, Sized, Measured, Track,
           \/ ServeStartInstall \/ ServeAct \/ Reboot \/ PrepareNativeInstall
           \/ prepareNativeInstallAuthorization \/ ConfirmNativeInstall \/ confirm
    PROVE  Sized'
<1> USE DEF IInv
<1>a. ASSUME UNCHANGED <<purpose, world, req>>,
             \A c \in conf' : c.kind = "install" => Covered(c.plan),
             \A g \in auth'["install"] : Covered(g.plan),
             \A n \in DOMAIN did' : did'[n].room
      PROVE  Sized'
  BY <1>a, Tracked DEF Sized
<1>1. CASE ServeStartInstall
  <2>1. UNCHANGED <<purpose, world, req, conf, auth>> /\ pc = "dispatch" /\ req.method = "StartInstall"
    BY <1>1 DEF ServeStartInstall, Handling, sessionVars
  <2>2. CASE UNCHANGED did
    BY <1>a, <2>1, <2>2 DEF Sized
  <2>3. CASE \E plan \in unmarshalParams(req.params) :
               /\ StartInstall(plan)
               /\ Record("install", [kind |-> "install", intent |-> 0, plan |-> plan, facts |-> <<>>])
    <3>1. PICK plan \in unmarshalParams(req.params) :
               /\ StartInstall(plan)
               /\ Record("install", [kind |-> "install", intent |-> 0, plan |-> plan, facts |-> <<>>])
      BY <2>3
    <3>2. Covered(plan)
      BY <2>1, <3>1, RequestCovered DEF unmarshalParams
    <3> DEFINE c == [kind |-> "install", intent |-> 0, plan |-> plan, facts |-> <<>>]
    <3>3. c.plan = plan /\ c.intent \in Nat /\ Record("install", c)
      BY <3>1
    <3> HIDE DEF c
    <3>4. StartInstall(c.plan) /\ Covered(c.plan)
      BY <3>1, <3>2, <3>3
    <3>5. \A n \in DOMAIN did' : did'[n].room
      BY <2>1, <3>3, <3>4, StartedWithRoom
    <3> QED
      BY <1>a, <2>1, <3>5 DEF Sized
  <2> QED
    BY <1>1, <2>2, <2>3 DEF ServeStartInstall
<1>2. CASE ServeAct \/ Reboot
  <2>1. UNCHANGED <<purpose, world, req, conf, auth>>
    BY <1>2 DEF ServeAct, Reboot, Handling, sessionVars
  <2>2. \A n \in DOMAIN did' : did'[n].room
    <3>1. did' = did \/ Ungranted("maintenance") \/ Ungranted("reboot")
      BY <1>2 DEF ServeAct, Reboot
    <3>2. {"maintenance", "reboot"} \subseteq Kinds \union {"reboot"}
      BY DEF Kinds
    <3>3. did' = did \/ \E e \in Entries : did' = Append(did, e) /\ e.room
      BY <3>1, <3>2, Unrecorded
    <3> QED
      BY <3>3, RoomRecorded DEF Sized
  <2> QED
    BY <1>a, <2>1, <2>2 DEF Sized
<1>3. CASE PrepareNativeInstall
  <2>1. /\ UNCHANGED <<purpose, world, req, auth>> /\ req.method = "PrepareNativeInstall"
        /\ pc = "dispatch" /\ conf = {}
    BY <1>3 DEF PrepareNativeInstall, Handling, ByPlace, Held
  <2>2. did' = did
    <3>1. Refused \/ UNCHANGED <<out, answer, appVars, did>>
      BY <1>3 DEF PrepareNativeInstall
    <3> QED
      BY <3>1 DEF Refused
  <2>3. \A c \in conf' : \E raw \in decodeNativeInstallPlan(req.params) :
                            c.plan \in validateInstallConfigWith(raw, world, world)
    <3>1. \A b \in boundPlans : \E raw \in decodeNativeInstallPlan(req.params) :
                                   b.plan \in validateInstallConfigWith(raw, world, world)
      BY DEF boundPlans
    <3> QED
      BY <1>3, <2>1, <3>1 DEF PrepareNativeInstall, Refused
  <2>4. ASSUME NEW c \in conf' PROVE Covered(c.plan)
    <3>1. PICK raw \in decodeNativeInstallPlan(req.params) :
                  c.plan \in validateInstallConfigWith(raw, world, world)
      BY <2>3
    <3>2. raw = req.params.body /\ req.params.shape = "object"
      BY <3>1 DEF decodeNativeInstallPlan, strictJSONObject
    <3>3. raw \in PlanRecords /\ Covered(raw)
      BY <2>1, <3>2, RequestCovered
    <3> QED
      BY <3>1, <3>3, DefaultsCovered
  <2> QED
    BY <1>a, <2>1, <2>2, <2>4 DEF Sized
<1>4. CASE prepareNativeInstallAuthorization
  <2>1. UNCHANGED <<purpose, world, req, did>> /\ pc = "grant" /\ conf' = {}
    BY <1>4 DEF prepareNativeInstallAuthorization
  <2>2. auth' = auth \/ \E c \in conf : Grant("install", c.plan, c.facts)
    BY <1>4 DEF prepareNativeInstallAuthorization
  <2>3. \A g \in auth'["install"] : Covered(g.plan)
    <3>1. CASE auth' = auth
      BY <3>1 DEF Sized
    <3>2. CASE \E c \in conf : Grant("install", c.plan, c.facts)
      <4>1. PICK c \in conf : Grant("install", c.plan, c.facts)
        BY <3>2
      <4>2. Covered(c.plan)
        BY <2>1 DEF Sized, ByPlace
      <4>3. \A g \in auth'["install"] : g.plan = c.plan
        BY <4>1 DEF Grant, Types, Kinds
      <4> QED
        BY <4>2, <4>3
    <3> QED
      BY <2>2, <3>1, <3>2
  <2> QED
    BY <1>a, <2>1, <2>3 DEF Sized
<1>5. CASE ConfirmNativeInstall
  <2>1. UNCHANGED <<purpose, world, req, did>> /\ pc = "dispatch" /\ conf = {}
    BY <1>5 DEF ConfirmNativeInstall, Handling, ByPlace, Held
  <2>2. \/ auth' = auth /\ conf' = {}
        \/ \E b : Consume("install", b)
    BY <1>5, <2>1 DEF ConfirmNativeInstall
  <2>3. CASE auth' = auth /\ conf' = {}
    BY <1>a, <2>1, <2>3 DEF Sized
  <2>4. CASE \E b : Consume("install", b)
    <3>1. auth' = [auth EXCEPT !["install"] = {}]
      BY <2>4 DEF Consume
    <3>2. \A c \in conf' : \E g \in auth["install"] : c.plan = g.plan
      BY <2>1, <2>4, Consumed DEF Kinds
    <3> QED
      BY <1>a, <2>1, <3>1, <3>2 DEF Sized, Types, Kinds
  <2> QED
    BY <2>2, <2>3, <2>4
<1>6. CASE confirm
  <2>1. UNCHANGED <<purpose, world, req, auth>> /\ pc = "run" /\ conf' = {}
    BY <1>6 DEF confirm
  <2>2. PICK c \in conf :
           \/ did' = did
           \/ c.kind = "install" /\ StartInstall(c.plan) /\ Record("install", c)
           \/ Record("maintenance", c) \/ Record("vm", c)
    BY <1>6 DEF confirm
  <2>3. c.intent \in Nat /\ (c.kind = "install" => Covered(c.plan))
    BY DEF ByPlace, Sized
  <2>4. CASE did' = did
    BY <1>a, <2>1, <2>4 DEF Sized
  <2>5. CASE c.kind = "install" /\ StartInstall(c.plan) /\ Record("install", c)
    <3>1. \A n \in DOMAIN did' : did'[n].room
      BY <2>1, <2>3, <2>5, StartedWithRoom
    <3> QED
      BY <1>a, <2>1, <3>1 DEF Sized
  <2>6. CASE Record("maintenance", c) \/ Record("vm", c)
    <3>1. {"maintenance", "vm"} \subseteq Kinds
      BY DEF Kinds
    <3>2. \E e \in Entries : did' = Append(did, e) /\ e.room
      BY <2>3, <2>6, <3>1, Recorded
    <3>3. \A n \in DOMAIN did' : did'[n].room
      BY <3>2, RoomRecorded
    <3> QED
      BY <1>a, <2>1, <3>3 DEF Sized
  <2> QED
    BY <2>2, <2>4, <2>5, <2>6
<1> QED
  BY <1>1, <1>2, <1>3, <1>4, <1>5, <1>6

\* Every step keeps the sizes.
LEMMA SizedSteps ==
    ASSUME IInv, Sized, Measured, [Next]_vars
    PROVE  Sized'
<1>1. CASE Next
  <2>1. Track /\ Step
    BY <1>1 DEF Next
  <2>2. CASE Server
    BY <2>1, <2>2, NoNewPlanActions, NoNewPlanKeeps, PlanSteps DEF Server, Startup, Dispatch
  <2> QED
    BY <2>1, <2>2, NoNewPlanActions, NoNewPlanKeeps DEF Step
<1>2. CASE UNCHANGED vars
  <2>1. UNCHANGED <<purpose, pc, world, req, auth, conf, app, vm, did, since>>
    BY <1>2 DEF vars, sessionVars, appVars
  <2> QED
    BY <2>1 DEF Sized, Observation
<1> QED
  BY <1>1, <1>2

\* Where sizes are known, an installation that passes the preflight on Windows
\* has the room its deployer asks for after the restart.
THEOREM PreflightIsEnough ==
    ASSUME Measured
    PROVE  Spec => []PreflightCoversDeployer
<1>1. Init => Sized
  BY DEF Init, Sized, Kinds
<1>2. IInv /\ Sized /\ [Next]_vars => Sized'
  BY SizedSteps
<1>3. Sized => PreflightCoversDeployer
  BY DEF Sized, PreflightCoversDeployer
<1> QED
  BY <1>1, <1>2, <1>3, Invariant, PTL DEF Spec
=============================================================================
