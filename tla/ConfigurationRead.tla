-------------------------- MODULE ConfigurationRead --------------------------
(***************************************************************************)
(* The configuration observation of an elevated native session:            *)
(* native_configuration(_windows).go, native_storage(_session)_windows.go. *)
(* One thread looks at the selection, the volumes (through a PowerShell    *)
(* helper in a job of its own, asked twice), their NTFS serials and the    *)
(* files of every installer root, twice each, while the PC changes; the    *)
(* helper may answer, babble, hang, exit or leave children behind, the     *)
(* deadlines pass, and the engine may die.                                 *)
(*                                                                         *)
(* A cell of the PC is [at, val]: "at" is the identity a change leaves     *)
(* behind (a GUID, a serial, the bytes of a file and the file index of its *)
(* directory), new with every change.  That none comes back within one     *)
(* observation is the assumption under which two equal looks mean one      *)
(* value in between.                                                       *)
(***************************************************************************)
EXTENDS Admission, Sequences

CONSTANTS
    Letters,     \* drive letters of volumes
    Roots,       \* fixed drives' \wootc directories
    Contents,    \* what a root may hold, by name: the files of configurationAccepted
    Embedded,    \* the catalogue of the build
    Starts,      \* what the PC may hold when the observation starts, by cell
    MaxChanges

ASSUME ReadAssumption ==
    /\ MaxChanges \in Nat
    /\ "absent" \notin DOMAIN Contents /\ "empty" \notin DOMAIN Contents

VARIABLES
    world,    \* the PC, by cell
    changes,  \* how many times it changed
    pc,       \* the observing thread
    todo,     \* the cells this pass has still to look at
    first,    \* the first look at each cell
    heard,    \* the rows of the frame the helper is making
    offered,  \* the letters whose volume is offered
    selected, \* the selection made when the session started
    mid,      \* the PC between the two passes over the roots
    seq,      \* requests sent to the helper
    frame,    \* its answer to the last one: "none", "good" or "bad"
    helper,   \* [state, code, kids] of the process and its children
    job,      \* the job object: "none", "open" or "closed"
    pipes,    \* are the engine's ends open?
    ctx,      \* "active", "storage" (the query budget is spent) or "done"
    closing,  \* [abort, exited, drained, forced, verdict] of close
    result    \* what the caller got: a function on cells; <<>> for a refusal

pcVars     == <<world, changes>>
readVars   == <<first, offered, mid, selected>>
helperVars == <<heard, frame, helper>>
sessVars   == <<seq, job, pipes, closing>>
vars == <<pcVars, pc, todo, readVars, helperVars, sessVars, ctx, result>>

\* The promise: one instant.  It is taken between the two passes over the roots.
Phase ==
    IF pc = "done" THEN IF result = <<>> THEN "refused" ELSE "returned"
    ELSE IF pc = "dead" THEN "refused"
    ELSE IF mid = <<>> THEN "open" ELSE "taken"

Promise == INSTANCE ConfigurationSnapshot WITH phase <- Phase, snap <- mid

RowCell(l)    == Promise!RowCell(l)
SerialCell(l) == Promise!SerialCell(l)
SelectionCell == Promise!SelectionCell
Rows          == Promise!Rows
RootSet       == Promise!RootSet
Cells         == Promise!Cells

Values(c) ==
    CASE c[1] = "row"       -> {"plain", "encrypted"}
      [] c[1] = "serial"    -> {"ntfs"}
      [] c[1] = "root"      -> {"absent", "empty"} \union DOMAIN Contents
      [] c[1] = "selection" -> Roots \union {"none"}

StorageDone == ctx # "active"
WholeDone   == ctx = "done"

Init ==
    /\ world \in {[c \in Cells |-> [at |-> 0, val |-> s[c]]] : s \in Starts}
    /\ changes = 0
    /\ pc = "select" /\ todo = {} /\ first = <<>> /\ heard = <<>> /\ offered = {}
    /\ selected = world[SelectionCell] /\ mid = <<>>
    /\ seq = 0 /\ frame = "none" /\ helper = [state |-> "none", code |-> 0, kids |-> FALSE]
    /\ job = "none" /\ pipes = TRUE /\ ctx = "active"
    /\ closing = [abort |-> FALSE, exited |-> FALSE, drained |-> FALSE, forced |-> FALSE,
                  verdict |-> "open"]
    /\ result = <<>>

-----------------------------------------------------------------------------
(* The environment *)

\* One cell gets a value with a new identity.  Between two looks a change may
\* as well come right before the second.
WorldChanges ==
    /\ pc \notin {"start", "close", "drain", "streams", "done", "dead"}
    /\ changes < MaxChanges
    /\ changes' = changes + 1
    /\ \E c \in Cells : \E v \in Values(c) :
         world' = [world EXCEPT ![c] = [at |-> changes + 1, val |-> v]]
    /\ UNCHANGED <<pc, todo, readVars, helperVars, sessVars, ctx, result>>

\* 30 s for the volumes, 40 s for everything, and the session's own context.
Expire ==
    /\ pc \notin {"done", "dead"}
    /\ \/ ctx = "active" /\ ctx' \in {"storage", "done"}
       \/ ctx = "storage" /\ ctx' = "done"
    /\ UNCHANGED <<pcVars, pc, todo, readVars, helperVars, sessVars, result>>

-----------------------------------------------------------------------------
(* The helper process: it owes the engine nothing *)

helperUnchanged == <<pcVars, pc, todo, readVars, sessVars, ctx, result>>

Asked == helper.state = "up" /\ pipes /\ pc \in {"reply", "eof"} /\ frame = "none"

\* It looks at one volume after another, then answers in one line.
HelperReads ==
    /\ Asked
    /\ \E c \in Rows \ DOMAIN heard :
         heard' = [x \in DOMAIN heard \union {c} |-> IF x = c THEN world[c] ELSE heard[x]]
    /\ UNCHANGED <<helperUnchanged, frame, helper>>

HelperAnswers ==
    /\ Asked
    /\ frame' \in {"bad"} \union (IF DOMAIN heard = Rows THEN {"good"} ELSE {})
    /\ UNCHANGED <<helperUnchanged, heard, helper>>

\* It exits, by itself or for want of input, with any code, and may leave
\* children that hold its ends of the pipes.
HelperExits ==
    /\ helper.state = "up"
    /\ helper' \in [state : {"exited"}, code : {0, 1}, kids : BOOLEAN]
    /\ UNCHANGED <<helperUnchanged, heard, frame>>

KidExits ==
    /\ helper.kids
    /\ helper' = [helper EXCEPT !.kids = FALSE]
    /\ UNCHANGED <<helperUnchanged, heard, frame>>

-----------------------------------------------------------------------------
(* close: at most once, whoever comes first *)

Killed(h) == [state |-> IF h.state = "up" THEN "exited" ELSE h.state,
              code  |-> IF h.state = "up" THEN 1 ELSE h.code, kids |-> FALSE]

\* Every failure after the helper was started goes through close(true).
failure(abort) == pc' = "close" /\ closing' = [closing EXCEPT !.abort = abort]

closeUnchanged == <<pcVars, todo, readVars, heard, frame, seq, ctx, result>>

\* The input is closed; the process gets 1 s to leave, and 1 s after the job
\* was terminated.
closeWait ==
    /\ pc = "close"
    /\ pc' = "drain" /\ pipes' = FALSE
    /\ \/ helper.state = "exited" /\ closing' = [closing EXCEPT !.exited = TRUE] /\ UNCHANGED helper
       \/ helper.state = "up" /\ helper' = Killed(helper) /\ closing' = [closing EXCEPT !.exited = TRUE]
       \/ helper.state = "up" /\ UNCHANGED <<helper, closing>>
    /\ UNCHANGED <<closeUnchanged, job>>

\* Nothing of the job may stay: leftovers are terminated after 1 s, and then
\* the cleanup counts as forced.
closeDrain ==
    /\ pc = "drain"
    /\ pc' = "streams"
    /\ \/ /\ helper.state # "up" /\ ~helper.kids
          /\ closing' = [closing EXCEPT !.drained = TRUE] /\ UNCHANGED helper
       \/ /\ helper.state = "up" \/ helper.kids
          /\ \/ helper' = Killed(helper) /\ closing' = [closing EXCEPT !.forced = TRUE, !.drained = TRUE]
             \/ closing' = [closing EXCEPT !.forced = TRUE] /\ UNCHANGED helper
    /\ UNCHANGED <<closeUnchanged, job, pipes>>

\* Exited, drained, nothing forced, and code 0 unless it was aborted.
closeVerdict(c, code) ==
    IF c.exited /\ c.drained /\ ~c.forced /\ (c.abort \/ code = 0) THEN "clean" ELSE "refused"

\* Mutant: the job outlives its handle.
HandleOnly(h) == h

\* Closing the last handle of a kill-on-close job ends whatever is in it.
CloseHandle(h) == Killed(h)

\* The streams are joined or given up, the verdict kept, the handles closed.
closeStreams ==
    /\ pc = "streams"
    /\ \E joined \in IF helper.state = "up" \/ helper.kids THEN BOOLEAN ELSE {TRUE} :
         LET c == [closing EXCEPT !.forced = @ \/ ~joined]
         IN  /\ closing' = [c EXCEPT !.verdict = closeVerdict(c, helper.code)]
             /\ IF c.abort \/ closing'.verdict = "refused" \/ StorageDone
                THEN pc' = "done" /\ UNCHANGED todo
                ELSE pc' = "compare" /\ todo' = {SerialCell(l) : l \in offered}
    /\ helper' = CloseHandle(helper) /\ job' = "closed"
    /\ UNCHANGED <<pcVars, readVars, heard, frame, seq, ctx, result, pipes>>

-----------------------------------------------------------------------------
(* The observing thread *)

engineUnchanged == <<pcVars, ctx, result>>

Note(c) == first' = [x \in DOMAIN first \union {c} |-> IF x = c THEN world[c] ELSE first[x]]

\* Selection and volume set must be what they were when the session started.
validateSelection == ~WholeDone /\ world[SelectionCell] = selected

SelectFirst ==
    /\ pc = "select"
    /\ IF validateSelection THEN pc' = "start" /\ Note(SelectionCell)
                            ELSE pc' = "done" /\ UNCHANGED first
    /\ UNCHANGED <<engineUnchanged, todo, helperVars, sessVars, offered, mid, selected>>

\* Interpreter, assemblies and modules are audited before anything runs.
prepareNativeStorageCommand == ~StorageDone

\* The helper is born inside its job; a start that fails leaves nothing.
startNativeStorageSession ==
    /\ pc = "start"
    /\ \/ /\ prepareNativeStorageCommand
          /\ job' = "open" /\ helper' = [helper EXCEPT !.state = "up"]
          /\ pc' = "ask"
       \/ pc' = "done" /\ UNCHANGED <<job, helper>>
    /\ UNCHANGED <<engineUnchanged, readVars, todo, heard, frame, seq, pipes, closing>>

\* One of at most two questions.
queryAsk ==
    /\ pc = "ask"
    /\ IF StorageDone \/ ~pipes \/ helper.state # "up"
       THEN failure(TRUE) /\ UNCHANGED <<heard, frame, seq>>
       ELSE /\ seq' = seq + 1 /\ heard' = <<>> /\ frame' = "none"
            /\ pc' = "reply" /\ UNCHANGED closing
    /\ UNCHANGED <<engineUnchanged, readVars, todo, helper, job, pipes>>

\* Mutant: the end of the budget does not reach a reader that waits.
CancelNothing == FALSE

\* When the budget ends, the engine's pipe ends are closed under the reader.
cancelPipes == StorageDone /\ pipes

Cancel ==
    /\ job = "open" /\ pc \in {"ask", "reply", "eof", "serial", "roots", "bind", "again"}
    /\ cancelPipes
    /\ pipes' = FALSE
    /\ UNCHANGED <<pcVars, pc, todo, readVars, helperVars, seq, job, closing, ctx, result>>

\* A line of this session and this question, or the end of the pipe.  After
\* the second answer the helper must end without another byte.
queryReply ==
    /\ pc = "reply"
    /\ \/ /\ frame = "good" /\ pipes
          /\ IF seq = 2 THEN pc' = "eof" /\ UNCHANGED <<todo, first, closing>>
             ELSE IF StorageDone THEN failure(TRUE) /\ UNCHANGED <<todo, first>>
             ELSE /\ first' = [c \in DOMAIN first \union Rows |->
                                 IF c \in Rows THEN heard[c] ELSE first[c]]
                  /\ todo' = Rows /\ pc' = "serial" /\ UNCHANGED closing
       \/ /\ frame = "bad" \/ ~pipes \/ (frame = "none" /\ helper.state # "up" /\ ~helper.kids)
          /\ failure(TRUE) /\ UNCHANGED <<todo, first>>
    /\ UNCHANGED <<engineUnchanged, helperVars, offered, mid, selected, seq, job, pipes>>

queryEnd ==
    /\ pc = "eof"
    /\ \/ helper.state # "up" /\ ~helper.kids /\ pipes /\ failure(FALSE)
       \/ ~pipes /\ failure(TRUE)
       \/ helper.state = "up" /\ failure(TRUE)      \* one byte too many
    /\ UNCHANGED <<engineUnchanged, readVars, todo, helperVars, seq, job, pipes>>

\* Never an encrypted volume or one in conversion, never less than 20 GiB.
observeNativeNtfsSerial ==
    /\ pc = "serial" /\ todo # {}
    /\ \E l \in {x \in Letters : RowCell(x) \in todo} :
         /\ todo' = todo \ {RowCell(l)}
         /\ IF StorageDone THEN failure(TRUE) /\ UNCHANGED <<first, offered>>
            ELSE IF first[RowCell(l)].val # "plain"
            THEN UNCHANGED <<pc, closing, first, offered>>
            ELSE \/ /\ Note(SerialCell(l)) /\ offered' = offered \union {l}
                    /\ UNCHANGED <<pc, closing>>
                 \/ UNCHANGED <<pc, closing, first, offered>>      \* too small
                 \/ failure(TRUE) /\ UNCHANGED <<first, offered>>  \* unreadable
    /\ UNCHANGED <<engineUnchanged, helperVars, mid, selected, seq, job, pipes>>

VolumesRead ==
    /\ pc = "serial" /\ todo = {}
    /\ pc' = "roots" /\ todo' = RootSet
    /\ UNCHANGED <<engineUnchanged, readVars, helperVars, sessVars>>

\* A root's tree is audited entry by entry, within a bound.
auditNativeStatusTree == ~WholeDone

\* First pass: the directory is pinned, audited, and its four files are read.
captureNativeConfigurationRoot ==
    /\ pc = "roots" /\ todo # {}
    /\ \E c \in todo :
         /\ todo' = todo \ {c}
         /\ \/ auditNativeStatusTree /\ Note(c) /\ UNCHANGED <<pc, closing>>
            \/ failure(TRUE) /\ UNCHANGED first
    /\ UNCHANGED <<engineUnchanged, helperVars, offered, mid, selected, seq, job, pipes>>

Holds(c) == first[c].val \notin {"absent", "empty"}

\* The installation's own root, or the only one that holds files.
boundRoot ==
    IF selected.val # "none"
    THEN {c \in RootSet : c[2] = selected.val /\ first[c].val # "absent"}
    ELSE {c \in RootSet : Holds(c)}

\* No choice between two roots, and what the bound one says must be usable.
readNativeConfiguration ==
    /\ pc = "bind" /\ mid' = world
    /\ IF /\ Cardinality(boundRoot) <= 1
          /\ selected.val # "none" => boundRoot # {}
          /\ \A c \in boundRoot : Holds(c) => configurationAccepted(Contents[first[c].val], Embedded)
       THEN pc' = "again" /\ todo' = RootSet /\ UNCHANGED closing
       ELSE failure(TRUE) /\ UNCHANGED todo
    /\ UNCHANGED <<engineUnchanged, first, offered, selected, helperVars, seq, job, pipes>>

RootsRead ==
    /\ pc = "roots" /\ todo = {} /\ pc' = "bind"
    /\ UNCHANGED <<engineUnchanged, todo, readVars, helperVars, sessVars>>

\* Mutant: presence and contents are compared, the directory is not.
SameContents(c) == world[c].val = first[c].val

\* Presence, bytes and the directory itself are what they were.
matches(c) == world[c] = first[c]

\* Second pass over every root.
revalidateRoot ==
    /\ pc = "again" /\ todo # {}
    /\ \E c \in todo :
         /\ todo' = todo \ {c}
         /\ IF auditNativeStatusTree /\ matches(c) THEN UNCHANGED <<pc, closing>> ELSE failure(TRUE)
    /\ UNCHANGED <<engineUnchanged, readVars, helperVars, seq, job, pipes>>

AskAgain ==
    /\ pc = "again" /\ todo = {} /\ pc' = "ask"
    /\ UNCHANGED <<engineUnchanged, todo, readVars, helperVars, sessVars>>

\* The second answer is the first one, and each offered serial too.
observeNativeStorage ==
    /\ pc = "compare"
    /\ IF \E c \in Rows : heard[c] # first[c]
       THEN pc' = "done" /\ UNCHANGED todo
       ELSE \/ \E c \in todo :
                 /\ todo' = todo \ {c}
                 /\ pc' = IF world[c] = first[c] THEN "compare" ELSE "done"
            \/ todo = {} /\ pc' = "final" /\ UNCHANGED todo
    /\ UNCHANGED <<engineUnchanged, readVars, helperVars, sessVars>>

\* The selection once more; then the snapshot is complete.
SelectLast ==
    /\ pc = "final" /\ pc' = "done"
    /\ result' = IF validateSelection
                 THEN [c \in (Cells \ Promise!Serials) \union {SerialCell(l) : l \in offered} |-> first[c]]
                 ELSE <<>>
    /\ UNCHANGED <<pcVars, ctx, todo, readVars, helperVars, sessVars>>

\* The engine process ends: the kernel closes its handles, the job's among them.
EngineDies ==
    /\ pc \notin {"done", "dead"}
    /\ pc' = "dead" /\ result' = <<>>
    /\ IF job = "open" THEN job' = "closed" /\ helper' = CloseHandle(helper)
                       ELSE UNCHANGED <<job, helper>>
    /\ UNCHANGED <<pcVars, todo, readVars, heard, frame, seq, pipes, ctx, closing>>

Engine ==
    \/ SelectFirst \/ startNativeStorageSession \/ queryAsk \/ queryReply \/ queryEnd
    \/ observeNativeNtfsSerial \/ VolumesRead \/ captureNativeConfigurationRoot \/ RootsRead
    \/ readNativeConfiguration \/ revalidateRoot \/ AskAgain \/ observeNativeStorage \/ SelectLast
    \/ closeWait \/ closeDrain \/ closeStreams

Helper == HelperReads \/ HelperAnswers \/ HelperExits \/ KidExits

Next == Engine \/ Cancel \/ Helper \/ Expire \/ WorldChanges \/ EngineDies

Spec == Init /\ [][Next]_vars

\* The thread, the goroutine that closes the pipes and the timers run; the
\* helper, Windows and everybody else owe nothing.
Fairness == WF_vars(Engine) /\ WF_vars(Cancel) /\ WF_vars(Expire)
FairSpec == Spec /\ Fairness

-----------------------------------------------------------------------------
(* Properties *)

\* Types; the helper's job is open only between its start and its close
\* (startNativeStorageSession, also on its error paths).
TypeOK ==
    /\ \A c \in Cells : world[c].val \in Values(c) /\ world[c].at \in 0 .. changes
    /\ changes \in 0 .. MaxChanges
    /\ pc \in {"select", "start", "ask", "reply", "eof", "serial", "roots", "bind", "again",
               "compare", "final", "close", "drain", "streams", "done", "dead"}
    /\ todo \subseteq Cells /\ offered \subseteq Letters
    /\ DOMAIN first \subseteq Cells
    /\ seq \in 0 .. 2 /\ frame \in {"none", "good", "bad"}
    /\ helper.state \in {"none", "up", "exited"} /\ helper.kids \in BOOLEAN
    /\ job \in {"none", "open", "closed"} /\ pipes \in BOOLEAN
    /\ job = "open" => pc \notin {"select", "start", "compare", "final", "done", "dead"}
    /\ ctx \in {"active", "storage", "done"}

\* The answer is what the PC was at one instant of the call, although it was
\* read in some twenty steps with the PC changing: two equal looks at every
\* cell, all first ones before all second ones.
OneInstant == Promise!Spec

\* "No helper process survives a failed or canceled read", nor a successful
\* one, nor the death of the engine (nativeStorageSession).
NoHelperSurvives ==
    pc \in {"done", "dead"} => helper.state # "up" /\ ~helper.kids

\* Every observation ends, whatever the helper does: hang, babble or fork.
ObservationEnds == <>(pc \in {"done", "dead"})
=============================================================================
