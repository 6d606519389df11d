----------------------------- MODULE VmControl ------------------------------
(***************************************************************************)
(* Control of a running VM: the QMP client over QEMU's inherited pipes      *)
(* (vm_qmp.go), and the calls that share it through the session's operation *)
(* gate: stop, force and wait (vm_process.go) and the display observations  *)
(* with their captures (vm_display.go).                                     *)
(*                                                                          *)
(* A request is registered, written, and waits for the reader to hand it    *)
(* its reply; its context can end at each of these points.  The gate is a   *)
(* channel of capacity one, whose senders Go serves in order.  QEMU answers *)
(* in order, late, wrongly or never; it hangs, and it ends in any way.      *)
(* What the session records, and who may start the next, is VmLifecycle's.  *)
(***************************************************************************)
EXTENDS Integers, Sequences, FiniteSetsExt

CONSTANTS
    CallOrder,    \* calls of StopVM, ForceStopVM and observeVMDisplay, as they are made
    Requests,     \* what a display call asks: [action, directive, keys]
    KeyCodes,     \* the keys displayKeyEvents knows
    Inventories,  \* the lists of mice QEMU may answer with, by name
    Frames,       \* the size of a screendump
    Old,          \* captures of earlier sessions, of size 1 each
    CountLimit, BytesLimit, \* vmCaptureCountLimit, vmCaptureBytesLimit
    DirectiveLimit,
    MaxSessions, MaxJunk

Displays == {"status", "mice", "keys", "capture"}

Calls   == {CallOrder[i] : i \in DOMAIN CallOrder}
Launch  == "launch"  \* the goroutine in startManagedVM
Threads == Calls \union {Launch}

ASSUME ControlAssumption ==
    /\ {CountLimit, BytesLimit, DirectiveLimit, MaxSessions, MaxJunk} \subseteq Nat
    /\ Cardinality(Old) <= CountLimit /\ Cardinality(Old) <= BytesLimit
    /\ Launch \notin Calls /\ Calls \cap Old = {}
    /\ IsFiniteSet(Old) /\ Frames \subseteq Nat

VARIABLES
    sess,     \* vmSession: [n, phase, done, forced, unrecorded]
    gate,     \* operationGate: its holder, then who waits for it
    call,     \* each thread, see Idle
    qmp,      \* qmpClient: [state of the reader, clean, next, pending]
    input,    \* QEMU's stdin: "open", "closing" (a close is on its way) or "closed"
    wire,     \* the commands QEMU has not read
    lines,    \* the lines the reader has not read
    qemu,     \* [alive, exit, guest]
    captures, \* the capture directories: the size of each frame.ppm
    used,     \* displayDirectives
    typed,    \* history: the key batches the guest of this session received
    kept,     \* history: the captures that passed every check
    spoiled,  \* history: QEMU broke the protocol, or a request of this session timed out
    junk

qmpVars == <<qmp, input, wire, lines>>
envVars == <<qemu, typed, junk>>
fsVars  == <<captures, kept, used>>
vars    == <<sess, gate, call, qmpVars, envVars, fsVars, spoiled>>

NoReply == [of |-> "none", id |-> 0, value |-> "none"]
Broken  == [of |-> "none", id |-> 0, value |-> "lost"]

Plain(action) == [action |-> action, directive |-> "none", keys |-> <<>>]
NoRequest == Plain("none")

Idle == [pc |-> "new", on |-> 0, id |-> 0, box |-> NoReply,
         req |-> NoRequest, names |-> 0, act |-> FALSE, room |-> 0]

NoQemu == [alive |-> FALSE, exit |-> "none", guest |-> "up"]

Init ==
    /\ sess = [n |-> 0, phase |-> "stopped", done |-> TRUE, forced |-> FALSE, unrecorded |-> FALSE]
    /\ gate = <<>>
    /\ call = [c \in Threads |-> Idle]
    /\ qmp = [state |-> "eof", clean |-> FALSE, next |-> 0, pending |-> {}]
    /\ input = "closed" /\ wire = <<>> /\ lines = <<>>
    /\ qemu = NoQemu
    /\ captures = [d \in Old |-> 1] /\ kept = Old /\ used = {}
    /\ typed = <<>> /\ spoiled = FALSE /\ junk = 0

-----------------------------------------------------------------------------
(* The operation gate and the ends of a call *)

Holds(c) == gate # <<>> /\ Head(gate) = c

acquireOperation(c) == gate' = Append(gate, c)
releaseOperation(c) == gate' = SelectSeq(gate, LAMBDA d : d # c)

\* The session a call runs on is still the engine's.
Here(c) == call[c].on = sess.n

Put(c, r) == call' = [call EXCEPT ![c] = r]
Goto(c, pc) == call' = [call EXCEPT ![c].pc = pc]
Ended(c) == Put(c, [Idle EXCEPT !.pc = "end"])

\* A frame that is not kept goes with its directory, unless Windows refuses.
Discarded(c) ==
    IF c \in DOMAIN captures \ kept
    THEN captures' \in {captures, [d \in DOMAIN captures \ {c} |-> captures[d]]}
    ELSE UNCHANGED captures

\* The deferred calls of a failed operation: its waiter, its capture, its gate.
Fails(c) ==
    /\ Ended(c) /\ releaseOperation(c) /\ Discarded(c)
    /\ qmp' = [qmp EXCEPT !.pending = @ \ {call[c].id}]
    /\ UNCHANGED kept

-----------------------------------------------------------------------------
(* qmpClient.request.  The ten seconds it has, and the time its call has, may be   *)
(* over in each of its waits.  Only one request is ever in the write: the launch   *)
(* comes first, and every other holds the operation gate.                          *)

\* The identifiers a command gets are never used again in this session.
register(c, r) ==
    /\ qmp.state = "reading"
    /\ qmp' = [qmp EXCEPT !.next = @ + 1, !.pending = @ \union {qmp.next + 1}]
    /\ Put(c, [r EXCEPT !.pc = "writing", !.id = qmp.next + 1, !.box = NoReply])

\* The context is over before the command is registered, or the reader is.
request(c, r) ==
    \/ register(c, r) /\ UNCHANGED <<gate, captures, kept>>
    \/ Fails(c)

\* A request that ends before its reply leaves one that nobody waits for.
Abandons(c) ==
    /\ Fails(c)
    /\ spoiled' = (spoiled \/ call[c].box = NoReply)
    /\ UNCHANGED <<sess, envVars, used>>

\* Mutant: a write that blocks is left to itself.
NoAfterFunc(c) == FALSE /\ UNCHANGED vars

\* A context that ends during the write closes QEMU's input.
AfterFunc(c) ==
    /\ call[c].pc = "writing" /\ Here(c) /\ input # "closed"
    /\ input' = "closed"
    /\ UNCHANGED <<sess, gate, call, qmp, wire, lines, envVars, fsVars, spoiled>>

Verb == [mice |-> "query-mice", keys |-> "input-send-event", capture |-> "screendump"]

Command(c) ==
    [id |-> call[c].id, from |-> c, req |-> call[c].req, names |-> call[c].names,
     kind |-> CASE c = Launch -> "qmp_capabilities"
                [] call[c].req.action = "stop" -> "system_powerdown"
                [] call[c].req.action \in Displays /\ ~call[c].act -> "query-status"
                [] call[c].req.action \in Displays /\ call[c].act -> Verb[call[c].req.action]]

\* The pipe takes the command, now or, when QEMU does not read, never.  If the context
\* ends with the write, stopCancel is too late, and the input is closed after all.
written(c) ==
    /\ call[c].pc = "writing" /\ Here(c) /\ input # "closed" /\ qemu.alive
    /\ wire' = Append(wire, Command(c))
    /\ \/ /\ Goto(c, "wait")
          /\ UNCHANGED <<sess, gate, qmp, input, envVars, fsVars, spoiled>>
       \/ c # Launch /\ Abandons(c) /\ input' = "closing"
    /\ UNCHANGED lines

\* The write was cut short, or its last byte went out before the close.
writeFails(c) ==
    /\ call[c].pc = "writing" /\ Here(c)
    /\ input = "closed" \/ ~qemu.alive
    /\ wire' \in {wire} \union (IF qemu.alive THEN {Append(wire, Command(c))} ELSE {})
    /\ Abandons(c)
    /\ UNCHANGED <<input, lines>>

closeInput ==
    /\ input = "closing" /\ input' = "closed"
    /\ UNCHANGED <<sess, gate, call, qmp, wire, lines, envVars, fsVars, spoiled>>

\* A reply that comes with the end of the context is not used.
Answered(c) ==
    call[c].pc = "wait" /\ Here(c) /\ call[c].box.value \notin {"none", "error", "lost"}

\* The context is over, or the answer is an error.
replyFails(c) ==
    /\ call[c].pc = "wait" /\ Here(c)
    /\ Abandons(c)
    /\ UNCHANGED <<input, wire, lines>>

-----------------------------------------------------------------------------
(* The reader *)

\* Mutant: a reply belongs to whoever waits.
AnyWaiter(id) == {c \in Threads : Here(c) /\ call[c].id \in qmp.pending}

waiterOf(id) == {c \in Threads : Here(c) /\ call[c].id = id /\ id \in qmp.pending}

\* Every line is one object with no field twice, see qmpJSONValue.
decodeQMPObject(line) == line.kind # "junk"

\* The reader ends: everyone who waits is told, nobody is registered any more, and
\* what is in the pipe stays there.
ReaderEnds(state) ==
    /\ qmp' = [qmp EXCEPT !.state = state, !.pending = {}]
    /\ lines' = <<>>
    /\ call' = [c \in Threads |-> IF Here(c) /\ call[c].id \in qmp.pending
                                  THEN [call[c] EXCEPT !.box = Broken] ELSE call[c]]

read ==
    /\ qmp.state \in {"greeting", "reading"} /\ lines # <<>>
    /\ LET line == Head(lines)
       IN  \/ /\ \/ ~decodeQMPObject(line)
                 \/ (qmp.state = "greeting") # (line.kind = "greeting")
                 \/ line.kind = "return" /\ waiterOf(line.id) = {}
              /\ ReaderEnds("broken")
           \/ /\ qmp.state = "greeting" /\ line.kind = "greeting"
              /\ lines' = Tail(lines)
              /\ qmp' = [qmp EXCEPT !.state = "reading"] /\ UNCHANGED call
           \/ /\ qmp.state = "reading" /\ line.kind = "SHUTDOWN"
              /\ lines' = Tail(lines)
              /\ qmp' = [qmp EXCEPT !.clean = @ \/ line.value = "guest-shutdown"]
              /\ UNCHANGED call
           \/ /\ qmp.state = "reading" /\ line.kind = "return"
              /\ lines' = Tail(lines)
              /\ \E c \in waiterOf(line.id) :
                   /\ call' = [call EXCEPT ![c].box =
                                 [of |-> line.of, id |-> line.id, value |-> line.value]]
                   /\ qmp' = [qmp EXCEPT !.pending = @ \ {call[c].id}]
    /\ UNCHANGED <<sess, gate, input, wire, envVars, fsVars, spoiled>>

\* Every handle on QEMU's stdout is closed.
readEOF ==
    /\ qmp.state \in {"greeting", "reading"} /\ lines = <<>> /\ ~qemu.alive
    /\ ReaderEnds("eof")
    /\ UNCHANGED <<sess, gate, input, wire, envVars, fsVars, spoiled>>

-----------------------------------------------------------------------------
(* startManagedVM: the process, the greeting and the capabilities *)

\* VmLifecycle says when: here, the last session stopped cleanly.
startManagedVM ==
    /\ sess.phase = "stopped" /\ sess.done /\ sess.n < MaxSessions
    /\ sess' = [n |-> sess.n + 1, phase |-> "starting", done |-> FALSE, forced |-> FALSE,
                unrecorded |-> FALSE]
    /\ gate' = <<>> /\ used' = {} /\ spoiled' = FALSE
    /\ qmp' = [state |-> "greeting", clean |-> FALSE, next |-> 0, pending |-> {}]
    /\ input' = "open" /\ wire' = <<>> /\ lines' = <<>>
    /\ qemu' = [NoQemu EXCEPT !.alive = TRUE]
    /\ Put(Launch, [Idle EXCEPT !.pc = "greeting", !.on = sess.n + 1])
    /\ typed' = <<>>
    /\ UNCHANGED <<junk, captures, kept>>

\* The greeting, the capabilities, and the record that the VM runs.
connectQMP ==
    /\ \/ /\ call[Launch].pc = "greeting" /\ register(Launch, call[Launch])
          /\ UNCHANGED sess
       \/ /\ Answered(Launch) /\ Ended(Launch)
          /\ sess' = [sess EXCEPT !.phase = "running"] /\ UNCHANGED qmp
    /\ UNCHANGED <<gate, input, wire, lines, envVars, fsVars, spoiled>>

\* In ten seconds, no greeting or no answer, another line than these, or no record: the
\* process is killed, and the disk needs recovery.
connectFails ==
    /\ call[Launch].pc \in {"greeting", "writing", "wait"}
    /\ Put(Launch, [Idle EXCEPT !.pc = "failed"])
    /\ sess' = [sess EXCEPT !.phase = "needs_recovery", !.done = TRUE]
    /\ qmp' = [qmp EXCEPT !.state = "broken", !.pending = {}]
    /\ input' = "closed" /\ wire' = <<>> /\ lines' = <<>>
    /\ qemu' = [qemu EXCEPT !.alive = FALSE, !.exit = "bad"]
    /\ UNCHANGED <<gate, typed, junk, fsVars, spoiled>>

-----------------------------------------------------------------------------
(* vmSession: stop, force and wait *)

Published == sess.n > 0 /\ call[Launch].pc = "end"

Enter(c, req, names) ==
    /\ call[c].pc = "new" /\ Published
    /\ Put(c, [Idle EXCEPT !.pc = "gate", !.on = sess.n, !.req = req, !.names = names])
    /\ acquireOperation(c)
    /\ UNCHANGED <<sess, qmpVars, envVars, fsVars, spoiled>>

\* The context ends before the gate is free: the call leaves the line.
GateTimeout(c) ==
    /\ call[c].pc = "gate" /\ Here(c)
    /\ Ended(c) /\ releaseOperation(c)
    /\ UNCHANGED <<sess, qmpVars, envVars, fsVars, spoiled>>

stop(c) ==
    /\ call[c].req.action = "stop" /\ call[c].pc = "gate" /\ Here(c) /\ Holds(c)
    /\ \/ /\ sess.done \/ sess.phase \in {"stopped", "needs_recovery"}
          /\ Fails(c) /\ UNCHANGED sess
       \/ /\ ~sess.done /\ sess.phase \notin {"stopped", "needs_recovery"}
          /\ sess' = [sess EXCEPT !.phase = "stopping"] \* also when it cannot be recorded
          /\ request(c, call[c])
    /\ UNCHANGED <<input, wire, lines, envVars, used, spoiled>>

\* The guest was asked; a force stop must remain possible from here on.
stopAsked(c) ==
    /\ call[c].req.action = "stop" /\ Answered(c)
    /\ Goto(c, "shut") /\ releaseOperation(c)
    /\ UNCHANGED <<sess, qmpVars, envVars, fsVars, spoiled>>

\* The session is done, or ninety seconds are over; then the disk remains locked.
stopReturns(c) ==
    /\ call[c].pc = "shut" /\ Here(c)
    /\ Ended(c)
    /\ UNCHANGED <<sess, gate, qmpVars, envVars, fsVars, spoiled>>

\* Mark, kill, and wait for the end of the session with the gate held.
force(c) ==
    /\ call[c].req.action = "force" /\ call[c].pc = "gate" /\ Here(c) /\ Holds(c)
    /\ IF sess.done
       THEN Ended(c) /\ releaseOperation(c) /\ UNCHANGED <<sess, qemu, wire>>
       ELSE /\ sess' = [sess EXCEPT !.forced = TRUE]
            /\ qemu' = IF qemu.alive THEN [qemu EXCEPT !.alive = FALSE, !.exit = "bad"] ELSE qemu
            /\ Goto(c, "dead") /\ wire' = <<>> /\ UNCHANGED gate
    /\ UNCHANGED <<qmp, input, lines, typed, junk, fsVars, spoiled>>

forceReturns(c) ==
    /\ call[c].req.action = "force" /\ call[c].pc = "dead" /\ Here(c) /\ sess.done
    /\ Ended(c) /\ releaseOperation(c)
    /\ UNCHANGED <<sess, qmpVars, envVars, fsVars, spoiled>>

\* Mutant: the exit of the process is enough to decide.
Undrained == ~qemu.alive

\* The reader saw the end of the stream, or ended before it.
Drained == ~qemu.alive /\ qmp.state \in {"eof", "broken"}

\* The end of the process: its output is drained before the verdict, and a
\* verdict that cannot be recorded is none.
wait ==
    /\ Drained /\ ~sess.done /\ sess.phase \in {"running", "stopping"} /\ Published
    /\ \E recorded \in BOOLEAN :
         sess' = [sess EXCEPT
           !.unrecorded = ~recorded,
           !.phase = IF recorded /\ qemu.exit = "zero" /\ qmp.clean /\ ~sess.forced
                     THEN "stopped" ELSE "needs_recovery"]
    /\ input' = "closed"
    /\ UNCHANGED <<gate, call, qmp, wire, lines, envVars, fsVars, spoiled>>

\* release, then done: from here on the image can be opened again.
waitReturns ==
    /\ ~sess.done /\ sess.phase \in {"stopped", "needs_recovery"}
    /\ sess' = [sess EXCEPT !.done = TRUE]
    /\ UNCHANGED <<gate, call, qmpVars, envVars, fsVars, spoiled>>

-----------------------------------------------------------------------------
(* Display observations *)

\* Balanced: a key goes down only if it is up, and is up again at the end.
Down(keys, code, i) ==
    LET before == {j \in 1 .. i - 1 : keys[j].code = code}
    IN  before # {} /\ keys[Max(before)].down
displayKeyEvents(keys) ==
    /\ Len(keys) \in 1 .. 64
    /\ \A i \in DOMAIN keys :
         /\ keys[i].code \in KeyCodes
         /\ keys[i].down # Down(keys, keys[i].code, i)
         /\ ~Down(keys, keys[i].code, Len(keys) + 1)

\* Each mouse has an index of its own, and exactly one is current.
displayMice(rows) ==
    /\ Len(rows) \in 1 .. 16
    /\ \A i \in DOMAIN rows : rows[i].index \in 0 .. 32
    /\ \A i, j \in DOMAIN rows : rows[i].index = rows[j].index => i = j
    /\ Cardinality({i \in DOMAIN rows : rows[i].current}) = 1

displayStatus(value) == value = "running"

\* Mutant: the request's own session is not compared.
AnySession(c) == ~sess.done /\ sess.phase = "running"

displayIdentity(c) == ~sess.done /\ sess.phase = "running" /\ call[c].names = sess.n

Retained == MapThenSumSet(LAMBDA d : captures[d], DOMAIN captures)

\* Every retained directory is one whole frame, within both budgets.
captureInventory ==
    /\ Cardinality(DOMAIN captures) <= CountLimit
    /\ \A d \in DOMAIN captures : captures[d] \in 1 .. BytesLimit
    /\ Retained <= BytesLimit

captureBudget ==
    captureInventory /\ Cardinality(DOMAIN captures) < CountLimit /\ Retained < BytesLimit

\* Mutant: the directive is spent only by a capture.
SpendCaptures(c) == IF call[c].req.action = "capture" THEN {call[c].req.directive} ELSE {}

\* A directive is spent by the attempt, whatever becomes of it.
Spent(c) == {call[c].req.directive}

\* Identity, budget and directive, then the first request.
observeDisplay(c) ==
    /\ call[c].req.action \in Displays /\ call[c].pc = "gate" /\ Here(c) /\ Holds(c)
    /\ IF /\ displayIdentity(c)
          /\ call[c].req.action = "capture" => captureBudget
          /\ call[c].req.directive \notin used
          /\ Cardinality(used) < DirectiveLimit
       THEN used' = used \union Spent(c) /\ request(c, call[c])
       ELSE Fails(c) /\ UNCHANGED used
    /\ UNCHANGED <<sess, input, wire, lines, envVars, spoiled>>

\* The VM must be seen running before anything else is asked of it.
displayed(c) ==
    /\ call[c].req.action \in Displays /\ Answered(c) /\ ~call[c].act
    /\ \/ /\ displayStatus(call[c].box.value) /\ call[c].req.action = "status"
          /\ Goto(c, "final") /\ UNCHANGED <<gate, qmp, captures, kept>>
       \/ /\ displayStatus(call[c].box.value) /\ call[c].req.action \in {"mice", "keys"}
          /\ request(c, [call[c] EXCEPT !.act = TRUE])
       \/ /\ \/ ~displayStatus(call[c].box.value)
             \/ call[c].req.action = "capture" /\ ~captureBudget
          /\ Fails(c)
       \/ /\ displayStatus(call[c].box.value) /\ call[c].req.action = "capture" /\ captureBudget
          /\ captures' = [d \in DOMAIN captures \union {c} |-> IF d = c THEN 0 ELSE captures[d]]
          /\ register(c, [call[c] EXCEPT !.act = TRUE, !.room = BytesLimit - Retained])
          /\ UNCHANGED <<gate, kept>>
    /\ UNCHANGED <<sess, input, wire, lines, envVars, used, spoiled>>

\* The directory was made, but not the request.
captureAbandoned(c) ==
    /\ call[c].req.action = "capture" /\ Answered(c) /\ ~call[c].act /\ captureBudget
    /\ captures' \in {captures, [d \in DOMAIN captures \union {c} |-> IF d = c THEN 0 ELSE captures[d]]}
    /\ Ended(c) /\ releaseOperation(c)
    /\ UNCHANGED <<sess, qmpVars, envVars, kept, used, spoiled>>

\* Mutant: the frame is held against the whole budget.
FitsAlone(c) == captures[c] \in 1 .. BytesLimit

\* The frame, whose header and pixels were read through, against what was retained.
captureFits(c) == captures[c] \in 1 .. call[c].room

\* A frame that is no frame, or of which one part cannot be read, is discarded too.
captureDisplay(c) ==
    /\ call[c].req.action = "capture" /\ Answered(c) /\ call[c].act
    /\ \/ c \in DOMAIN captures /\ captureFits(c)
          /\ kept' = kept \union {c} /\ Goto(c, "final")
          /\ UNCHANGED <<gate, qmp, captures>>
       \/ Fails(c)
    /\ UNCHANGED <<sess, input, wire, lines, envVars, used, spoiled>>

acted(c) ==
    /\ call[c].req.action \in {"mice", "keys"} /\ Answered(c) /\ call[c].act
    /\ IF call[c].req.action = "mice" => displayMice(Inventories[call[c].box.value])
       THEN Goto(c, "final") /\ UNCHANGED <<gate, qmp, captures, kept>>
       ELSE Fails(c)
    /\ UNCHANGED <<sess, input, wire, lines, envVars, used, spoiled>>

\* The context and the identity once more; what differs is the answer.
observed(c) ==
    /\ call[c].pc = "final" /\ Here(c)
    /\ Ended(c) /\ releaseOperation(c)
    /\ UNCHANGED <<sess, qmpVars, envVars, fsVars, spoiled>>

\* The engine has another session: this one ended cleanly, and so does the call.
\* Nothing observed is an answer any more, though a whole frame stays.
outlived(c) ==
    /\ c \in Calls /\ call[c].pc \notin {"new", "end"} /\ ~Here(c)
    /\ Ended(c)
    /\ \/ Discarded(c) /\ UNCHANGED kept
       \/ /\ call[c].act /\ call[c].req.action = "capture" /\ call[c].pc = "wait"
          /\ c \in DOMAIN captures /\ captureFits(c)
          /\ kept' = kept \union {c} /\ UNCHANGED captures
    /\ UNCHANGED <<sess, gate, qmpVars, envVars, used, spoiled>>

-----------------------------------------------------------------------------
(* QEMU and its guest *)

qemuRest == <<sess, gate, call, qmp, input, kept, used, spoiled>>

Say(line) == lines' = IF qmp.state \in {"greeting", "reading"} THEN Append(lines, line) ELSE lines
Line(kind, id, of, value) == [kind |-> kind, id |-> id, of |-> of, value |-> value]

Greet ==
    /\ qemu.alive /\ lines = <<>>
    /\ qmp.state = "greeting" /\ call[Launch].pc = "greeting"
    /\ Say(Line("greeting", 0, "none", "none"))
    /\ UNCHANGED <<qemuRest, wire, envVars, captures>>

\* What a command may be answered.
Answers(kind) ==
    {"error"} \union (IF kind = "query-status" THEN {"running", "paused"}
                      ELSE IF kind = "query-mice" THEN DOMAIN Inventories ELSE {"ok"})

\* Commands are answered in order; a frame needs the directory it is written to.
Serve ==
    /\ qemu.alive /\ wire # <<>>
    /\ LET cmd == Head(wire)
           lost == cmd.kind = "screendump" /\ cmd.from \notin DOMAIN captures
       IN  \E value \in IF lost THEN {"error"} ELSE Answers(cmd.kind) :
             /\ Say(Line("return", cmd.id, cmd.from, value))
             /\ typed' = IF cmd.kind = "input-send-event" /\ value = "ok"
                         THEN Append(typed, [names |-> cmd.names, directive |-> cmd.req.directive])
                         ELSE typed
             /\ IF cmd.kind = "screendump" /\ value = "ok"
                THEN \E size \in Frames : captures' = [captures EXCEPT ![cmd.from] = size]
                ELSE UNCHANGED captures
    /\ wire' = Tail(wire)
    /\ UNCHANGED <<qemuRest, qemu, junk>>

\* The guest powers off by itself or because it was asked: the event, then the exit.
GuestPowersOff ==
    /\ qemu.alive /\ qemu.guest = "up" /\ Published
    /\ qemu' = [qemu EXCEPT !.guest = "down"]
    /\ Say(Line("SHUTDOWN", 0, "none", "guest-shutdown"))
    /\ UNCHANGED <<qemuRest, wire, captures, typed, junk>>

\* The exit: after a shutdown of the guest, by the window's close button (an event
\* that names the host, exit 0), or in any other way.
QemuExits ==
    /\ qemu.alive /\ wire' = <<>>
    /\ \/ qemu.guest = "down"
          /\ qemu' = [qemu EXCEPT !.alive = FALSE, !.exit = "zero"] /\ UNCHANGED lines
       \/ qemu.guest = "up" /\ Published
          /\ qemu' = [qemu EXCEPT !.alive = FALSE, !.exit = "zero"]
          /\ Say(Line("SHUTDOWN", 0, "none", "host-ui"))
       \/ qemu' = [qemu EXCEPT !.alive = FALSE, !.exit = "bad"] /\ UNCHANGED lines
    /\ UNCHANGED <<qemuRest, captures, typed, junk>>

\* A line that is no object, or the answer to nothing that was asked.
Misspeak ==
    /\ qemu.alive /\ wire # <<>> /\ junk < MaxJunk /\ junk' = junk + 1
    /\ Say(Line("junk", 0, "none", "none")) /\ wire' = Tail(wire)
    /\ spoiled' = TRUE
    /\ UNCHANGED <<sess, gate, call, qmp, input, qemu, typed, fsVars>>

-----------------------------------------------------------------------------

Request(c) == AfterFunc(c) \/ writeFails(c) \/ replyFails(c)

Step(c) ==
    \/ Request(c)
    \/ GateTimeout(c) \/ outlived(c)
    \/ stop(c) \/ stopAsked(c) \/ stopReturns(c)
    \/ force(c) \/ forceReturns(c)
    \/ observeDisplay(c) \/ displayed(c) \/ captureDisplay(c) \/ captureAbandoned(c)
    \/ acted(c) \/ observed(c)

Reader == read \/ readEOF
Waiter == wait \/ waitReturns
Starter == connectQMP \/ connectFails
Calling ==
    \E i \in DOMAIN CallOrder :
      /\ \A j \in 1 .. i - 1 : call[CallOrder[j]].pc # "new"
      /\ \/ \E action \in {"stop", "force"} : Enter(CallOrder[i], Plain(action), 0)
         \/ \E r \in Requests, n \in 1 .. sess.n :
              (r.action = "keys" => displayKeyEvents(r.keys)) /\ Enter(CallOrder[i], r, n)

Next ==
    \/ \E c \in Calls : Step(c)
    \/ \E c \in Threads : written(c)
    \/ Reader \/ Waiter \/ Starter \/ closeInput
    \/ Calling \/ startManagedVM
    \/ Greet \/ Serve \/ GuestPowersOff \/ QemuExits \/ Misspeak

Spec == Init /\ [][Next]_vars

\* Go runs every goroutine that can run, every context ends, and what is in the pipe of
\* a dead process can be read.  Nothing is promised of QEMU and its guest, not even that
\* it reads its input.
Fairness ==
    /\ \A c \in Calls : WF_vars(Step(c))
    /\ WF_vars(Reader) /\ WF_vars(Waiter)
FairSpec == Spec /\ Fairness

-----------------------------------------------------------------------------
(* Properties *)

Pcs == {"new", "gate", "greeting", "writing", "wait", "shut", "dead", "final", "end", "failed"}

\* The gate lists each call at most once, and exactly the calls of this session that
\* wait for it or work under it; one request at most is registered.
TypeOK ==
    /\ sess.n \in 0 .. MaxSessions
    /\ sess.phase \in {"starting", "running", "stopping", "stopped", "needs_recovery"}
    /\ qmp.state \in {"greeting", "reading", "eof", "broken"}
    /\ qmp.pending \subseteq 1 .. qmp.next /\ Cardinality(qmp.pending) <= 1
    /\ DOMAIN captures \subseteq Calls \union Old /\ kept \subseteq DOMAIN captures
    /\ \A c \in Threads : call[c].pc \in Pcs /\ call[c].on \in 0 .. sess.n
    /\ \A i, j \in DOMAIN gate : gate[i] = gate[j] => i = j
    /\ {gate[i] : i \in DOMAIN gate} =
         {c \in Calls : Here(c) /\ call[c].pc \notin {"new", "shut", "end"}}

\* An answer a call acts on is QEMU's answer to that very request (vm_qmp.go:199-208):
\* not one that a request which timed out before it has left in the pipe.
OwnAnswer ==
    \A c \in Threads : call[c].box.value \notin {"none", "lost"} =>
      call[c].box.of = c /\ (Here(c) => call[c].box.id = call[c].id)

\* The guest receives the keys of a directive at most once, and only in the session the
\* directive named, however often the caller repeats it after a timeout or an error
\* (vm_display.go:205-211), and although a late batch is still delivered.
KeysOnce ==
    /\ \A i, j \in DOMAIN typed :
         typed[i].directive = typed[j].directive => i = j
    /\ \A i \in DOMAIN typed : typed[i].names = sess.n

\* What is retained stays within both budgets (vm_display.go:248 and 278), with failed
\* clean-ups in between and an observation of the last session still at work.
CapturesFit ==
    /\ Cardinality(DOMAIN captures) <= CountLimit
    /\ MapThenSumSet(LAMBDA d : captures[d], kept) <= BytesLimit

\* A guest that shut down is recorded as stopped, whatever the order in which the exit,
\* the event and the end of the stream are noticed (vm_process.go:99-109): only a force
\* stop, a record that cannot be written, or a QMP stream that was spoiled before (by
\* QEMU, or by a request that gave up on its reply) leave the disk in need of recovery.
CleanStopIsSeen ==
    Published /\ sess.done /\ qemu.exit = "zero" /\ qemu.guest = "down" /\ ~sess.forced
      /\ ~sess.unrecorded /\ ~spoiled
    => sess.phase = "stopped"

\* Every call returns, with QEMU hung, its pipe full, or the reader gone
\* (vm_qmp.go:270, vm_display.go:53, vm_process.go:103 and 197).
CallsReturn == \A c \in Calls : call[c].pc = "gate" ~> call[c].pc = "end"
=============================================================================
