--------------------------- MODULE VmControlProofs ---------------------------
(***************************************************************************)
(* The safety properties of the control run for any number of calls,       *)
(* sessions, requests, captures and broken lines.                          *)
(*                                                                         *)
(* A command is followed from the call that registers it over QEMU's input *)
(* and output to the reader.  Its identifier names one call on the way     *)
(* (Ids), it is in one place (Distinct), and as long as the stream is not  *)
(* spoiled somebody waits for it (Awaited), so that the reader stays until *)
(* the end and sees the shutdown (Stream, Verdict).                        *)
(*                                                                         *)
(* The captures have an invariant of their own, CapInv: what is kept or    *)
(* may still be kept fits the budget, but for one frame at most that is    *)
(* not held against its room yet.  It needs what sums over finite sets     *)
(* obey; the induction behind that is over sets, see AllSubsets.           *)
(***************************************************************************)
EXTENDS VmControl, FiniteSetTheorems, TLAPS

Fields == {"pc", "on", "id", "box", "req", "names", "act", "room"}
Kinds  == {"qmp_capabilities", "system_powerdown", "query-status", "query-mice",
           "input-send-event", "screendump"}
Words  == {"none", "error", "running", "paused", "ok", "guest-shutdown", "host-ui"}
            \union DOMAIN Inventories
Asked  == Requests \union {Plain("stop"), Plain("force"), NoRequest}

Commands == [id : Nat, from : Threads, req : Asked, names : Nat, kind : Kinds]
Said     == [kind : {"greeting", "return", "SHUTDOWN", "junk"}, id : Nat,
             of : Threads \union {"none"}, value : Words]
Batches  == [names : Nat, directive : {r.directive : r \in Asked}]

\* What the arguments below need of the types.
Types ==
    /\ DOMAIN sess = {"n", "phase", "done", "forced", "unrecorded"} /\ sess.n \in Nat
    /\ DOMAIN qmp = {"state", "clean", "next", "pending"}
    /\ qmp.state \in {"greeting", "reading", "eof", "broken"} /\ qmp.next \in Nat
    /\ DOMAIN qemu = {"alive", "exit", "guest"}
    /\ wire \in Seq(Commands) /\ lines \in Seq(Said) /\ typed \in Seq(Batches)
    /\ DOMAIN call = Threads
    /\ \A c \in Threads :
         /\ DOMAIN call[c] = Fields
         /\ call[c].on \in 0 .. sess.n /\ call[c].id \in Nat
         /\ call[c].names \in Nat /\ call[c].req \in Asked

\* Whoever has an identifier, or finds it on a command or an answer, is who asked.
Has(c, id) == Here(c) /\ call[c].id = id

Ids ==
    /\ qmp.pending \subseteq 1 .. qmp.next
    /\ \A c \in Threads : Here(c) => call[c].id <= qmp.next
    /\ \A c \in Threads : call[c].pc = "writing" /\ Here(c) => call[c].id # 0
    /\ \A c, d \in Threads : Here(d) /\ call[d].id # 0 /\ Has(c, call[d].id) => c = d
    /\ \A i \in DOMAIN wire :
         /\ wire[i].id \in 1 .. qmp.next
         /\ \A c \in Threads : Has(c, wire[i].id) => c = wire[i].from
    /\ \A i \in DOMAIN lines : lines[i].kind = "return" =>
         /\ lines[i].id \in 1 .. qmp.next
         /\ \A c \in Threads : Has(c, lines[i].id) => c = lines[i].of

\* What a call has depends on where it is.
Form(c) ==
    /\ call[c].pc \in {"new", "gate", "greeting"} =>
         call[c].id = 0 /\ ~call[c].act /\ call[c].box = NoReply
    /\ call[c].pc \in {"writing", "wait"} /\ c # Launch =>
         call[c].req.action \in (IF call[c].act THEN {"mice", "keys", "capture"}
                                 ELSE Displays \union {"stop"})
    /\ c = Launch => call[c].pc \notin {"gate", "shut", "dead", "final"} /\ call[c].req = NoRequest
    /\ c # Launch => call[c].pc \notin {"greeting", "failed"}
Forms == \A c \in Threads : Form(c)

\* The key batches: to come, on the wire, and typed.
Comes(c) ==
    /\ c # Launch /\ Here(c) /\ call[c].req.action = "keys"
    /\ call[c].pc \in (IF call[c].act THEN {"writing"} ELSE {"writing", "wait"})
Batch(i) == wire[i].kind = "input-send-event"

Keys ==
    /\ \A i, j \in DOMAIN wire :
         Batch(i) /\ Batch(j) /\ wire[i].req.directive = wire[j].req.directive => i = j
    /\ \A i \in DOMAIN wire : Batch(i) =>
         /\ wire[i].names = sess.n /\ wire[i].req.directive \in used
         /\ \A j \in DOMAIN typed : typed[j].directive # wire[i].req.directive
    /\ \A j \in DOMAIN typed : typed[j].directive \in used
    /\ \A c \in Threads : Comes(c) =>
         /\ call[c].names = sess.n /\ call[c].req.directive \in used
         /\ \A i \in DOMAIN wire : Batch(i) => wire[i].req.directive # call[c].req.directive
         /\ \A j \in DOMAIN typed : typed[j].directive # call[c].req.directive
         /\ \A d \in Threads : Comes(d) /\ call[d].req.directive = call[c].req.directive => c = d
    /\ KeysOnce

\* No two commands or answers on their way have the same identifier.
Distinct ==
    /\ \A i, j \in DOMAIN wire : wire[i].id = wire[j].id => i = j
    /\ \A i, j \in DOMAIN lines :
         lines[i].kind = "return" /\ lines[j].kind = "return" /\ lines[i].id = lines[j].id => i = j
    /\ \A i \in DOMAIN wire, j \in DOMAIN lines :
         lines[j].kind = "return" => wire[i].id # lines[j].id
    /\ \A c \in Threads : Here(c) /\ call[c].pc = "writing" =>
         /\ \A i \in DOMAIN wire : wire[i].id # call[c].id
         /\ \A j \in DOMAIN lines : lines[j].kind = "return" => lines[j].id # call[c].id

\* Until the stream is spoiled, every command and every answer is waited for.
Waits(c) ==
    /\ Here(c) /\ call[c].pc \in {"writing", "wait"}
    /\ call[c].id \in qmp.pending /\ call[c].box = NoReply
Expected(id) == \E c \in Threads : Waits(c) /\ call[c].id = id

Awaited ==
    /\ \A c \in Threads : Here(c) /\ call[c].pc \in {"writing", "wait"} => qmp.state # "greeting"
    /\ \A c \in Threads : Here(c) /\ call[c].pc = "writing" /\ qmp.state = "reading" => Waits(c)
    /\ ~spoiled =>
         /\ \A i \in DOMAIN wire : Expected(wire[i].id)
         /\ \A i \in DOMAIN lines : /\ lines[i].kind # "junk"
                                    /\ lines[i].kind = "return" => Expected(lines[i].id)

\* The reader, the process, and what is still to be read.
Launches == call[Launch].pc \in {"greeting", "writing", "wait"}

Stream ==
    /\ Launches => sess.phase = "starting" /\ ~sess.done /\ Here(Launch) /\ sess.n > 0
                 /\ qemu.guest = "up"
    /\ \A c \in Calls : call[c].pc \notin {"new", "end"} /\ Here(c) => Published
    /\ ~qemu.alive => wire = <<>>
    /\ qmp.state = "greeting" =>
         /\ wire = <<>> /\ call[Launch].pc = "greeting"
         /\ \A i \in DOMAIN lines : i = 1 /\ lines[i].kind = "greeting"
    /\ qmp.state = "reading" => \A i \in DOMAIN lines : lines[i].kind # "greeting"
    /\ qmp.state \in {"eof", "broken"} => lines = <<>>
    /\ qmp.state = "eof" => ~qemu.alive
    /\ qmp.state = "broken" => spoiled \/ call[Launch].pc = "failed"
    /\ call[Launch].pc = "failed" => ~qemu.alive

\* The shutdown is noticed, and the verdict stands.
Announced == \E i \in DOMAIN lines : lines[i].kind = "SHUTDOWN" /\ lines[i].value = "guest-shutdown"

Verdict ==
    /\ qemu.guest = "down" /\ Published /\ ~spoiled => qmp.clean \/ Announced
    /\ Published /\ sess.done => sess.phase \in {"stopped", "needs_recovery"}
    /\ Published /\ sess.phase \in {"stopped", "needs_recovery"} =>
         /\ ~qemu.alive
         /\ qemu.exit = "zero" /\ qemu.guest = "down" /\ ~sess.forced /\ ~sess.unrecorded
              /\ ~spoiled => sess.phase = "stopped"

IInv == Types /\ Ids /\ Forms /\ Keys /\ Distinct /\ Awaited /\ Stream /\ Verdict /\ OwnAnswer

-----------------------------------------------------------------------------
(* Sequences *)

LEMMA AppendFacts ==
    ASSUME NEW S, NEW s \in Seq(S), NEW x \in S
    PROVE  /\ Append(s, x) \in Seq(S)
           /\ DOMAIN s = 1 .. Len(s) /\ Len(s) \in Nat
           /\ DOMAIN Append(s, x) = 1 .. Len(s) + 1
           /\ Append(s, x)[Len(s) + 1] = x
           /\ \A i \in DOMAIN s : Append(s, x)[i] = s[i]
OBVIOUS

LEMMA TailFacts ==
    ASSUME NEW S, NEW s \in Seq(S), s # <<>>
    PROVE  /\ Tail(s) \in Seq(S) /\ Head(s) \in S
           /\ DOMAIN s = 1 .. Len(s) /\ Len(s) \in Nat \ {0}
           /\ DOMAIN Tail(s) = 1 .. Len(s) - 1
           /\ Head(s) = s[1]
           /\ \A i \in DOMAIN Tail(s) : Tail(s)[i] = s[i + 1]
OBVIOUS

LEMMA EmptyFacts ==
    /\ \A S : <<>> \in Seq(S)
    /\ DOMAIN <<>> = {}
OBVIOUS

LEMMA Different == Launch \notin Calls
BY ControlAssumption

-----------------------------------------------------------------------------
(* What a command is *)

LEMMA CommandFacts ==
    ASSUME Types, Forms, NEW c \in Threads, call[c].pc = "writing"
    PROVE  /\ Command(c) \in Commands
           /\ Command(c).id = call[c].id /\ Command(c).from = c
           /\ Command(c).req = call[c].req /\ Command(c).names = call[c].names
           /\ Command(c).kind = "input-send-event" =>
                c # Launch /\ call[c].req.action = "keys" /\ call[c].act
<1>a. /\ c # Launch => call[c].req.action \in (IF call[c].act THEN {"mice", "keys", "capture"}
                                               ELSE Displays \union {"stop"})
      /\ c = Launch => call[c].req.action = "none"
      /\ call[c].id \in Nat /\ call[c].names \in Nat /\ call[c].req \in Asked
  BY DEF NoRequest, Plain, Types, Forms, Form
<1> DEFINE kind == CASE c = Launch -> "qmp_capabilities"
                [] call[c].req.action = "stop" -> "system_powerdown"
                [] call[c].req.action \in Displays /\ ~call[c].act -> "query-status"
                [] call[c].req.action \in Displays /\ call[c].act -> Verb[call[c].req.action]
<1>1. Command(c) = [id |-> call[c].id, from |-> c, req |-> call[c].req, names |-> call[c].names,
                    kind |-> kind]
  BY DEF Command
<1>2. /\ kind \in Kinds
      /\ kind = "input-send-event" => c # Launch /\ call[c].req.action = "keys" /\ call[c].act
  <2>1. CASE c = Launch
    BY <2>1, <1>a DEF Kinds, Displays
  <2>2. CASE c # Launch /\ call[c].req.action = "stop"
    BY <2>2 DEF Kinds, Displays
  <2>3. CASE c # Launch /\ call[c].req.action # "stop" /\ ~call[c].act
    BY <2>3, <1>a DEF Kinds, Displays
  <2>4. CASE c # Launch /\ call[c].act
    BY <2>4, <1>a DEF Kinds, Displays, Verb
  <2> QED BY <2>1, <2>2, <2>3, <2>4
<1> HIDE DEF kind
<1> QED BY <1>a, <1>1, <1>2 DEF Commands

-----------------------------------------------------------------------------
(* Steps of a call *)

\* The call is over, and so is its request; who gives up on a reply spoils the stream.
Quits(c) ==
    /\ call' = [call EXCEPT ![c] = [Idle EXCEPT !.pc = "end"]]
    /\ qmp' = qmp \/ (Here(c) /\ qmp' = [qmp EXCEPT !.pending = @ \ {call[c].id}])
    /\ spoiled \/ Waits(c) => spoiled'
    /\ used \subseteq used'
    /\ \/ UNCHANGED sess
       \/ /\ call[c].pc = "gate" /\ Here(c) /\ ~sess.done
          /\ sess' = [sess EXCEPT !.phase = "stopping"]
    /\ UNCHANGED <<lines, qemu, typed>>

LEMMA QuitFacts ==
    ASSUME IInv, NEW c \in Calls, Quits(c)
    PROVE  /\ \A d \in Threads \ {c} : call'[d] = call[d]
           /\ DOMAIN call'[c] = Fields /\ call'[c].pc = "end" /\ call'[c].on = 0 /\ call'[c].id = 0
           /\ call'[c].names = 0 /\ call'[c].req = NoRequest /\ call'[c].box = NoReply
           /\ DOMAIN call' = Threads
           /\ qmp'.state = qmp.state /\ qmp'.next = qmp.next /\ qmp'.clean = qmp.clean
           /\ qmp'.pending \in {qmp.pending, qmp.pending \ {call[c].id}}
           /\ DOMAIN qmp' = DOMAIN qmp
           /\ \A d \in Threads \ {c} : Here(d)' = Here(d) /\ (Waits(d) => Waits(d)')
           /\ \A id : id # 0 => ~Has(c, id)'
           /\ ~spoiled' => ~spoiled /\ ~Waits(c)
           /\ Launch \in Threads \ {c} /\ Published' = Published
<1>1. /\ \A d \in Threads \ {c} : call'[d] = call[d]
      /\ call'[c] = [Idle EXCEPT !.pc = "end"]
      /\ DOMAIN call' = Threads
      /\ qmp'.state = qmp.state /\ qmp'.next = qmp.next /\ qmp'.clean = qmp.clean
      /\ qmp'.pending \in {qmp.pending, qmp.pending \ {call[c].id}}
      /\ DOMAIN qmp' = DOMAIN qmp
      /\ sess'.n = sess.n
      /\ ~spoiled' => ~spoiled /\ ~Waits(c)
  BY DEF Quits, IInv, Types, Threads
<1>2. Launch \in Threads \ {c}
  BY Different DEF Threads
<1>3. \A d \in Threads \ {c} : Here(d)' = Here(d)
  BY <1>1 DEF Here
<1>4. \A id : id # 0 => ~Has(c, id)'
  BY <1>1 DEF Has, Idle
<1>5. ASSUME NEW d \in Threads \ {c}, Waits(d) PROVE Waits(d)'
  <2>1. qmp' = qmp \/ call[d].id # call[c].id
    BY <1>5 DEF Quits, IInv, Ids, Has, Waits, Threads
  <2> QED BY <1>1, <1>3, <1>5, <2>1 DEF Waits
<1>6. Published' = Published
  BY <1>1, <1>2 DEF Published
<1>7. /\ DOMAIN call'[c] = Fields /\ call'[c].pc = "end" /\ call'[c].on = 0 /\ call'[c].id = 0
      /\ call'[c].names = 0 /\ call'[c].req = NoRequest /\ call'[c].box = NoReply
  BY <1>1 DEF Idle, Fields
<1> QED BY <1>1, <1>2, <1>3, <1>4, <1>5, <1>6, <1>7

\* The command goes out, or nothing does.
Sends(c) ==
    /\ call[c].pc = "writing" /\ Here(c) /\ qemu.alive
    /\ wire' = Append(wire, Command(c))

\* A new command has the identifier, the sender and the directive of the call.
IsOf(cmd, c) ==
    /\ call[c].pc = "writing" /\ Here(c) /\ qemu.alive
    /\ cmd.id = call[c].id /\ cmd.from = c
    /\ cmd.kind = "input-send-event" =>
         /\ Comes(c) /\ call[c].act
         /\ cmd.names = call[c].names /\ cmd.req.directive = call[c].req.directive

LEMMA SentFacts ==
    ASSUME IInv, NEW c \in Threads, wire' = wire \/ Sends(c)
    PROVE  /\ wire' \in Seq(Commands)
           /\ \A i \in DOMAIN wire' :
                IF i \in DOMAIN wire THEN wire'[i] = wire[i] ELSE IsOf(wire'[i], c)
           /\ \A i, j \in DOMAIN wire' : i \notin DOMAIN wire /\ j \notin DOMAIN wire => i = j
           /\ ~qemu.alive => wire' = <<>>
           /\ qmp.state = "greeting" => wire' = <<>>
<1>1. CASE wire' = wire
  BY <1>1 DEF IInv, Types, Stream
<1>2. CASE Sends(c)
  <2>1. /\ Command(c) \in Commands
        /\ Command(c).id = call[c].id /\ Command(c).from = c
        /\ Command(c).req = call[c].req /\ Command(c).names = call[c].names
        /\ Command(c).kind = "input-send-event" =>
             c # Launch /\ call[c].req.action = "keys" /\ call[c].act
    BY <1>2, CommandFacts DEF Sends, IInv
  <2>2. IsOf(Command(c), c)
    BY <1>2, <2>1 DEF Sends, IsOf, Comes
  <2>3. wire \in Seq(Commands)
    BY DEF IInv, Types
  <2>4. /\ wire' \in Seq(Commands)
        /\ DOMAIN wire = 1 .. Len(wire) /\ Len(wire) \in Nat
        /\ DOMAIN wire' = 1 .. Len(wire) + 1
        /\ wire'[Len(wire) + 1] = Command(c)
        /\ \A i \in DOMAIN wire : wire'[i] = wire[i]
    BY <1>2, <2>1, <2>3, AppendFacts DEF Sends
  <2>5. qemu.alive /\ qmp.state # "greeting"
    BY <1>2 DEF Sends, IInv, Awaited
  <2>6. \A i \in DOMAIN wire' : i \in DOMAIN wire \/ i = Len(wire) + 1
    BY <2>4
  <2> QED BY <2>2, <2>4, <2>5, <2>6
<1> QED BY <1>1, <1>2

\* What is left of the invariant when a call ends, its last command sent or not.
LEMMA QuitStep ==
    ASSUME IInv, NEW c \in Calls, Quits(c), wire' = wire \/ Sends(c)
    PROVE  IInv'
<1>q. /\ \A d \in Threads \ {c} : call'[d] = call[d]
      /\ DOMAIN call'[c] = Fields /\ call'[c].pc = "end" /\ call'[c].on = 0 /\ call'[c].id = 0
      /\ call'[c].names = 0 /\ call'[c].req = NoRequest /\ call'[c].box = NoReply
      /\ DOMAIN call' = Threads
      /\ qmp'.state = qmp.state /\ qmp'.next = qmp.next /\ qmp'.clean = qmp.clean
      /\ qmp'.pending \in {qmp.pending, qmp.pending \ {call[c].id}}
      /\ DOMAIN qmp' = DOMAIN qmp
      /\ \A d \in Threads \ {c} : Here(d)' = Here(d) /\ (Waits(d) => Waits(d)')
      /\ \A id : id # 0 => ~Has(c, id)'
      /\ ~spoiled' => ~spoiled /\ ~Waits(c)
      /\ Launch \in Threads \ {c} /\ Published' = Published
  BY QuitFacts
<1>s. /\ lines' = lines /\ qemu' = qemu /\ typed' = typed /\ used \subseteq used'
      /\ sess'.n = sess.n /\ DOMAIN sess' = DOMAIN sess /\ sess'.done = sess.done
      /\ sess'.forced = sess.forced /\ sess'.unrecorded = sess.unrecorded
      /\ \/ sess' = sess
         \/ sess'.phase = "stopping" /\ ~sess.done /\ Published /\ ~Launches
  <2>1. call[c].pc = "gate" /\ Here(c) => Published /\ ~Launches
    BY DEF IInv, Stream, Published, Launches
  <2> QED BY <2>1 DEF Quits, IInv, Types
<1>w. /\ wire' \in Seq(Commands)
      /\ \A i \in DOMAIN wire' :
           IF i \in DOMAIN wire THEN wire'[i] = wire[i] ELSE IsOf(wire'[i], c)
      /\ \A i, j \in DOMAIN wire' : i \notin DOMAIN wire /\ j \notin DOMAIN wire => i = j
      /\ ~qemu.alive => wire' = <<>>
      /\ qmp.state = "greeting" => wire' = <<>>
  BY SentFacts DEF Threads
<1>c. c \in Threads
  BY DEF Threads
<1> USE <1>q, <1>s, <1>w, <1>c DEF IInv
<1>1. Types'
  <2>1. \A d \in Threads :
          /\ DOMAIN call'[d] = Fields
          /\ call'[d].on \in 0 .. sess'.n /\ call'[d].id \in Nat
          /\ call'[d].names \in Nat /\ call'[d].req \in Asked
    <3>1. 0 \in 0 .. sess.n /\ NoRequest \in Asked
      BY DEF Types, Asked
    <3>2. ASSUME NEW d \in Threads \ {c}
          PROVE  /\ DOMAIN call[d] = Fields
                 /\ call[d].on \in 0 .. sess.n /\ call[d].id \in Nat
                 /\ call[d].names \in Nat /\ call[d].req \in Asked
      BY DEF Types
    <3>3. ASSUME NEW d \in Threads
          PROVE  /\ DOMAIN call'[d] = Fields
                 /\ call'[d].on \in 0 .. sess'.n /\ call'[d].id \in Nat
                 /\ call'[d].names \in Nat /\ call'[d].req \in Asked
      <4>1. CASE d = c
        BY <3>1, <4>1
      <4>2. CASE d # c
        BY <3>2, <4>2
      <4> QED BY <4>1, <4>2
    <3> QED BY <3>3
  <2>2. /\ DOMAIN qmp' = {"state", "clean", "next", "pending"}
        /\ qmp'.state \in {"greeting", "reading", "eof", "broken"} /\ qmp'.next \in Nat
    BY DEF Types
  <2> QED BY <2>1, <2>2 DEF Types
<1>2. Ids'
  <2>1. \A d \in Threads, id \in Nat \ {0} : Has(d, id)' => d # c /\ Has(d, id)
    BY DEF Has
  <2>2. \A d \in Threads : Here(d)' => (d # c /\ Here(d)) \/ (d = c /\ call'[d].id = 0)
    OBVIOUS
  <2>3. call'[c].pc # "writing"
    OBVIOUS
  <2>4. /\ qmp'.pending \subseteq 1 .. qmp'.next /\ qmp.next \in Nat
        /\ \A d \in Threads : call'[d].id \in Nat
    BY <1>1 DEF Ids, Types
  <2>5. \A d \in Threads : Here(d)' => call'[d].id <= qmp'.next
    BY <2>2, <2>4 DEF Ids
  <2>6. \A d \in Threads : call'[d].pc = "writing" /\ Here(d)' => call'[d].id # 0
    BY <2>3 DEF Ids
  <2>7. ASSUME NEW d \in Threads, NEW e \in Threads, Here(e)', call'[e].id # 0, Has(d, call[e].id)'
        PROVE  d = e
    <3>1. e # c /\ Here(e) /\ call[e].id = call'[e].id
      BY <2>2, <2>7
    <3>2. Has(d, call[e].id)
      BY <2>1, <2>4, <2>7, <3>1 DEF Has
    <3> QED BY <2>7, <3>1, <3>2 DEF Ids
  <2>8. \A i \in DOMAIN wire' :
         /\ wire'[i].id \in 1 .. qmp'.next
         /\ \A d \in Threads : Has(d, wire[i].id)' => d = wire'[i].from
    <3>1. ASSUME NEW i \in DOMAIN wire', i \notin DOMAIN wire
          PROVE  /\ wire'[i].id \in 1 .. qmp'.next
                 /\ \A d \in Threads : ~Has(d, wire[i].id)'
      <4>1. /\ wire'[i].id = call[c].id /\ call[c].id \in 1 .. qmp.next
            /\ Here(c) /\ call[c].id # 0
        BY <3>1, <2>4 DEF IsOf, Ids, Types
      <4>2. \A d \in Threads : ~(Here(d)' /\ call'[d].id = call[c].id)
        <5>1. \A d \in Threads : Has(d, call[c].id) => d = c
          BY <4>1 DEF Ids
        <5> QED BY <2>2, <4>1, <5>1 DEF Has
      <4> QED BY <4>1, <4>2 DEF Has
    <3>2. ASSUME NEW i \in DOMAIN wire', i \in DOMAIN wire
          PROVE  /\ wire'[i].id \in 1 .. qmp'.next
                 /\ \A d \in Threads : Has(d, wire[i].id)' => d = wire'[i].from
      BY <2>1, <2>4, <3>2 DEF Ids
    <3> QED BY <3>1, <3>2
  <2>9. \A i \in DOMAIN lines' : lines'[i].kind = "return" =>
         /\ lines'[i].id \in 1 .. qmp'.next
         /\ \A d \in Threads : Has(d, lines[i].id)' => d = lines'[i].of
    BY <2>1, <2>4 DEF Ids
  <2> QED BY <2>4, <2>5, <2>6, <2>7, <2>8, <2>9 DEF Ids
<1>3. Forms'
  BY DEF Forms, Form
<1>4. Keys'
  <2>1. \A d \in Threads : Comes(d)' => d # c /\ Comes(d)
    BY DEF Comes
  <2>2. \A i \in DOMAIN wire' : IF i \in DOMAIN wire THEN Batch(i)' = Batch(i)
                                ELSE Batch(i)' => /\ Comes(c) /\ wire'[i].names = call[c].names
                                                  /\ wire'[i].req.directive = call[c].req.directive
    BY DEF Batch, IsOf
  <2>3. \A i, j \in DOMAIN wire' :
         Batch(i)' /\ Batch(j)' /\ wire'[i].req.directive = wire'[j].req.directive => i = j
    BY <2>2 DEF Keys
  <2>4. \A i \in DOMAIN wire' : Batch(i)' =>
         /\ wire'[i].names = sess'.n /\ wire'[i].req.directive \in used'
         /\ \A j \in DOMAIN typed' : typed'[j].directive # wire'[i].req.directive
    BY <2>2 DEF Keys
  <2>5. \A d \in Threads : Comes(d)' =>
         /\ call'[d].names = sess'.n /\ call'[d].req.directive \in used'
         /\ \A i \in DOMAIN wire' : Batch(i)' => wire'[i].req.directive # call'[d].req.directive
         /\ \A j \in DOMAIN typed' : typed'[j].directive # call'[d].req.directive
         /\ \A e \in Threads : Comes(e)' /\ call'[e].req.directive = call'[d].req.directive => d = e
    BY <2>1, <2>2 DEF Keys
  <2>6. (\A j \in DOMAIN typed' : typed'[j].directive \in used') /\ KeysOnce'
    BY DEF Keys, KeysOnce
  <2> QED BY <2>3, <2>4, <2>5, <2>6 DEF Keys
<1>5. Distinct'
  <2>1. \A i, j \in DOMAIN wire' : wire'[i].id = wire'[j].id => i = j
    BY DEF Distinct, IsOf
  <2>2. \A i \in DOMAIN wire', j \in DOMAIN lines' :
          lines'[j].kind = "return" => wire'[i].id # lines'[j].id
    BY DEF Distinct, IsOf
  <2>3. ASSUME NEW d \in Threads, Here(d)', call'[d].pc = "writing"
        PROVE  /\ \A i \in DOMAIN wire' : wire'[i].id # call'[d].id
               /\ \A j \in DOMAIN lines' : lines'[j].kind = "return" => lines'[j].id # call'[d].id
    <3>1. d # c /\ Here(d) /\ call[d].pc = "writing" /\ call'[d] = call[d]
      BY <2>3
    <3>2. Here(c) => call[d].id # call[c].id
      BY <3>1 DEF Ids, Has
    <3> QED BY <3>1, <3>2 DEF Distinct, IsOf
  <2> QED BY <2>1, <2>2, <2>3 DEF Distinct
<1>6. Awaited'
  <2>1. \A id : Expected(id) /\ ~spoiled' => Expected(id)'
    BY DEF Expected
  <2>2. call'[c].pc \notin {"writing", "wait"}
    OBVIOUS
  <2>3. ~spoiled' => \A i \in DOMAIN wire' : i \in DOMAIN wire
    <3>1. ASSUME ~spoiled', Sends(c) PROVE FALSE
      <4>1. qmp.state = "reading"
        BY <3>1, Different DEF Sends, Awaited, Stream, Types
      <4> QED BY <3>1, <4>1 DEF Sends, Awaited
    <3> QED BY <3>1
  <2> QED BY <2>1, <2>2, <2>3 DEF Awaited
<1>7. Stream'
  <2>1. call'[c].pc = "end"
    OBVIOUS
  <2>2. Launches' = Launches /\ Here(Launch)' = Here(Launch)
    BY DEF Launches
  <2>3. \A d \in Calls : d \in Threads
    BY DEF Threads
  <2> QED BY <2>1, <2>2, <2>3 DEF Stream
<1>8. Verdict'
  BY DEF Verdict, Announced
<1>9. OwnAnswer'
  BY DEF OwnAnswer, NoReply
<1> QED BY <1>1, <1>2, <1>3, <1>4, <1>5, <1>6, <1>7, <1>8, <1>9

\* A call goes on: to its wait with the command sent, or past an answer it has.
Goes(c, p) ==
    /\ call' = [call EXCEPT ![c].pc = p]
    /\ \/ p = "wait" /\ Sends(c)
       \/ /\ p \in {"shut", "final"} /\ wire' = wire
          /\ c \in Calls /\ call[c].pc \in {"gate", "wait"} /\ ~Waits(c)
    /\ UNCHANGED <<sess, qmp, lines, qemu, typed, used, spoiled>>

LEMMA GoStep ==
    ASSUME IInv, NEW c \in Threads, NEW p, Goes(c, p)
    PROVE  IInv'
<1>q. /\ \A d \in Threads \ {c} : call'[d] = call[d]
      /\ DOMAIN call' = Threads
      /\ call'[c].pc = p /\ call'[c].on = call[c].on /\ call'[c].id = call[c].id
      /\ call'[c].box = call[c].box /\ call'[c].req = call[c].req
      /\ call'[c].names = call[c].names /\ call'[c].act = call[c].act
      /\ DOMAIN call'[c] = Fields
  BY DEF Goes, IInv, Types, Fields
<1>s. sess' = sess /\ qmp' = qmp /\ lines' = lines /\ qemu' = qemu /\ typed' = typed
      /\ used' = used /\ spoiled' = spoiled
  BY DEF Goes
<1>w. /\ wire' \in Seq(Commands)
      /\ \A i \in DOMAIN wire' :
           IF i \in DOMAIN wire THEN wire'[i] = wire[i] ELSE IsOf(wire'[i], c)
      /\ \A i, j \in DOMAIN wire' : i \notin DOMAIN wire /\ j \notin DOMAIN wire => i = j
      /\ ~qemu.alive => wire' = <<>>
      /\ qmp.state = "greeting" => wire' = <<>>
  BY SentFacts DEF Goes
<1>p. /\ p = "wait" => call[c].pc = "writing" /\ Here(c) /\ qemu.alive
      /\ p # "wait" => wire' = wire /\ p \in {"shut", "final"} /\ c \in Calls
                       /\ call[c].pc \in {"gate", "wait"} /\ ~Waits(c)
  BY DEF Goes, Sends
<1>h. \A d \in Threads : Here(d)' = Here(d)
  BY <1>q, <1>s DEF Here
<1> USE <1>q, <1>s, <1>w, <1>p, <1>h DEF IInv
<1>1. Types'
  <2>1. ASSUME NEW d \in Threads
        PROVE  /\ DOMAIN call'[d] = Fields
               /\ call'[d].on \in 0 .. sess'.n /\ call'[d].id \in Nat
               /\ call'[d].names \in Nat /\ call'[d].req \in Asked
    <3>1. CASE d = c
      BY <3>1 DEF Types
    <3>2. CASE d # c
      BY <3>2 DEF Types
    <3> QED BY <3>1, <3>2
  <2> QED BY <2>1 DEF Types
<1>2. Ids'
  <2>1. \A d \in Threads : call'[d].id = call[d].id /\ (call'[d].pc = "writing" => call[d].pc = "writing")
    OBVIOUS
  <2>2. \A id : \A d \in Threads : (Here(d)' /\ call'[d].id = id) <=> Has(d, id)
    BY <2>1 DEF Has
  <2>3. /\ qmp'.pending \subseteq 1 .. qmp'.next
        /\ \A d \in Threads : Here(d)' => call'[d].id <= qmp'.next
        /\ \A d \in Threads : call'[d].pc = "writing" /\ Here(d)' => call'[d].id # 0
    BY <2>1 DEF Ids
  <2>4. \A d, e \in Threads : Here(e)' /\ call'[e].id # 0 /\ Has(d, call[e].id)' => d = e
    BY <2>1, <2>2 DEF Ids, Has
  <2>5. ASSUME NEW i \in DOMAIN wire'
        PROVE  /\ wire'[i].id \in 1 .. qmp'.next
               /\ \A d \in Threads : Has(d, wire[i].id)' => d = wire'[i].from
    <3>1. CASE i \in DOMAIN wire
      BY <2>1, <3>1 DEF Ids, Has
    <3>2. CASE i \notin DOMAIN wire
      <4>1. wire'[i].id = call[c].id /\ call[c].id \in 1 .. qmp.next /\ Here(c) /\ wire'[i].from = c
        BY <3>2 DEF IsOf, Ids, Types
      <4>2. \A d \in Threads : Here(d) /\ call[d].id = call[c].id => d = c
        BY <4>1 DEF Ids, Has
      <4> QED BY <2>1, <4>1, <4>2 DEF Has
    <3> QED BY <3>1, <3>2
  <2>6. \A i \in DOMAIN lines' : lines'[i].kind = "return" =>
         /\ lines'[i].id \in 1 .. qmp'.next
         /\ \A d \in Threads : Has(d, lines[i].id)' => d = lines'[i].of
    BY <2>1 DEF Ids, Has
  <2> QED BY <2>3, <2>4, <2>5, <2>6 DEF Ids
<1>3. Forms'
  <2>1. ASSUME NEW d \in Threads PROVE Form(d)'
    <3>1. CASE d = c
      <4>1. c \in Calls => c # Launch
        BY Different
      <4>2. Form(c)
        BY DEF Forms
      <4> QED BY <3>1, <4>1, <4>2 DEF Form
    <3>2. CASE d # c
      BY <3>2 DEF Forms, Form
    <3> QED BY <3>1, <3>2
  <2> QED BY <2>1 DEF Forms
<1>4. Keys'
  <2>1. \A d \in Threads : Comes(d)' => Comes(d)
    BY DEF Comes
  <2>2. \A i \in DOMAIN wire' : IF i \in DOMAIN wire THEN Batch(i)' = Batch(i)
                                ELSE Batch(i)' => /\ Comes(c) /\ ~Comes(c)' /\ wire'[i].names = call[c].names
                                                  /\ wire'[i].req.directive = call[c].req.directive
    BY DEF Batch, IsOf, Comes
  <2>3. \A i, j \in DOMAIN wire' :
         Batch(i)' /\ Batch(j)' /\ wire'[i].req.directive = wire'[j].req.directive => i = j
    BY <2>2 DEF Keys
  <2>4. \A i \in DOMAIN wire' : Batch(i)' =>
         /\ wire'[i].names = sess'.n /\ wire'[i].req.directive \in used'
         /\ \A j \in DOMAIN typed' : typed'[j].directive # wire'[i].req.directive
    BY <2>2 DEF Keys
  <2>5. \A d \in Threads : Comes(d)' =>
         /\ call'[d].names = sess'.n /\ call'[d].req.directive \in used'
         /\ \A i \in DOMAIN wire' : Batch(i)' => wire'[i].req.directive # call'[d].req.directive
         /\ \A j \in DOMAIN typed' : typed'[j].directive # call'[d].req.directive
         /\ \A e \in Threads : Comes(e)' /\ call'[e].req.directive = call'[d].req.directive => d = e
    <3>1. \A d \in Threads : call'[d].names = call[d].names /\ call'[d].req = call[d].req
      OBVIOUS
    <3>2. ASSUME NEW d \in Threads, Comes(d)', NEW i \in DOMAIN wire', Batch(i)'
          PROVE  wire'[i].req.directive # call'[d].req.directive
      BY <2>1, <2>2, <3>1, <3>2 DEF Keys
    <3> QED BY <2>1, <3>1, <3>2 DEF Keys
  <2>6. (\A j \in DOMAIN typed' : typed'[j].directive \in used') /\ KeysOnce'
    BY DEF Keys, KeysOnce
  <2> QED BY <2>3, <2>4, <2>5, <2>6 DEF Keys
<1>5. Distinct'
  <2>1. \A i, j \in DOMAIN wire' : wire'[i].id = wire'[j].id => i = j
    BY DEF Distinct, IsOf
  <2>2. \A i \in DOMAIN wire', j \in DOMAIN lines' :
          lines'[j].kind = "return" => wire'[i].id # lines'[j].id
    BY DEF Distinct, IsOf
  <2>3. ASSUME NEW d \in Threads, Here(d)', call'[d].pc = "writing"
        PROVE  /\ \A i \in DOMAIN wire' : wire'[i].id # call'[d].id
               /\ \A j \in DOMAIN lines' : lines'[j].kind = "return" => lines'[j].id # call'[d].id
    <3>1. d # c /\ Here(d) /\ call[d].pc = "writing" /\ call'[d] = call[d]
      BY <2>3
    <3>2. Here(c) => call[d].id # call[c].id
      BY <3>1 DEF Ids, Has
    <3> QED BY <3>1, <3>2 DEF Distinct, IsOf
  <2> QED BY <2>1, <2>2, <2>3 DEF Distinct
<1>6. Awaited'
  <2>1. \A d \in Threads : call'[d].id = call[d].id /\ (Waits(d) => Waits(d)')
    BY DEF Waits
  <2>2. \A id : Expected(id) => Expected(id)'
    BY <2>1 DEF Expected
  <2>3. ~spoiled => \A i \in DOMAIN wire' : i \in DOMAIN wire \/ Expected(wire[i].id)'
    <3>1. ASSUME ~spoiled, NEW i \in DOMAIN wire', i \notin DOMAIN wire PROVE Expected(wire[i].id)'
      <4>1. qmp.state = "reading" /\ wire'[i].id = call[c].id
        BY <3>1, Different DEF IsOf, Awaited, Stream, Types
      <4>2. Waits(c)
        BY <3>1, <4>1 DEF Awaited, IsOf
      <4> QED BY <2>1, <4>1, <4>2 DEF Expected
    <3> QED BY <3>1
  <2>4. \A d \in Threads : call'[d].pc \in {"writing", "wait"} => call[d].pc \in {"writing", "wait"}
    OBVIOUS
  <2>5. \A d \in Threads : call'[d].pc = "writing" => call[d].pc = "writing"
    OBVIOUS
  <2> QED BY <2>1, <2>2, <2>3, <2>4, <2>5 DEF Awaited
<1>7. Stream'
  <2>1. Launch \in Threads /\ \A d \in Calls : d \in Threads
    BY DEF Threads
  <2>2. /\ Launches' = Launches /\ Published' = Published
        /\ call'[Launch].pc = "greeting" <=> call[Launch].pc = "greeting"
        /\ call'[Launch].pc = "failed" <=> call[Launch].pc = "failed"
    BY <2>1, Different DEF Launches, Published
  <2>3. \A d \in Calls : call'[d].pc \notin {"new", "end"} => call[d].pc \notin {"new", "end"}
    BY <2>1
  <2> QED BY <2>1, <2>2, <2>3 DEF Stream
<1>8. Verdict'
  <2>1. Published' = Published
    BY Different DEF Published, Threads
  <2> QED BY <2>1 DEF Verdict, Announced
<1>9. OwnAnswer'
  BY DEF OwnAnswer
<1> QED BY <1>1, <1>2, <1>3, <1>4, <1>5, <1>6, <1>7, <1>8, <1>9

\* A call has its next command registered; for keys, under a directive of its own.
Registers(c) ==
    /\ qmp.state = "reading" /\ Here(c) /\ ~Waits(c)
    /\ qmp' = [qmp EXCEPT !.next = @ + 1, !.pending = @ \union {qmp.next + 1}]
    /\ DOMAIN call' = Threads /\ \A d \in Threads \ {c} : call'[d] = call[d]
    /\ DOMAIN call'[c] = Fields
    /\ call'[c].pc = "writing" /\ call'[c].id = qmp.next + 1 /\ call'[c].box = NoReply
    /\ call'[c].on = call[c].on /\ call'[c].req = call[c].req /\ call'[c].names = call[c].names
    /\ IF c = Launch
       THEN call[c].pc = "greeting"
       ELSE /\ call[c].pc \in {"gate", "wait"}
            /\ call[c].req.action \in (IF call'[c].act THEN {"mice", "keys", "capture"}
                                       ELSE Displays \union {"stop"})
            /\ call[c].req.action = "keys" =>
                 \/ Comes(c)
                 \/ (call[c].names = sess.n /\ call[c].req.directive \in used' \ used)
    /\ used \subseteq used'
    /\ \/ UNCHANGED sess
       \/ /\ c # Launch /\ ~sess.done /\ sess' = [sess EXCEPT !.phase = "stopping"]
    /\ UNCHANGED <<wire, lines, qemu, typed, spoiled>>

LEMMA RegisterStep ==
    ASSUME IInv, NEW c \in Threads, Registers(c)
    PROVE  IInv'
<1>q. /\ \A d \in Threads \ {c} : call'[d] = call[d]
      /\ DOMAIN call' = Threads
      /\ call'[c].pc = "writing" /\ call'[c].on = call[c].on /\ call'[c].id = qmp.next + 1
      /\ call'[c].box = NoReply /\ call'[c].req = call[c].req
      /\ call'[c].names = call[c].names
      /\ DOMAIN call'[c] = Fields
  BY DEF Registers
<1>s. /\ wire' = wire /\ lines' = lines /\ qemu' = qemu /\ typed' = typed
      /\ used \subseteq used' /\ spoiled' = spoiled
      /\ qmp'.state = "reading" /\ qmp.state = "reading" /\ qmp'.clean = qmp.clean
      /\ qmp.next \in Nat /\ qmp'.next = qmp.next + 1
      /\ qmp'.pending = qmp.pending \union {qmp.next + 1} /\ DOMAIN qmp' = DOMAIN qmp
      /\ sess'.n = sess.n /\ sess'.done = sess.done /\ DOMAIN sess' = DOMAIN sess
      /\ sess'.forced = sess.forced /\ sess'.unrecorded = sess.unrecorded
      /\ \/ sess' = sess
         \/ c # Launch /\ ~sess.done /\ sess'.phase = "stopping"
  BY DEF Registers, IInv, Types
<1>h. Here(c) /\ ~Waits(c) /\ \A d \in Threads : Here(d)' = Here(d)
  BY <1>q, <1>s DEF Here, Registers
<1>p. /\ c = Launch => call[c].pc = "greeting"
      /\ c # Launch => call[c].pc \in {"gate", "wait"}
      /\ c # Launch => call[c].req.action \in (IF call'[c].act THEN {"mice", "keys", "capture"}
                                               ELSE Displays \union {"stop"})
      /\ c # Launch /\ call[c].req.action = "keys" =>
           Comes(c) \/ (call[c].names = sess.n /\ call[c].req.directive \in used' \ used)
  BY DEF Registers
<1>k. Comes(c)' => Comes(c) \/ (call[c].names = sess.n /\ call[c].req.directive \in used' \ used)
  <2>1. Comes(c)' => c # Launch /\ call[c].req.action = "keys"
    BY <1>q DEF Comes
  <2> QED BY <1>p, <2>1
<1> USE <1>q, <1>s, <1>h, <1>p DEF IInv
<1>1. Types'
  <2>1. ASSUME NEW d \in Threads
        PROVE  /\ DOMAIN call'[d] = Fields
               /\ call'[d].on \in 0 .. sess'.n /\ call'[d].id \in Nat
               /\ call'[d].names \in Nat /\ call'[d].req \in Asked
    <3>1. CASE d = c
      BY <3>1 DEF Types
    <3>2. CASE d # c
      BY <3>2 DEF Types
    <3> QED BY <3>1, <3>2
  <2> QED BY <2>1 DEF Types
<1>2. Ids'
  <2>1. \A d \in Threads : Here(d) => call[d].id \in Nat /\ call[d].id <= qmp.next
    BY DEF Ids, Types
  <2>2. \A d \in Threads \ {c} : Here(d) => call[d].id # qmp.next + 1
    BY <2>1
  <2>3. /\ qmp'.pending \subseteq 1 .. qmp'.next
        /\ \A d \in Threads : Here(d)' => call'[d].id <= qmp'.next
        /\ \A d \in Threads : call'[d].pc = "writing" /\ Here(d)' => call'[d].id # 0
    BY <2>1 DEF Ids
  <2>4. \A d, e \in Threads : Here(e)' /\ call'[e].id # 0 /\ Here(d)' /\ call'[d].id = call'[e].id => d = e
    BY <2>2 DEF Ids, Has
  <2>5. ASSUME NEW id \in 1 .. qmp.next, NEW d \in Threads, Here(d)', call'[d].id = id
        PROVE  Has(d, id) /\ id \in 1 .. qmp'.next
    BY <2>5 DEF Has
  <2>6. \A i \in DOMAIN wire' :
               /\ wire'[i].id \in 1 .. qmp'.next
               /\ \A d \in Threads : Has(d, wire[i].id)' => d = wire'[i].from
    BY <2>5 DEF Ids, Has
  <2>7. \A i \in DOMAIN lines' : lines'[i].kind = "return" =>
         /\ lines'[i].id \in 1 .. qmp'.next
         /\ \A d \in Threads : Has(d, lines[i].id)' => d = lines'[i].of
    BY <2>5 DEF Ids, Has
  <2> QED BY <2>3, <2>4, <2>6, <2>7 DEF Ids, Has
<1>3. Forms'
  BY DEF Forms, Form
<1>4. Keys'
  <2>1. \A d \in Threads \ {c} : Comes(d)' => Comes(d)
    BY DEF Comes
  <2>3. \A i : Batch(i)' = Batch(i)
    BY DEF Batch
  <2>4. \A d \in Threads : Comes(d)' =>
         /\ call'[d].names = sess'.n /\ call'[d].req.directive \in used'
         /\ \A i \in DOMAIN wire' : Batch(i)' => wire'[i].req.directive # call'[d].req.directive
         /\ \A j \in DOMAIN typed' : typed'[j].directive # call'[d].req.directive
    <3>1. ASSUME NEW d \in Threads \ {c}, Comes(d)
          PROVE  /\ call'[d].names = sess'.n /\ call'[d].req.directive \in used'
                 /\ \A i \in DOMAIN wire' : Batch(i)' => wire'[i].req.directive # call'[d].req.directive
                 /\ \A j \in DOMAIN typed' : typed'[j].directive # call'[d].req.directive
      BY <2>3, <3>1 DEF Keys
    <3>2. ASSUME Comes(c)'
          PROVE  /\ call'[c].names = sess'.n /\ call'[c].req.directive \in used'
                 /\ \A i \in DOMAIN wire' : Batch(i)' => wire'[i].req.directive # call'[c].req.directive
                 /\ \A j \in DOMAIN typed' : typed'[j].directive # call'[c].req.directive
      BY <1>k, <2>3, <3>2 DEF Keys
    <3> QED BY <2>1, <3>1, <3>2
  <2>5. \A d, e \in Threads : Comes(d)' /\ Comes(e)'
          /\ call'[e].req.directive = call'[d].req.directive => d = e
    <3>1. \A d \in Threads : call'[d].req = call[d].req
      OBVIOUS
    <3> QED BY <2>1, <1>k, <3>1 DEF Keys
  <2>6. /\ \A i, j \in DOMAIN wire' :
            Batch(i)' /\ Batch(j)' /\ wire'[i].req.directive = wire'[j].req.directive => i = j
        /\ \A i \in DOMAIN wire' : Batch(i)' =>
             /\ wire'[i].names = sess'.n /\ wire'[i].req.directive \in used'
             /\ \A j \in DOMAIN typed' : typed'[j].directive # wire'[i].req.directive
        /\ \A j \in DOMAIN typed' : typed'[j].directive \in used'
        /\ KeysOnce'
    BY <2>3 DEF Keys, KeysOnce
  <2> QED BY <2>4, <2>5, <2>6 DEF Keys
<1>5. Distinct'
  <2>1. \A i \in DOMAIN wire : wire[i].id # qmp.next + 1
    BY DEF Ids
  <2>2. \A j \in DOMAIN lines : lines[j].kind = "return" => lines[j].id # qmp.next + 1
    BY DEF Ids
  <2> QED BY <2>1, <2>2 DEF Distinct
<1>6. Awaited'
  <2>1. \A d \in Threads \ {c} : Waits(d) => Waits(d)' /\ call'[d].id = call[d].id
    BY DEF Waits
  <2>2. \A id : Expected(id) => Expected(id)'
    BY <2>1 DEF Expected
  <2>3. Waits(c)'
    BY DEF Waits
  <2>4. \A d \in Threads \ {c} : call'[d].pc = "writing" /\ Here(d)' => Waits(d)'
    BY <2>1 DEF Awaited
  <2>5. \A d \in Threads : call'[d].pc = "writing" /\ Here(d)' => Waits(d)'
    BY <2>3, <2>4
  <2> QED BY <2>2, <2>5 DEF Awaited
<1>7. Stream'
  <2>1. Launch \in Threads /\ (\A d \in Calls : d \in Threads) /\ (c # Launch => c \in Calls)
    BY DEF Threads
  <2>2. /\ Launches' = Launches /\ Published' = Published
        /\ call'[Launch].pc = "failed" <=> call[Launch].pc = "failed"
    BY <2>1 DEF Launches, Published
  <2>3. c # Launch => Published /\ ~Launches
    BY <2>1 DEF Stream, Published, Launches
  <2>4. \A d \in Calls : call'[d].pc \notin {"new", "end"} /\ Here(d)' => Published'
    BY <2>1, <2>2, <2>3 DEF Stream
  <2> QED BY <2>1, <2>2, <2>3, <2>4 DEF Stream
<1>8. Verdict'
  <2>1. Published' = Published
    BY DEF Published, Threads
  <2> QED BY <2>1 DEF Verdict, Announced
<1>9. OwnAnswer'
  BY DEF OwnAnswer, NoReply
<1> QED BY <1>1, <1>2, <1>3, <1>4, <1>5, <1>6, <1>7, <1>8, <1>9

-----------------------------------------------------------------------------
(* Steps of the reader *)

\* The reader is gone: whoever waited for it knows, and it was QEMU's end or a spoiled stream.
LEMMA EndStep ==
    ASSUME IInv, NEW s \in {"eof", "broken"}, ReaderEnds(s),
           s = "eof" => ~qemu.alive /\ lines = <<>>,
           s = "broken" => spoiled,
           UNCHANGED <<sess, wire, qemu, typed, used, spoiled>>
    PROVE  IInv'
<1>q. /\ DOMAIN call' = Threads
      /\ \A d \in Threads :
           /\ DOMAIN call'[d] = Fields
           /\ call'[d].pc = call[d].pc /\ call'[d].on = call[d].on /\ call'[d].id = call[d].id
           /\ call'[d].req = call[d].req /\ call'[d].names = call[d].names
           /\ call'[d].act = call[d].act
           /\ IF Here(d) /\ call[d].id \in qmp.pending
              THEN call'[d].box = Broken ELSE call'[d].box = call[d].box
      /\ qmp'.state = s /\ qmp'.pending = {} /\ qmp'.next = qmp.next /\ qmp'.clean = qmp.clean
      /\ DOMAIN qmp' = DOMAIN qmp /\ lines' = <<>>
      /\ sess' = sess /\ wire' = wire /\ qemu' = qemu /\ typed' = typed /\ used' = used
      /\ spoiled' = spoiled
  BY DEF ReaderEnds, IInv, Types, Fields
<1>e. DOMAIN lines' = {} /\ lines' \in Seq(Said)
  BY <1>q, EmptyFacts
<1>h. \A d \in Threads : Here(d)' = Here(d)
  BY <1>q DEF Here
<1> USE <1>q, <1>e, <1>h DEF IInv
<1>1. Types'
  BY DEF Types
<1>2. Ids'
  BY DEF Ids, Has
<1>3. Forms'
  <2>1. 0 \notin qmp.pending
    BY DEF Ids
  <2>2. \A d \in Threads : call[d].pc \in {"new", "gate", "greeting"} => call[d].id = 0 /\ call'[d].box = call[d].box
    BY <2>1 DEF Forms, Form
  <2> QED BY <2>2 DEF Forms, Form
<1>4. Keys'
  <2>1. \A d \in Threads : Comes(d)' = Comes(d)
    BY DEF Comes
  <2>2. \A i : Batch(i)' = Batch(i)
    BY DEF Batch
  <2> QED BY <2>1, <2>2 DEF Keys, KeysOnce
<1>5. Distinct'
  BY DEF Distinct
<1>6. Awaited'
  <2>1. ~spoiled => wire = <<>>
    BY DEF Stream
  <2>2. ~spoiled => DOMAIN wire = {}
    BY <2>1, EmptyFacts
  <2> QED BY <2>2 DEF Awaited
<1>7. Stream'
  <2>1. Launch \in Threads /\ \A d \in Calls : d \in Threads
    BY DEF Threads
  <2>2. Launches' = Launches /\ Published' = Published
    BY <2>1 DEF Launches, Published
  <2> QED BY <2>1, <2>2 DEF Stream
<1>8. Verdict'
  <2>1. Published' = Published
    BY DEF Published, Threads
  <2>2. ~spoiled => ~Announced
    BY EmptyFacts DEF Announced
  <2> QED BY <2>1, <2>2 DEF Verdict
<1>9. OwnAnswer'
  BY DEF OwnAnswer, Broken
<1> QED BY <1>1, <1>2, <1>3, <1>4, <1>5, <1>6, <1>7, <1>8, <1>9

\* The greeting and events: nobody waits for them.
LEMMA PassStep ==
    ASSUME IInv, lines # <<>>, lines' = Tail(lines), Head(lines).kind # "return",
           \/ /\ qmp.state = "greeting" /\ qmp' = [qmp EXCEPT !.state = "reading"]
           \/ /\ qmp.state = "reading"
              /\ qmp' = [qmp EXCEPT !.clean = @ \/ Head(lines).value = "guest-shutdown"],
           UNCHANGED <<sess, call, wire, qemu, typed, used, spoiled>>
    PROVE  IInv'
<1>q. /\ qmp'.pending = qmp.pending /\ qmp'.next = qmp.next /\ DOMAIN qmp' = DOMAIN qmp
      /\ qmp'.state = "reading" /\ qmp.state \in {"greeting", "reading"}
      /\ qmp.state = "reading" /\ (qmp.clean \/ Head(lines).value = "guest-shutdown") => qmp'.clean
      /\ qmp.state = "greeting" /\ qmp.clean => qmp'.clean
  BY DEF IInv, Types
<1>t. /\ lines' \in Seq(Said) /\ Head(lines) = lines[1] /\ Len(lines) \in Nat \ {0}
      /\ DOMAIN lines = 1 .. Len(lines) /\ DOMAIN lines' = 1 .. Len(lines) - 1
      /\ \A i \in DOMAIN lines' : lines'[i] = lines[i + 1]
  BY TailFacts DEF IInv, Types
<1>l. \A i \in DOMAIN lines' : i + 1 \in DOMAIN lines /\ lines'[i] = lines[i + 1]
  BY <1>t
<1>h. /\ \A d \in Threads : Here(d)' = Here(d) /\ Waits(d)' = Waits(d) /\ Comes(d)' = Comes(d)
      /\ \A id, d : Has(d, id) <=> (Here(d)' /\ call'[d].id = id)
      /\ sess' = sess /\ call' = call /\ wire' = wire /\ qemu' = qemu /\ typed' = typed
      /\ used' = used /\ spoiled' = spoiled /\ Published' = Published /\ Launches' = Launches
  BY <1>q DEF Here, Waits, Comes, Has, Published, Launches
<1> USE <1>q, <1>h DEF IInv
<1>1. Types'
  BY <1>t DEF Types
<1>2. Ids'
  BY <1>l DEF Ids, Has
<1>3. Forms'
  BY DEF Forms, Form
<1>4. Keys'
  <2>1. \A i : Batch(i)' = Batch(i)
    BY DEF Batch
  <2> QED BY <2>1 DEF Keys, KeysOnce
<1>5. Distinct'
  <2>1. \A i, j \in DOMAIN lines' :
         lines'[i].kind = "return" /\ lines'[j].kind = "return" /\ lines'[i].id = lines'[j].id => i = j
    <3>1. \A i, j \in DOMAIN lines' : i + 1 = j + 1 => i = j
      BY <1>t
    <3> QED BY <1>l, <3>1 DEF Distinct
  <2> QED BY <1>l, <2>1 DEF Distinct
<1>6. Awaited'
  <2>1. \A id : Expected(id)' = Expected(id)
    BY DEF Expected
  <2> QED BY <1>l, <2>1 DEF Awaited
<1>7. Stream'
  <2>1. qmp.state = "greeting" => DOMAIN lines' = {}
    <3>1. ASSUME qmp.state = "greeting" PROVE Len(lines) = 1
      <4>1. \A i \in 1 .. Len(lines) : i = 1
        BY <1>t, <3>1 DEF Stream
      <4> QED BY <1>t, <4>1
    <3> QED BY <1>t, <3>1
  <2>2. \A i \in DOMAIN lines' : lines'[i].kind # "greeting"
    BY <1>l, <2>1 DEF Stream
  <2>3. Launch \in Threads /\ \A d \in Calls : d \in Threads
    BY DEF Threads
  <2> QED BY <2>2, <2>3 DEF Stream
<1>8. Verdict'
  <2>1. qmp.state = "reading" /\ Announced => qmp'.clean \/ Announced'
    <3>1. ASSUME qmp.state = "reading", NEW i \in DOMAIN lines, lines[i].kind = "SHUTDOWN",
                 lines[i].value = "guest-shutdown"
          PROVE  qmp'.clean \/ Announced'
      <4>1. CASE i = 1
        BY <1>t, <3>1, <4>1
      <4>2. CASE i # 1
        <5>1. i - 1 \in DOMAIN lines' /\ lines'[i - 1] = lines[i]
          BY <1>t, <4>2
        <5> QED BY <3>1, <5>1 DEF Announced
      <4> QED BY <4>1, <4>2
    <3> QED BY <3>1 DEF Announced
  <2>2. qmp.state = "greeting" => ~Published
    BY DEF Stream, Published
  <2>3. qmp.state = "reading" /\ qmp.clean => qmp'.clean
    OBVIOUS
  <2> QED BY <2>1, <2>2, <2>3 DEF Verdict
<1>9. OwnAnswer'
  BY DEF OwnAnswer
<1> QED BY <1>1, <1>2, <1>3, <1>4, <1>5, <1>6, <1>7, <1>8, <1>9

\* A reply goes to the one who waits for it, which is the one who asked.
LEMMA ReturnStep ==
    ASSUME IInv, lines # <<>>, lines' = Tail(lines), qmp.state = "reading",
           Head(lines).kind = "return", NEW c \in waiterOf(Head(lines).id),
           call' = [call EXCEPT ![c].box = [of |-> Head(lines).of, id |-> Head(lines).id,
                                            value |-> Head(lines).value]],
           qmp' = [qmp EXCEPT !.pending = @ \ {call[c].id}],
           UNCHANGED <<sess, wire, qemu, typed, used, spoiled>>
    PROVE  IInv'
<1>t. /\ lines' \in Seq(Said) /\ Head(lines) = lines[1] /\ Len(lines) \in Nat \ {0}
      /\ DOMAIN lines = 1 .. Len(lines) /\ DOMAIN lines' = 1 .. Len(lines) - 1
      /\ \A i \in DOMAIN lines' : lines'[i] = lines[i + 1]
  BY TailFacts DEF IInv, Types
<1>l. /\ \A i \in DOMAIN lines' : i + 1 \in DOMAIN lines /\ i + 1 # 1 /\ lines'[i] = lines[i + 1]
      /\ 1 \in DOMAIN lines
  BY <1>t
<1>c. /\ c \in Threads /\ Here(c) /\ call[c].id = lines[1].id /\ call[c].id \in qmp.pending
      /\ lines[1].kind = "return"
  BY <1>t DEF waiterOf
<1>b. lines[1].of = c /\ lines[1].id \in 1 .. qmp.next
  BY <1>c, <1>l DEF IInv, Ids, Has
<1>q. /\ DOMAIN call' = Threads /\ \A d \in Threads \ {c} : call'[d] = call[d]
      /\ DOMAIN call'[c] = Fields
      /\ call'[c].box = [of |-> c, id |-> lines[1].id, value |-> lines[1].value]
      /\ \A d \in Threads :
           /\ call'[d].pc = call[d].pc /\ call'[d].on = call[d].on /\ call'[d].id = call[d].id
           /\ call'[d].req = call[d].req /\ call'[d].names = call[d].names
           /\ call'[d].act = call[d].act
  BY <1>t, <1>c, <1>b DEF IInv, Types, Fields
<1>s. /\ sess' = sess /\ wire' = wire /\ qemu' = qemu /\ typed' = typed
      /\ used' = used /\ spoiled' = spoiled
      /\ qmp'.state = qmp.state /\ qmp'.next = qmp.next /\ qmp'.clean = qmp.clean
      /\ qmp'.pending = qmp.pending \ {lines[1].id} /\ DOMAIN qmp' = DOMAIN qmp
  BY <1>c DEF IInv, Types
<1>h. /\ \A d \in Threads : Here(d)' = Here(d) /\ Comes(d)' = Comes(d)
      /\ \A id : \A d \in Threads : Has(d, id) <=> (Here(d)' /\ call'[d].id = id)
      /\ Published' = Published /\ Launches' = Launches
  BY <1>q, <1>s DEF Here, Comes, Has, Published, Launches, Threads
<1>w. \A d \in Threads : Waits(d) /\ call[d].id # lines[1].id => Waits(d)' /\ call'[d].id = call[d].id
  BY <1>c, <1>q, <1>s, <1>h DEF Waits
<1> USE <1>c, <1>q, <1>s, <1>h DEF IInv
<1>1. Types'
  <2>1. \A d \in Threads : DOMAIN call'[d] = Fields
    BY DEF Types
  <2> QED BY <1>t, <2>1 DEF Types
<1>2. Ids'
  BY <1>l DEF Ids, Has
<1>3. Forms'
  <2>1. call[c].id # 0
    BY <1>b
  <2> QED BY <2>1 DEF Forms, Form
<1>4. Keys'
  <2>1. \A i : Batch(i)' = Batch(i)
    BY DEF Batch
  <2> QED BY <2>1 DEF Keys, KeysOnce
<1>5. Distinct'
  <2>1. \A i, j \in DOMAIN lines' :
         lines'[i].kind = "return" /\ lines'[j].kind = "return" /\ lines'[i].id = lines'[j].id => i = j
    <3>1. \A i, j \in DOMAIN lines' : i + 1 = j + 1 => i = j
      BY <1>t
    <3> QED BY <1>l, <3>1 DEF Distinct
  <2> QED BY <1>l, <2>1 DEF Distinct
<1>6. Awaited'
  <2>1. \A id : Expected(id) /\ id # lines[1].id => Expected(id)'
    BY <1>w DEF Expected
  <2>2. \A i \in DOMAIN wire : wire[i].id # lines[1].id
    BY <1>l DEF Distinct
  <2>3. \A i \in DOMAIN lines' : lines'[i].kind = "return" => lines'[i].id # lines[1].id
    BY <1>l DEF Distinct
  <2>4. \A d \in Threads : Here(d) /\ call[d].pc = "writing" => call[d].id # lines[1].id
    BY <1>l DEF Distinct
  <2>5. \A d \in Threads : call'[d].pc = "writing" /\ Here(d)' => Waits(d)'
    BY <1>w, <2>4 DEF Awaited
  <2> QED BY <1>l, <2>1, <2>2, <2>3, <2>5 DEF Awaited
<1>7. Stream'
  <2>1. Launch \in Threads /\ \A d \in Calls : d \in Threads
    BY DEF Threads
  <2> QED BY <1>l, <2>1 DEF Stream
<1>8. Verdict'
  <2>1. Announced => Announced'
    <3>1. ASSUME NEW i \in DOMAIN lines, lines[i].kind = "SHUTDOWN", lines[i].value = "guest-shutdown"
          PROVE  Announced'
      <4>1. i # 1
        BY <3>1
      <4>2. i - 1 \in DOMAIN lines' /\ lines'[i - 1] = lines[i]
        BY <1>t, <4>1
      <4> QED BY <3>1, <4>2 DEF Announced
    <3> QED BY <3>1 DEF Announced
  <2> QED BY <2>1 DEF Verdict
<1>9. OwnAnswer'
  BY DEF OwnAnswer
<1> QED BY <1>1, <1>2, <1>3, <1>4, <1>5, <1>6, <1>7, <1>8, <1>9

-----------------------------------------------------------------------------
(* Steps of QEMU and of the session *)

\* What QEMU says reaches the reader, or nobody.
LEMMA SayFacts ==
    ASSUME IInv, NEW line \in Said, Say(line)
    PROVE  /\ lines' \in Seq(Said)
           /\ \A i \in DOMAIN lines' :
                IF i \in DOMAIN lines THEN lines'[i] = lines[i]
                ELSE lines'[i] = line /\ qmp.state \in {"greeting", "reading"}
           /\ \A i, j \in DOMAIN lines' : i \notin DOMAIN lines /\ j \notin DOMAIN lines => i = j
           /\ qmp.state \in {"greeting", "reading"} =>
                \E i \in DOMAIN lines' : lines'[i] = line
           /\ DOMAIN lines \subseteq DOMAIN lines'
           /\ qmp.state \notin {"greeting", "reading"} => lines' = lines
           /\ lines = <<>> => \A i \in DOMAIN lines' : i = 1
<1>1. lines \in Seq(Said)
  BY DEF IInv, Types
<1>2. CASE qmp.state \in {"greeting", "reading"}
  <2>1. lines' = Append(lines, line)
    BY <1>2 DEF Say
  <2>2. /\ lines' \in Seq(Said)
        /\ DOMAIN lines = 1 .. Len(lines) /\ Len(lines) \in Nat
        /\ DOMAIN lines' = 1 .. Len(lines) + 1
        /\ lines'[Len(lines) + 1] = line
        /\ \A i \in DOMAIN lines : lines'[i] = lines[i]
    BY <1>1, <2>1, AppendFacts
  <2>3. \A i \in DOMAIN lines' : i \in DOMAIN lines \/ i = Len(lines) + 1
    BY <2>2
  <2>4. Len(lines) + 1 \in DOMAIN lines' /\ DOMAIN lines \subseteq DOMAIN lines'
    BY <2>2
  <2>5. lines = <<>> => Len(lines) = 0
    BY <1>1
  <2>6. lines = <<>> => \A i \in DOMAIN lines' : i = 1
    BY <2>2, <2>5
  <2> QED BY <1>2, <2>2, <2>3, <2>4, <2>6
<1>3. CASE qmp.state \notin {"greeting", "reading"}
  <2>1. lines' = lines
    BY <1>3 DEF Say
  <2>2. lines = <<>> => DOMAIN lines = {}
    BY EmptyFacts
  <2> QED BY <1>1, <1>3, <2>1, <2>2
<1> QED BY <1>2, <1>3

\* QEMU says something that is no reply, or ends, or both.
LEMMA EventStep ==
    ASSUME IInv, NEW line \in Said, Say(line) \/ UNCHANGED lines, qemu.alive,
           line.kind \in {"SHUTDOWN", "junk", "greeting"}, line.kind = "junk" => spoiled',
           qmp.state = "greeting" =>
             UNCHANGED lines \/ (line.kind = "greeting" /\ lines = <<>>),
           qmp.state = "reading" => line.kind # "greeting",
           \/ qemu' = qemu
           \/ /\ qemu' = [qemu EXCEPT !.guest = "down"] /\ Published
              /\ Say(line) /\ line.kind = "SHUTDOWN" /\ line.value = "guest-shutdown"
           \/ /\ wire' = <<>> /\ \E x \in {"zero", "bad"} :
                qemu' = [qemu EXCEPT !.alive = FALSE, !.exit = x],
           wire' = wire \/ wire' = <<>> \/ (wire # <<>> /\ wire' = Tail(wire)),
           spoiled => spoiled',
           UNCHANGED <<sess, call, qmp, typed, used>>
    PROVE  IInv'
<1>l. /\ lines' \in Seq(Said)
      /\ \A i \in DOMAIN lines' :
           IF i \in DOMAIN lines THEN lines'[i] = lines[i]
           ELSE lines'[i] = line /\ qmp.state \in {"greeting", "reading"}
      /\ DOMAIN lines \subseteq DOMAIN lines'
      /\ qmp.state \notin {"greeting", "reading"} => lines' = lines
      /\ lines = <<>> => \A i \in DOMAIN lines' : i = 1
  <2>1. CASE Say(line)
    BY <2>1, SayFacts
  <2>2. CASE lines' = lines
    <3>1. lines = <<>> => DOMAIN lines = {}
      BY EmptyFacts
    <3> QED BY <2>2, <3>1 DEF IInv, Types
  <2> QED BY <2>1, <2>2
<1>k. line.kind # "return"
  OBVIOUS
<1>w. /\ wire' \in Seq(Commands)
      /\ \E k \in {0, 1} : \A i \in DOMAIN wire' : i + k \in DOMAIN wire /\ wire'[i] = wire[i + k]
      /\ \A i, j \in DOMAIN wire' : i \in Int /\ j \in Int
      /\ wire = <<>> => wire' = <<>>
      /\ ~qemu'.alive => wire' = <<>>
  <2>1. wire \in Seq(Commands) /\ (wire = <<>> => DOMAIN wire = {}) /\ <<>> \in Seq(Commands)
    BY EmptyFacts DEF IInv, Types
  <2>2. CASE wire' = wire
    <3>1. \A i \in DOMAIN wire : i + 0 = i /\ i \in Int
      BY <2>1
    <3>2. qemu'.alive \/ wire = <<>>
      BY <2>2 DEF IInv, Types
    <3> QED BY <2>1, <2>2, <3>1, <3>2
  <2>3. CASE wire' = <<>>
    <3>1. DOMAIN wire' = {}
      BY <2>3, EmptyFacts
    <3> QED BY <2>1, <2>3, <3>1
  <2>4. CASE wire # <<>> /\ wire' = Tail(wire)
    <3>1. /\ Tail(wire) \in Seq(Commands) /\ DOMAIN wire = 1 .. Len(wire) /\ Len(wire) \in Nat
          /\ DOMAIN Tail(wire) = 1 .. Len(wire) - 1
          /\ \A i \in DOMAIN Tail(wire) : Tail(wire)[i] = wire[i + 1]
      BY <2>1, <2>4, TailFacts
    <3>2. qemu'.alive \/ wire' = <<>>
      BY DEF IInv, Types
    <3>3. \A i \in DOMAIN wire' : i \in Int /\ i + 1 \in DOMAIN wire /\ wire'[i] = wire[i + 1]
      <4>1. \A i \in 1 .. Len(wire) - 1 : i \in Int /\ i + 1 \in 1 .. Len(wire)
        BY <3>1
      <4> QED BY <2>4, <3>1, <4>1
    <3> QED BY <2>4, <3>1, <3>2, <3>3
  <2> QED BY <2>2, <2>3, <2>4
<1>p. PICK k \in {0, 1} : \A i \in DOMAIN wire' : i + k \in DOMAIN wire /\ wire'[i] = wire[i + k]
  BY <1>w
<1>i. \A i, j \in DOMAIN wire' : i + k = j + k => i = j
  BY <1>w
<1>h. /\ \A d \in Threads : Here(d)' = Here(d) /\ Waits(d)' = Waits(d) /\ Comes(d)' = Comes(d)
      /\ \A id, d : Has(d, id) <=> (Here(d)' /\ call'[d].id = id)
      /\ \A id : Expected(id)' = Expected(id)
      /\ sess' = sess /\ call' = call /\ qmp' = qmp /\ typed' = typed
      /\ used' = used /\ Published' = Published /\ Launches' = Launches
  BY DEF Here, Waits, Comes, Has, Published, Launches, Expected
<1>g. /\ ~qemu.alive => ~qemu'.alive
      /\ DOMAIN qemu' = DOMAIN qemu
      /\ qemu'.guest = qemu.guest \/ (Published /\ Say(line) /\ line.kind = "SHUTDOWN"
                                      /\ line.value = "guest-shutdown")
      /\ ~qemu'.alive => wire' = <<>>
  BY <1>w DEF IInv, Types
<1> USE <1>h, <1>k DEF IInv
<1>1. Types'
  BY <1>l, <1>w, <1>g DEF Types
<1>2. Ids'
  BY <1>l, <1>p DEF Ids, Has
<1>3. Forms'
  BY DEF Forms, Form
<1>4. Keys'
  <2>1. \A i \in DOMAIN wire' : i + k \in DOMAIN wire /\ Batch(i)' = Batch(i + k) /\ wire'[i] = wire[i + k]
    BY <1>p DEF Batch
  <2>2. \A i, j \in DOMAIN wire' :
         Batch(i)' /\ Batch(j)' /\ wire'[i].req.directive = wire'[j].req.directive => i = j
    BY <1>i, <2>1 DEF Keys
  <2> QED BY <2>1, <2>2 DEF Keys, KeysOnce
<1>5. Distinct'
  <2>1. \A i, j \in DOMAIN wire' : wire'[i].id = wire'[j].id => i = j
    BY <1>p, <1>i DEF Distinct
  <2> QED BY <1>l, <1>p, <2>1 DEF Distinct
<1>6. Awaited'
  BY <1>l, <1>p DEF Awaited
<1>7. Stream'
  <2>1. Launch \in Threads /\ \A d \in Calls : d \in Threads
    BY DEF Threads
  <2>2. qmp.state = "greeting" => \A i \in DOMAIN lines' : i = 1 /\ lines'[i].kind = "greeting"
    <3>1. CASE lines' = lines
      BY <3>1 DEF Stream
    <3>2. CASE line.kind = "greeting" /\ lines = <<>>
      BY <1>l, <3>2, EmptyFacts
    <3> QED BY <3>1, <3>2
  <2>3. Launches => qemu'.guest = "up"
    BY <1>g DEF Stream, Launches, Published
  <2> QED BY <1>l, <1>w, <1>g, <2>1, <2>2, <2>3 DEF Stream
<1>8. Verdict'
  <2>1. Announced => Announced'
    BY <1>l DEF Announced
  <2>2. ASSUME qemu'.guest # qemu.guest, ~spoiled' PROVE Announced'
    <3>1. qmp.state = "reading"
      BY <1>g, <2>2 DEF Types, Stream, Published
    <3>2. \E i \in DOMAIN lines' : lines'[i] = line
      BY <1>g, <2>2, <3>1, SayFacts
    <3> QED BY <1>g, <2>2, <3>2 DEF Announced
  <2>3. ~(Published /\ sess.phase \in {"stopped", "needs_recovery"})
    BY DEF Verdict
  <2> QED BY <1>g, <2>1, <2>2, <2>3 DEF Verdict
<1>9. OwnAnswer'
  BY DEF OwnAnswer
<1> QED BY <1>1, <1>2, <1>3, <1>4, <1>5, <1>6, <1>7, <1>8, <1>9

\* A command and its answer: one less on the input, one more on the output.
LEMMA ServeStep ==
    ASSUME IInv, Serve PROVE IInv'
<1> DEFINE cmd == Head(wire)
<1>d. /\ wire # <<>> /\ wire' = Tail(wire) /\ qemu.alive
      /\ sess' = sess /\ call' = call /\ qmp' = qmp /\ used' = used /\ spoiled' = spoiled
      /\ qemu' = qemu
  BY DEF Serve, qemuRest
<1>t. /\ wire' \in Seq(Commands) /\ cmd = wire[1] /\ Len(wire) \in Nat \ {0}
      /\ DOMAIN wire = 1 .. Len(wire) /\ DOMAIN wire' = 1 .. Len(wire) - 1
      /\ \A i \in DOMAIN wire' : wire'[i] = wire[i + 1]
      /\ cmd \in Commands
  BY <1>d, TailFacts DEF IInv, Types
<1>w. /\ \A i \in DOMAIN wire' : i + 1 \in DOMAIN wire /\ i + 1 # 1 /\ wire'[i] = wire[i + 1]
      /\ 1 \in DOMAIN wire
      /\ \A i, j \in DOMAIN wire' : i + 1 = j + 1 => i = j
  BY <1>t
<1>v. PICK value \in Words :
        /\ Say(Line("return", cmd.id, cmd.from, value))
        /\ typed' = IF cmd.kind = "input-send-event" /\ value = "ok"
                    THEN Append(typed, [names |-> cmd.names, directive |-> cmd.req.directive])
                    ELSE typed
  BY DEF Serve, Answers, Words
<1> DEFINE line == Line("return", cmd.id, cmd.from, value)
<1>f. line \in Said /\ line.kind = "return" /\ line.id = wire[1].id /\ line.of = wire[1].from
  BY <1>t DEF Line, Said, Commands
<1>l. /\ lines' \in Seq(Said)
      /\ \A i \in DOMAIN lines' :
           IF i \in DOMAIN lines THEN lines'[i] = lines[i]
           ELSE /\ lines'[i].kind = "return" /\ lines'[i].id = wire[1].id
                /\ lines'[i].of = wire[1].from /\ qmp.state \in {"greeting", "reading"}
      /\ \A i, j \in DOMAIN lines' : i \notin DOMAIN lines /\ j \notin DOMAIN lines => i = j
      /\ DOMAIN lines \subseteq DOMAIN lines'
      /\ qmp.state \notin {"greeting", "reading"} => lines' = lines
  <2> HIDE DEF line
  <2>1. Say(line)
    BY <1>v DEF line
  <2> QED BY <1>f, <2>1, SayFacts
<1>b. /\ typed' \in Seq(Batches)
      /\ \A i \in DOMAIN typed' :
           IF i \in DOMAIN typed THEN typed'[i] = typed[i]
           ELSE /\ Batch(1) /\ typed'[i].names = wire[1].names
                /\ typed'[i].directive = wire[1].req.directive
      /\ \A i, j \in DOMAIN typed' : i \notin DOMAIN typed /\ j \notin DOMAIN typed => i = j
  <2>1. typed \in Seq(Batches)
    BY DEF IInv, Types
  <2>2. CASE typed' = typed
    BY <2>1, <2>2
  <2>3. CASE cmd.kind = "input-send-event" /\ typed' = Append(typed, [names |-> cmd.names, directive |-> cmd.req.directive])
    <3> DEFINE new == [names |-> cmd.names, directive |-> cmd.req.directive]
    <3>1. new \in Batches /\ new.names = wire[1].names /\ new.directive = wire[1].req.directive
      BY <1>t DEF Commands, Batches
    <3>2. typed' = Append(typed, new) /\ Batch(1)
      BY <1>t, <2>3 DEF Batch
    <3> HIDE DEF new
    <3>3. /\ typed' \in Seq(Batches)
          /\ DOMAIN typed = 1 .. Len(typed) /\ Len(typed) \in Nat
          /\ DOMAIN typed' = 1 .. Len(typed) + 1
          /\ typed'[Len(typed) + 1] = new
          /\ \A i \in DOMAIN typed : typed'[i] = typed[i]
      BY <2>1, <3>1, <3>2, AppendFacts
    <3>4. \A i \in DOMAIN typed' : i \in DOMAIN typed \/ i = Len(typed) + 1
      BY <3>3
    <3> QED BY <3>1, <3>2, <3>3, <3>4
  <2> QED BY <1>v, <2>2, <2>3
<1> HIDE DEF cmd, line
<1>h. /\ \A d \in Threads : Here(d)' = Here(d) /\ Waits(d)' = Waits(d) /\ Comes(d)' = Comes(d)
      /\ \A id, d : Has(d, id) <=> (Here(d)' /\ call'[d].id = id)
      /\ \A id : Expected(id)' = Expected(id)
      /\ Published' = Published /\ Launches' = Launches
  BY <1>d DEF Here, Waits, Comes, Has, Published, Launches, Expected
<1> USE <1>d, <1>h DEF IInv
<1>1. Types'
  BY <1>t, <1>l, <1>b DEF Types
<1>2. Ids'
  BY <1>l, <1>w DEF Ids, Has
<1>3. Forms'
  BY DEF Forms, Form
<1>4. Keys'
  <2>1. \A i \in DOMAIN wire' : Batch(i)' = Batch(i + 1)
    BY <1>w DEF Batch
  <2>2. /\ \A i, j \in DOMAIN wire' :
            Batch(i)' /\ Batch(j)' /\ wire'[i].req.directive = wire'[j].req.directive => i = j
        /\ \A i \in DOMAIN wire' : Batch(i)' /\ Batch(1) => wire'[i].req.directive # wire[1].req.directive
    BY <1>w, <2>1 DEF Keys
  <2>3. \A i \in DOMAIN wire' : Batch(i)' =>
         /\ wire'[i].names = sess'.n /\ wire'[i].req.directive \in used'
         /\ \A j \in DOMAIN typed' : typed'[j].directive # wire'[i].req.directive
    BY <1>w, <1>b, <2>1, <2>2 DEF Keys
  <2>4. \A j \in DOMAIN typed' : typed'[j].directive \in used'
    BY <1>w, <1>b DEF Keys
  <2>5. \A d \in Threads : Comes(d)' =>
         /\ call'[d].names = sess'.n /\ call'[d].req.directive \in used'
         /\ \A i \in DOMAIN wire' : Batch(i)' => wire'[i].req.directive # call'[d].req.directive
         /\ \A j \in DOMAIN typed' : typed'[j].directive # call'[d].req.directive
         /\ \A e \in Threads : Comes(e)' /\ call'[e].req.directive = call'[d].req.directive => d = e
    <3>1. \A d \in Threads : Comes(d) => \A j \in DOMAIN typed' : typed'[j].directive # call'[d].req.directive
      BY <1>w, <1>b DEF Keys
    <3>2. \A d \in Threads : Comes(d) => \A i \in DOMAIN wire' : Batch(i)' => wire'[i].req.directive # call'[d].req.directive
      BY <1>w, <2>1 DEF Keys
    <3> QED BY <3>1, <3>2 DEF Keys
  <2>6. KeysOnce'
    <3>1. \A i, j \in DOMAIN typed' : typed'[i].directive = typed'[j].directive => i = j
      BY <1>w, <1>b DEF Keys, KeysOnce
    <3>2. \A i \in DOMAIN typed' : typed'[i].names = sess'.n
      BY <1>w, <1>b DEF Keys, KeysOnce
    <3> QED BY <3>1, <3>2 DEF KeysOnce
  <2> QED BY <2>2, <2>3, <2>4, <2>5, <2>6 DEF Keys
<1>5. Distinct'
  <2>1. \A i, j \in DOMAIN wire' : wire'[i].id = wire'[j].id => i = j
    BY <1>w DEF Distinct
  <2>2. \A i \in DOMAIN wire' : wire'[i].id # wire[1].id
    BY <1>w DEF Distinct
  <2>3. \A i, j \in DOMAIN lines' :
         lines'[i].kind = "return" /\ lines'[j].kind = "return" /\ lines'[i].id = lines'[j].id => i = j
    BY <1>w, <1>l DEF Distinct
  <2>4. \A i \in DOMAIN wire', j \in DOMAIN lines' :
          lines'[j].kind = "return" => wire'[i].id # lines'[j].id
    BY <1>w, <1>l, <2>2 DEF Distinct
  <2>5. \A d \in Threads : Here(d) /\ call[d].pc = "writing" =>
         /\ \A i \in DOMAIN wire' : wire'[i].id # call[d].id
         /\ \A j \in DOMAIN lines' : lines'[j].kind = "return" => lines'[j].id # call[d].id
    BY <1>w, <1>l DEF Distinct
  <2> QED BY <2>1, <2>3, <2>4, <2>5 DEF Distinct
<1>6. Awaited'
  BY <1>l, <1>w DEF Awaited
<1>7. Stream'
  <2>1. Launch \in Threads /\ \A d \in Calls : d \in Threads
    BY DEF Threads
  <2> QED BY <1>l, <2>1 DEF Stream
<1>8. Verdict'
  <2>1. Announced => Announced'
    BY <1>l DEF Announced
  <2> QED BY <2>1 DEF Verdict
<1>9. OwnAnswer'
  BY DEF OwnAnswer
<1> QED BY <1>1, <1>2, <1>3, <1>4, <1>5, <1>6, <1>7, <1>8, <1>9

\* Other variables than those of the invariant.
LEMMA StillStep ==
    ASSUME IInv, UNCHANGED <<sess, call, qmp, wire, lines, qemu, typed, used, spoiled>>
    PROVE  IInv'
<1>h. /\ \A d : Here(d)' = Here(d) /\ Waits(d)' = Waits(d) /\ Comes(d)' = Comes(d)
                /\ Form(d)' = Form(d)
      /\ \A id, d : Has(d, id) <=> (Here(d)' /\ call'[d].id = id)
      /\ \A id : Expected(id)' = Expected(id)
      /\ \A i : Batch(i)' = Batch(i)
      /\ Published' = Published /\ Launches' = Launches /\ Announced' = Announced
  BY DEF Here, Waits, Comes, Form, Has, Published, Launches, Expected, Batch, Announced
<1>1. Types' /\ Forms' /\ OwnAnswer'
  BY <1>h DEF IInv, Types, Forms, OwnAnswer
<1>2. Ids'
  BY <1>h DEF IInv, Ids, Has
<1>3. Keys'
  BY <1>h DEF IInv, Keys, KeysOnce
<1>4. Distinct' /\ Awaited'
  BY <1>h DEF IInv, Distinct, Awaited
<1>5. Stream' /\ Verdict'
  BY <1>h DEF IInv, Stream, Verdict
<1> QED BY <1>1, <1>2, <1>3, <1>4, <1>5 DEF IInv

\* The verdict, and the end of the session.
LEMMA WaitStep ==
    ASSUME IInv, wait \/ waitReturns PROVE IInv'
<1>d. UNCHANGED <<call, qmp, wire, lines, qemu, typed, used, spoiled>> /\ ~sess.done
  BY DEF wait, waitReturns, qmpVars, envVars, fsVars
<1>s. sess'.n = sess.n /\ sess'.forced = sess.forced /\ DOMAIN sess' = DOMAIN sess
  BY DEF wait, waitReturns, IInv, Types
<1>h. /\ \A d : Here(d)' = Here(d) /\ Waits(d)' = Waits(d) /\ Comes(d)' = Comes(d)
                /\ Form(d)' = Form(d)
      /\ \A id, d : Has(d, id) <=> (Here(d)' /\ call'[d].id = id)
      /\ \A id : Expected(id)' = Expected(id)
      /\ \A i : Batch(i)' = Batch(i)
      /\ Published' = Published /\ Launches' = Launches /\ Announced' = Announced
  BY <1>d, <1>s DEF Here, Waits, Comes, Form, Has, Published, Launches, Expected, Batch, Announced
<1> USE <1>d, <1>s, <1>h DEF IInv
<1>1. Types' /\ Forms' /\ OwnAnswer'
  BY DEF Types, Forms, OwnAnswer
<1>2. Ids'
  BY DEF Ids, Has
<1>3. Keys'
  BY DEF Keys, KeysOnce
<1>4. Distinct' /\ Awaited'
  BY DEF Distinct, Awaited
<1>5. Stream'
  <2>1. ~Launches
    BY DEF wait, waitReturns, Stream, Published, Launches
  <2> QED BY <2>1 DEF Stream
<1>6. Verdict'
  <2>1. CASE wait
    <3>1. PICK recorded \in BOOLEAN :
            sess' = [sess EXCEPT
              !.unrecorded = ~recorded,
              !.phase = IF recorded /\ qemu.exit = "zero" /\ qmp.clean /\ ~sess.forced
                        THEN "stopped" ELSE "needs_recovery"]
      BY <2>1 DEF wait
    <3>2. /\ sess'.unrecorded = ~recorded /\ sess'.done = sess.done
          /\ sess'.phase = IF recorded /\ qemu.exit = "zero" /\ qmp.clean /\ ~sess.forced
                           THEN "stopped" ELSE "needs_recovery"
      BY <3>1 DEF Types
    <3>3. ~qemu.alive /\ ~Announced
      BY <2>1, EmptyFacts DEF wait, Drained, Stream, Announced
    <3>4. Published
      BY <2>1 DEF wait
    <3> QED BY <3>2, <3>3, <3>4 DEF Verdict
  <2>2. CASE waitReturns
    <3>1. /\ sess'.done /\ sess'.phase = sess.phase /\ sess'.unrecorded = sess.unrecorded
          /\ sess.phase \in {"stopped", "needs_recovery"}
      BY <2>2 DEF waitReturns, Types
    <3> QED BY <3>1 DEF Verdict
  <2> QED BY <2>1, <2>2
<1> QED BY <1>1, <1>2, <1>3, <1>4, <1>5, <1>6

\* A force stop that finds the session alive.
LEMMA ForceStep ==
    ASSUME IInv, NEW c \in Calls, force(c), ~sess.done PROVE IInv'
<1>d. UNCHANGED <<qmp, lines, typed, used, spoiled>> /\ wire' = <<>>
  BY DEF force, fsVars
<1>c. c \in Threads \ {Launch} /\ call[c].pc = "gate" /\ Here(c)
  BY Different DEF Threads, force
<1>q. /\ \A d \in Threads \ {c} : call'[d] = call[d]
      /\ DOMAIN call' = Threads /\ DOMAIN call'[c] = Fields /\ call'[c].pc = "dead"
      /\ \A d \in Threads :
           /\ call'[d].on = call[d].on /\ call'[d].id = call[d].id /\ call'[d].box = call[d].box
           /\ call'[d].req = call[d].req /\ call'[d].names = call[d].names
  <2>1. call' = [call EXCEPT ![c].pc = "dead"]
    BY DEF force, Goto
  <2>2. DOMAIN call = Threads /\ \A d \in Threads : DOMAIN call[d] = Fields
    BY DEF IInv, Types
  <2> QED BY <1>c, <2>1, <2>2 DEF Fields
<1>s. /\ sess'.n = sess.n /\ sess'.forced /\ sess'.done = sess.done /\ sess'.phase = sess.phase
      /\ DOMAIN sess' = DOMAIN sess
      /\ ~qemu'.alive /\ DOMAIN qemu' = DOMAIN qemu /\ qemu'.guest = qemu.guest
  BY DEF force, IInv, Types
<1>e. DOMAIN wire' = {} /\ wire' \in Seq(Commands)
  BY <1>d, EmptyFacts
<1>h. /\ \A d \in Threads : Here(d)' = Here(d) /\ (Waits(d)' => Waits(d)) /\ (Comes(d)' => Comes(d))
      /\ \A d \in Threads : Waits(d) => Waits(d)'
      /\ \A id : \A d \in Threads : Has(d, id) <=> (Here(d)' /\ call'[d].id = id)
      /\ \A id : Expected(id) => Expected(id)'
      /\ Published' = Published /\ Launches' = Launches /\ Announced' = Announced
  <2>1. \A d \in Threads : Here(d)' = Here(d)
    BY <1>q, <1>s DEF Here
  <2>2. \A d \in Threads : (Waits(d)' => Waits(d)) /\ (Comes(d)' => Comes(d)) /\ (Waits(d) => Waits(d)')
    BY <1>c, <1>d, <1>q, <1>s, <2>1 DEF Waits, Comes
  <2>3. \A id : Expected(id) => Expected(id)'
    BY <1>q, <2>2 DEF Expected
  <2>4. Published' = Published /\ Launches' = Launches
    BY <1>c, <1>q, <1>s DEF Published, Launches, Threads
  <2> QED BY <1>d, <1>q, <2>1, <2>2, <2>3, <2>4 DEF Has, Announced
<1> USE <1>d, <1>c, <1>q, <1>s, <1>e, <1>h DEF IInv
<1>1. Types'
  <2>1. \A d \in Threads : DOMAIN call'[d] = Fields
    BY DEF Types
  <2> QED BY <2>1 DEF Types
<1>2. Ids'
  BY DEF Ids, Has
<1>3. Forms'
  BY DEF Forms, Form
<1>4. Keys'
  BY DEF Keys, KeysOnce
<1>5. Distinct'
  BY DEF Distinct
<1>6. Awaited'
  BY DEF Awaited
<1>7. Stream'
  <2>1. Launch \in Threads /\ \A d \in Calls : d \in Threads
    BY DEF Threads
  <2>2. \A d \in Calls : call'[d].pc \notin {"new", "end"} => call[d].pc \notin {"new", "end"}
    BY <2>1
  <2> QED BY <2>1, <2>2 DEF Stream
<1>8. Verdict'
  BY DEF Verdict
<1>9. OwnAnswer'
  BY DEF OwnAnswer
<1> QED BY <1>1, <1>2, <1>3, <1>4, <1>5, <1>6, <1>7, <1>8, <1>9

\* A new session: nobody is in it yet but the launch.
LEMMA StartStep ==
    ASSUME IInv, startManagedVM PROVE IInv'
<1>l. Launch \in Threads /\ \A d \in Calls : d \in Threads /\ d # Launch
  BY Different DEF Threads
<1>s. /\ sess'.n = sess.n + 1 /\ sess.n \in Nat /\ ~sess'.done /\ sess'.phase = "starting"
      /\ DOMAIN sess' = {"n", "phase", "done", "forced", "unrecorded"}
      /\ DOMAIN qmp' = {"state", "clean", "next", "pending"}
      /\ qmp'.state = "greeting" /\ qmp'.next = 0 /\ qmp'.pending = {}
      /\ qemu'.alive /\ qemu'.guest = "up" /\ DOMAIN qemu' = {"alive", "exit", "guest"}
      /\ wire' = <<>> /\ lines' = <<>> /\ typed' = <<>>
  BY DEF startManagedVM, NoQemu, IInv, Types
<1>q. /\ \A d \in Threads \ {Launch} : call'[d] = call[d]
      /\ DOMAIN call' = Threads /\ DOMAIN call'[Launch] = Fields
      /\ call'[Launch].pc = "greeting" /\ call'[Launch].on = sess.n + 1
      /\ call'[Launch].id = 0 /\ ~call'[Launch].act /\ call'[Launch].box = NoReply
      /\ call'[Launch].req = NoRequest /\ call'[Launch].names = 0
  <2>1. call' = [call EXCEPT ![Launch] = [Idle EXCEPT !.pc = "greeting", !.on = sess.n + 1]]
    BY DEF startManagedVM, Put
  <2> QED BY <1>l, <2>1 DEF Idle, Fields, IInv, Types
<1>e. /\ DOMAIN wire' = {} /\ DOMAIN lines' = {} /\ DOMAIN typed' = {}
      /\ wire' \in Seq(Commands) /\ lines' \in Seq(Said) /\ typed' \in Seq(Batches)
  BY <1>s, EmptyFacts
<1>h. /\ \A d \in Threads : Here(d)' => d = Launch
      /\ Here(Launch)' /\ ~Published' /\ Launches'
  BY <1>l, <1>q, <1>s DEF IInv, Types, Here, Published, Launches
<1> USE <1>l, <1>s, <1>q, <1>e, <1>h DEF IInv
<1>1. Types'
  <2>1. NoRequest \in Asked
    BY DEF Asked
  <2>2. ASSUME NEW d \in Threads
        PROVE  /\ DOMAIN call'[d] = Fields
               /\ call'[d].on \in 0 .. sess'.n /\ call'[d].id \in Nat
               /\ call'[d].names \in Nat /\ call'[d].req \in Asked
    <3>1. CASE d = Launch
      BY <2>1, <3>1
    <3>2. CASE d # Launch
      BY <3>2 DEF Types
    <3> QED BY <3>1, <3>2
  <2> QED BY <2>2 DEF Types
<1>2. Ids'
  BY DEF Ids, Has
<1>3. Forms'
  BY DEF Forms, Form
<1>4. Keys'
  <2>1. \A d \in Threads : ~Comes(d)'
    BY DEF Comes
  <2> QED BY <2>1 DEF Keys, KeysOnce
<1>5. Distinct'
  BY DEF Distinct
<1>6. Awaited'
  BY DEF Awaited
<1>7. Stream'
  BY DEF Stream
<1>8. Verdict'
  BY DEF Verdict
<1>9. OwnAnswer'
  BY DEF OwnAnswer, NoReply
<1> QED BY <1>1, <1>2, <1>3, <1>4, <1>5, <1>6, <1>7, <1>8, <1>9

\* The launch has its answer: the VM runs.
LEMMA AdoptStep ==
    ASSUME IInv, Answered(Launch), Ended(Launch), sess' = [sess EXCEPT !.phase = "running"],
           UNCHANGED <<qmp, wire, lines, qemu, typed, used, spoiled>>
    PROVE  IInv'
<1>l. Launch \in Threads /\ \A d \in Calls : d \in Threads /\ d # Launch
  BY Different DEF Threads
<1>p. /\ Launches /\ sess.phase = "starting" /\ ~sess.done /\ Here(Launch) /\ sess.n > 0
      /\ ~Published /\ qemu.guest = "up" /\ call[Launch].pc # "failed"
  BY DEF Answered, connectFails, Launches, IInv, Stream, Published
<1>s. /\ sess'.n = sess.n /\ sess'.done = sess.done /\ sess'.phase = "running" /\ DOMAIN sess' = DOMAIN sess
      /\ ~Waits(Launch)
  BY DEF IInv, Types, Answered, Waits, NoReply
<1>q. /\ \A d \in Threads \ {Launch} : call'[d] = call[d]
      /\ DOMAIN call' = Threads /\ DOMAIN call'[Launch] = Fields
      /\ call'[Launch].pc = "end" /\ call'[Launch].on = 0
      /\ call'[Launch].id = 0 /\ ~call'[Launch].act /\ call'[Launch].box = NoReply
      /\ call'[Launch].req = NoRequest /\ call'[Launch].names = 0
  <2>1. call' = [call EXCEPT ![Launch] = [Idle EXCEPT !.pc = "end"]]
    BY DEF connectFails, Ended, Put
  <2> QED BY <1>l, <2>1 DEF Idle, Fields, IInv, Types
<1>h. /\ \A d \in Threads \ {Launch} :
           Here(d)' = Here(d) /\ Waits(d)' = Waits(d) /\ Comes(d)' = Comes(d)
      /\ ~Here(Launch)' /\ ~Comes(Launch)' /\ ~Comes(Launch) /\ Published' /\ ~Launches'
      /\ \A id : Expected(id) => Expected(id)'
  <2>1. \A d \in Threads \ {Launch} :
           Here(d)' = Here(d) /\ Waits(d)' = Waits(d) /\ Comes(d)' = Comes(d)
    BY <1>s, <1>q DEF Here, Waits, Comes
  <2>2. ~Here(Launch)' /\ ~Comes(Launch)' /\ ~Comes(Launch) /\ Published' /\ ~Launches'
    BY <1>p, <1>s, <1>q DEF Here, Comes, Published, Launches, IInv, Types
  <2>3. \A id : Expected(id) => Expected(id)'
    BY <1>q, <1>s, <2>1 DEF Expected
  <2> QED BY <2>1, <2>2, <2>3
<1> USE <1>l, <1>p, <1>s, <1>q, <1>h DEF IInv
<1>1. Types'
  <2>1. NoRequest \in Asked /\ 0 \in 0 .. sess.n
    BY DEF Asked, Types
  <2>2. ASSUME NEW d \in Threads
        PROVE  /\ DOMAIN call'[d] = Fields
               /\ call'[d].on \in 0 .. sess'.n /\ call'[d].id \in Nat
               /\ call'[d].names \in Nat /\ call'[d].req \in Asked
    <3>1. CASE d = Launch
      BY <2>1, <3>1
    <3>2. CASE d # Launch
      BY <3>2 DEF Types
    <3> QED BY <3>1, <3>2
  <2> QED BY <2>2 DEF Types
<1>2. Ids'
  <2>1. \A id : \A d \in Threads : Here(d)' /\ call'[d].id = id => d # Launch /\ Has(d, id)
    BY DEF Has
  <2>2. /\ qmp'.pending \subseteq 1 .. qmp'.next
        /\ \A d \in Threads : Here(d)' => call'[d].id <= qmp'.next
        /\ \A d \in Threads : call'[d].pc = "writing" /\ Here(d)' => call'[d].id # 0
    BY DEF Ids
  <2>3. \A d, e \in Threads : Here(e)' /\ call'[e].id # 0 /\ Has(d, call[e].id)' => d = e
    BY DEF Ids, Has
  <2> QED BY <2>1, <2>2, <2>3 DEF Ids, Has
<1>3. Forms'
  BY DEF Forms, Form
<1>4. Keys'
  <2>1. \A i : Batch(i)' = Batch(i)
    BY DEF Batch
  <2> QED BY <2>1 DEF Keys, KeysOnce
<1>5. Distinct'
  BY DEF Distinct
<1>6. Awaited'
  BY DEF Awaited
<1>7. Stream'
  <2>1. qmp.state # "greeting"
    BY DEF Stream, Answered
  <2> QED BY <2>1 DEF Stream
<1>8. Verdict'
  BY DEF Verdict
<1>9. OwnAnswer'
  BY DEF OwnAnswer, NoReply
<1> QED BY <1>1, <1>2, <1>3, <1>4, <1>5, <1>6, <1>7, <1>8, <1>9

\* The launch is given up, and its process killed.
LEMMA FailStep ==
    ASSUME IInv, connectFails
    PROVE  IInv'
<1>l. Launch \in Threads /\ \A d \in Calls : d \in Threads /\ d # Launch
  BY Different DEF Threads
<1>p. /\ Launches /\ sess.phase = "starting" /\ ~sess.done /\ Here(Launch) /\ sess.n > 0
      /\ ~Published /\ qemu.guest = "up" /\ call[Launch].pc # "failed"
  BY DEF Answered, connectFails, Launches, IInv, Stream, Published
<1>s. /\ UNCHANGED <<typed, used, spoiled>>
      /\ sess'.n = sess.n /\ DOMAIN sess' = DOMAIN sess
      /\ qmp'.state = "broken" /\ qmp'.pending = {} /\ qmp'.next = qmp.next /\ DOMAIN qmp' = DOMAIN qmp
      /\ wire' = <<>> /\ lines' = <<>>
      /\ ~qemu'.alive /\ DOMAIN qemu' = DOMAIN qemu
  BY DEF connectFails, fsVars, IInv, Types
<1>q. /\ \A d \in Threads \ {Launch} : call'[d] = call[d]
      /\ DOMAIN call' = Threads /\ DOMAIN call'[Launch] = Fields
      /\ call'[Launch].pc = "failed" /\ call'[Launch].on = 0
      /\ call'[Launch].id = 0 /\ ~call'[Launch].act /\ call'[Launch].box = NoReply
      /\ call'[Launch].req = NoRequest /\ call'[Launch].names = 0
  <2>1. call' = [call EXCEPT ![Launch] = [Idle EXCEPT !.pc = "failed"]]
    BY DEF connectFails, Ended, Put
  <2> QED BY <1>l, <2>1 DEF Idle, Fields, IInv, Types
<1>e. /\ DOMAIN wire' = {} /\ DOMAIN lines' = {}
      /\ wire' \in Seq(Commands) /\ lines' \in Seq(Said)
  BY <1>s, EmptyFacts
<1>h. /\ \A d \in Threads : Here(d)' => d \in Calls /\ Here(d) /\ call[d].pc \in {"new", "end"}
      /\ ~Published' /\ ~Launches'
      /\ \A d \in Threads : ~Comes(d)'
  <2>1. \A d \in Threads : Here(d)' => d \in Calls /\ Here(d)
    BY <1>p, <1>s, <1>q DEF Here, Threads, IInv, Types
  <2>2. \A d \in Calls : Here(d) => call[d].pc \in {"new", "end"}
    BY <1>p DEF IInv, Stream
  <2>3. ~Published' /\ ~Launches'
    BY <1>q DEF Published, Launches
  <2>4. \A d \in Threads : ~Comes(d)'
    BY <1>q, <2>1, <2>2 DEF Comes
  <2> QED BY <2>1, <2>2, <2>3, <2>4
<1> USE <1>l, <1>p, <1>s, <1>q, <1>e, <1>h DEF IInv
<1>1. Types'
  <2>1. NoRequest \in Asked /\ 0 \in 0 .. sess.n
    BY DEF Asked, Types
  <2>2. ASSUME NEW d \in Threads
        PROVE  /\ DOMAIN call'[d] = Fields
               /\ call'[d].on \in 0 .. sess'.n /\ call'[d].id \in Nat
               /\ call'[d].names \in Nat /\ call'[d].req \in Asked
    <3>1. CASE d = Launch
      BY <2>1, <3>1
    <3>2. CASE d # Launch
      BY <3>2 DEF Types
    <3> QED BY <3>1, <3>2
  <2> QED BY <2>2 DEF Types
<1>2. Ids'
  <2>1. \A d \in Threads : Here(d)' => call'[d] = call[d]
    OBVIOUS
  <2> QED BY <2>1 DEF Ids, Has
<1>3. Forms'
  BY DEF Forms, Form
<1>4. Keys'
  BY DEF Keys, KeysOnce
<1>5. Distinct'
  BY DEF Distinct
<1>6. Awaited'
  BY DEF Awaited
<1>7. Stream'
  BY DEF Stream
<1>8. Verdict'
  BY DEF Verdict
<1>9. OwnAnswer'
  BY DEF OwnAnswer, NoReply
<1> QED BY <1>1, <1>2, <1>3, <1>4, <1>5, <1>6, <1>7, <1>8, <1>9

\* A call joins the line at the gate of the session that runs.
LEMMA EnterStep ==
    ASSUME IInv, NEW c \in Calls, NEW req \in Asked, NEW names \in Nat, Enter(c, req, names)
    PROVE  IInv'
<1>l. Launch \in Threads /\ (\A d \in Calls : d \in Threads /\ d # Launch) /\ Published
      /\ call[c].pc = "new"
  BY Different DEF Threads, Enter
<1>d. UNCHANGED <<sess, qmp, wire, lines, qemu, typed, used, spoiled>>
  BY DEF Enter, qmpVars, envVars, fsVars
<1>q. /\ \A d \in Threads \ {c} : call'[d] = call[d]
      /\ DOMAIN call' = Threads /\ DOMAIN call'[c] = Fields
      /\ call'[c].pc = "gate" /\ call'[c].on = sess.n
      /\ call'[c].id = 0 /\ ~call'[c].act /\ call'[c].box = NoReply
      /\ call'[c].req = req /\ call'[c].names = names
  <2>1. call' = [call EXCEPT ![c] = [Idle EXCEPT !.pc = "gate", !.on = sess.n, !.req = req,
                                                 !.names = names]]
    BY DEF Enter, Put
  <2> QED BY <1>l, <2>1 DEF Idle, Fields, IInv, Types
<1>h. /\ \A d \in Threads \ {c} :
           Here(d)' = Here(d) /\ Waits(d)' = Waits(d) /\ Comes(d)' = Comes(d)
      /\ ~Comes(c)' /\ Published' /\ Launches' = Launches
      /\ \A id : Expected(id) => Expected(id)'
  <2>1. \A d \in Threads \ {c} :
           Here(d)' = Here(d) /\ Waits(d)' = Waits(d) /\ Comes(d)' = Comes(d)
    BY <1>d, <1>q DEF Here, Waits, Comes
  <2>2. ~Comes(c)' /\ Published' /\ Launches' = Launches /\ ~Waits(c)
    BY <1>l, <1>d, <1>q DEF Comes, Published, Launches, Waits
  <2>3. \A id : Expected(id) => Expected(id)'
    BY <1>q, <2>1, <2>2 DEF Expected
  <2> QED BY <2>1, <2>2, <2>3
<1> USE <1>l, <1>d, <1>q, <1>h DEF IInv
<1>1. Types'
  <2>1. sess.n \in 0 .. sess.n
    BY DEF Types
  <2>2. ASSUME NEW d \in Threads
        PROVE  /\ DOMAIN call'[d] = Fields
               /\ call'[d].on \in 0 .. sess'.n /\ call'[d].id \in Nat
               /\ call'[d].names \in Nat /\ call'[d].req \in Asked
    <3>1. CASE d = c
      BY <2>1, <3>1
    <3>2. CASE d # c
      BY <3>2 DEF Types
    <3> QED BY <3>1, <3>2
  <2> QED BY <2>2 DEF Types
<1>2. Ids'
  <2>1. \A id : \A d \in Threads : Here(d)' /\ call'[d].id = id /\ id # 0 => d # c /\ Has(d, id)
    BY DEF Has
  <2>2. /\ qmp'.pending \subseteq 1 .. qmp'.next
        /\ \A d \in Threads : call'[d].pc = "writing" /\ Here(d)' => call'[d].id # 0
    BY DEF Ids
  <2>3. \A d \in Threads : Here(d)' => call'[d].id <= qmp'.next
    BY DEF Ids, Types
  <2>4. \A d, e \in Threads : Here(e)' /\ call'[e].id # 0 /\ Has(d, call[e].id)' => d = e
    BY DEF Ids, Has
  <2>5. 0 \notin 1 .. qmp.next
    BY DEF Types
  <2>6. \A i \in DOMAIN wire' :
               /\ wire'[i].id \in 1 .. qmp'.next
               /\ \A d \in Threads : Has(d, wire[i].id)' => d = wire'[i].from
    BY <2>1, <2>5 DEF Ids, Has
  <2>7. \A i \in DOMAIN lines' : lines'[i].kind = "return" =>
         /\ lines'[i].id \in 1 .. qmp'.next
         /\ \A d \in Threads : Has(d, lines[i].id)' => d = lines'[i].of
    BY <2>1, <2>5 DEF Ids, Has
  <2> QED BY <2>2, <2>3, <2>4, <2>6, <2>7 DEF Ids
<1>3. Forms'
  BY DEF Forms, Form
<1>4. Keys'
  <2>1. \A i : Batch(i)' = Batch(i)
    BY DEF Batch
  <2>2. ~Comes(c)
    BY DEF Comes
  <2> QED BY <2>1, <2>2 DEF Keys, KeysOnce
<1>5. Distinct'
  BY DEF Distinct
<1>6. Awaited'
  BY DEF Awaited
<1>7. Stream'
  BY DEF Stream
<1>8. Verdict'
  BY DEF Verdict, Announced
<1>9. OwnAnswer'
  BY DEF OwnAnswer, NoReply
<1> QED BY <1>1, <1>2, <1>3, <1>4, <1>5, <1>6, <1>7, <1>8, <1>9

-----------------------------------------------------------------------------
(* Every action is one of these *)

LEMMA Begins == Init => IInv
<1> SUFFICES ASSUME Init PROVE IInv
  OBVIOUS
<1>l. Launch \in Threads /\ \A d \in Calls : d \in Threads /\ d # Launch
  BY Different DEF Threads
<1>q. /\ DOMAIN call = Threads
      /\ \A d \in Threads :
           /\ DOMAIN call[d] = Fields /\ call[d].pc = "new" /\ call[d].on = 0 /\ call[d].id = 0
           /\ ~call[d].act /\ call[d].box = NoReply /\ call[d].req = NoRequest /\ call[d].names = 0
  BY DEF Init, Idle, Fields
<1>s. /\ sess.n = 0 /\ DOMAIN sess = {"n", "phase", "done", "forced", "unrecorded"}
      /\ DOMAIN qmp = {"state", "clean", "next", "pending"}
      /\ qmp.state = "eof" /\ qmp.next = 0 /\ qmp.pending = {}
      /\ ~qemu.alive /\ qemu.guest = "up" /\ DOMAIN qemu = {"alive", "exit", "guest"}
      /\ wire = <<>> /\ lines = <<>> /\ typed = <<>>
  BY DEF Init, NoQemu
<1>e. /\ DOMAIN wire = {} /\ DOMAIN lines = {} /\ DOMAIN typed = {}
      /\ wire \in Seq(Commands) /\ lines \in Seq(Said) /\ typed \in Seq(Batches)
  BY <1>s, EmptyFacts
<1>h. ~Published /\ ~Launches /\ \A d \in Threads : ~Comes(d)
  BY <1>l, <1>q, <1>s DEF Published, Launches, Comes
<1> USE <1>l, <1>q, <1>s, <1>e, <1>h
<1>1. Types
  <2>1. NoRequest \in Asked /\ 0 \in 0 .. 0
    BY DEF Asked
  <2> QED BY <2>1 DEF Types
<1>2. Ids /\ Forms
  BY DEF Ids, Has, Forms, Form
<1>3. Keys /\ Distinct /\ Awaited
  BY DEF Keys, KeysOnce, Distinct, Awaited
<1>4. Stream /\ Verdict /\ OwnAnswer
  BY DEF Stream, Verdict, OwnAnswer, NoReply
<1> QED BY <1>1, <1>2, <1>3, <1>4 DEF IInv

\* A call that fails, and one whose request is registered or fails.
LEMMA FailsStep ==
    ASSUME IInv, NEW c \in Calls, Fails(c), Here(c), ~Waits(c), used \subseteq used',
           UNCHANGED <<sess, wire, lines, qemu, typed, spoiled>>
    PROVE  IInv'
<1>1. Quits(c)
  BY DEF Fails, Ended, Put, Quits
<1> QED BY <1>1, QuitStep

LEMMA AbandonsStep ==
    ASSUME IInv, NEW c \in Calls, Abandons(c), Here(c), wire' = wire \/ Sends(c), UNCHANGED lines
    PROVE  IInv'
<1>1. Quits(c)
  BY DEF Abandons, Fails, Ended, Put, Quits, Waits, envVars
<1> QED BY <1>1, QuitStep

LEMMA EndsStep ==
    ASSUME IInv, NEW c \in Calls, Ended(c), ~Waits(c),
           UNCHANGED <<sess, qmp, wire, lines, qemu, typed, used, spoiled>>
    PROVE  IInv'
<1>1. Quits(c)
  BY DEF Ended, Put, Quits
<1> QED BY <1>1, QuitStep

LEMMA RegisteredStep ==
    ASSUME IInv, NEW c \in Calls, NEW r, register(c, r), DOMAIN r = Fields,
           r.on = call[c].on, r.req = call[c].req, r.names = call[c].names,
           Here(c), ~Waits(c), used \subseteq used', call[c].pc \in {"gate", "wait"},
           call[c].req.action \in (IF r.act THEN {"mice", "keys", "capture"}
                                   ELSE Displays \union {"stop"}),
           call[c].req.action = "keys" =>
             \/ Comes(c)
             \/ (call[c].names = sess.n /\ call[c].req.directive \in used' \ used),
           \/ UNCHANGED sess
           \/ ~sess.done /\ sess' = [sess EXCEPT !.phase = "stopping"],
           UNCHANGED <<wire, lines, qemu, typed, spoiled>>
    PROVE  IInv'
<1>1. c \in Threads /\ c # Launch
  BY Different DEF Threads
<1>2. /\ DOMAIN call' = Threads /\ \A d \in Threads \ {c} : call'[d] = call[d]
      /\ DOMAIN call'[c] = Fields
      /\ call'[c].pc = "writing" /\ call'[c].id = qmp.next + 1 /\ call'[c].box = NoReply
      /\ call'[c].on = call[c].on /\ call'[c].req = call[c].req /\ call'[c].names = call[c].names
      /\ call'[c].act = r.act
  <2>1. call' = [call EXCEPT ![c] = [r EXCEPT !.pc = "writing", !.id = qmp.next + 1, !.box = NoReply]]
    BY DEF register, Put
  <2> QED BY <1>1, <2>1 DEF Fields, IInv, Types
<1>3. /\ qmp.state = "reading"
      /\ qmp' = [qmp EXCEPT !.next = @ + 1, !.pending = @ \union {qmp.next + 1}]
  BY DEF register
<1>4. Registers(c)
  BY <1>1, <1>2, <1>3 DEF Registers
<1> QED BY <1>1, <1>4, RegisterStep

\* The gate, and what is past it, is no request's wait.
LEMMA NotWaiting ==
    ASSUME NEW c
    PROVE  /\ call[c].pc \notin {"writing", "wait"} => ~Waits(c)
           /\ Answered(c) => ~Waits(c)
           /\ ~Here(c) => ~Waits(c)
<1>1. NoReply.value = "none"
  BY DEF NoReply
<1> QED BY <1>1 DEF Waits, Answered

\* A call's own fields, as it is registered again.
LEMMA ActFields ==
    ASSUME IInv, NEW c \in Calls
    PROVE  /\ DOMAIN call[c] = Fields /\ c \in Threads /\ c # Launch
           /\ \A room : LET r == [call[c] EXCEPT !.act = TRUE, !.room = room]
                        IN  /\ DOMAIN r = Fields /\ r.on = call[c].on /\ r.req = call[c].req
                            /\ r.names = call[c].names /\ r.act
           /\ LET r == [call[c] EXCEPT !.act = TRUE]
              IN  /\ DOMAIN r = Fields /\ r.on = call[c].on /\ r.req = call[c].req
                  /\ r.names = call[c].names /\ r.act
<1>1. DOMAIN call[c] = Fields /\ c \in Threads /\ c # Launch
  BY Different DEF Threads, IInv, Types
<1> QED BY <1>1 DEF Fields

-----------------------------------------------------------------------------

LEMMA StepKeeps ==
    ASSUME IInv, NEW c \in Calls, Step(c) PROVE IInv'
<1>f. /\ DOMAIN call[c] = Fields /\ c \in Threads /\ c # Launch
      /\ call[c].pc = "gate" => ~call[c].act
  BY ActFields DEF IInv, Forms, Form
<1>1. CASE AfterFunc(c)
  BY <1>1, StillStep DEF AfterFunc, envVars, fsVars
<1>2. CASE writeFails(c)
  <2>1. Abandons(c) /\ Here(c) /\ lines' = lines /\ (wire' = wire \/ Sends(c))
    BY <1>2 DEF writeFails, Sends
  <2> QED BY <2>1, AbandonsStep
<1>3. CASE replyFails(c)
  BY <1>3, AbandonsStep DEF replyFails
<1>4. CASE GateTimeout(c)
  BY <1>4, EndsStep, NotWaiting DEF GateTimeout, qmpVars, envVars, fsVars
<1>5. CASE outlived(c)
  BY <1>5, EndsStep, NotWaiting DEF outlived, qmpVars, envVars
<1>6. CASE stop(c)
  <2>1. /\ call[c].req.action = "stop" /\ call[c].pc = "gate" /\ Here(c) /\ ~Waits(c)
        /\ UNCHANGED <<wire, lines, qemu, typed, used, spoiled>>
    BY <1>6, NotWaiting DEF stop, envVars
  <2>2. CASE Fails(c) /\ UNCHANGED sess
    BY <2>1, <2>2, FailsStep
  <2>3. CASE register(c, call[c]) /\ ~sess.done /\ sess' = [sess EXCEPT !.phase = "stopping"]
    BY <1>f, <2>1, <2>3, RegisteredStep
  <2>4. CASE Fails(c) /\ ~sess.done /\ sess' = [sess EXCEPT !.phase = "stopping"]
    <3>1. Quits(c)
      BY <2>1, <2>4 DEF Fails, Ended, Put, Quits
    <3> QED BY <2>1, <3>1, QuitStep
  <2> QED BY <1>6, <2>2, <2>3, <2>4 DEF stop, request
<1>7. CASE stopAsked(c)
  <2>1. Goes(c, "shut")
    BY <1>7, NotWaiting DEF stopAsked, Goes, Goto, Answered, qmpVars, envVars, fsVars
  <2> QED BY <1>f, <2>1, GoStep
<1>8. CASE stopReturns(c)
  BY <1>8, EndsStep, NotWaiting DEF stopReturns, qmpVars, envVars, fsVars
<1>9. CASE force(c)
  <2>1. CASE sess.done
    <3>1. Ended(c) /\ UNCHANGED <<sess, qmp, wire, lines, qemu, typed, used, spoiled>> /\ ~Waits(c)
      BY <1>9, <2>1, NotWaiting DEF force, fsVars
    <3> QED BY <3>1, EndsStep
  <2>2. CASE ~sess.done
    BY <1>9, <2>2, ForceStep
  <2> QED BY <2>1, <2>2
<1>10. CASE forceReturns(c)
  BY <1>10, EndsStep, NotWaiting DEF forceReturns, qmpVars, envVars, fsVars
<1>11. CASE observeDisplay(c)
  <2>1. /\ call[c].req.action \in Displays /\ call[c].pc = "gate" /\ Here(c) /\ ~Waits(c)
        /\ UNCHANGED <<sess, wire, lines, qemu, typed, spoiled>>
    BY <1>11, NotWaiting DEF observeDisplay, envVars
  <2>2. CASE Fails(c) /\ used \subseteq used'
    BY <2>1, <2>2, FailsStep
  <2>3. CASE register(c, call[c]) /\ displayIdentity(c) /\ call[c].req.directive \notin used
             /\ used' = used \union Spent(c)
    <3>1. call[c].names = sess.n /\ call[c].req.directive \in used' \ used
      BY <2>3 DEF displayIdentity, Spent
    <3> QED BY <1>f, <2>1, <2>3, <3>1, RegisteredStep
  <2> QED BY <1>11, <2>2, <2>3 DEF observeDisplay, request
<1>12. CASE displayed(c)
  <2>1. /\ call[c].req.action \in Displays /\ call[c].pc = "wait" /\ Here(c) /\ ~Waits(c)
        /\ ~call[c].act
        /\ UNCHANGED <<sess, wire, lines, qemu, typed, used, spoiled>>
    BY <1>12, NotWaiting DEF displayed, Answered, envVars
  <2>2. CASE Goto(c, "final") /\ UNCHANGED qmp
    <3>1. Goes(c, "final")
      BY <2>1, <2>2 DEF Goes, Goto
    <3> QED BY <1>f, <3>1, GoStep
  <2>3. CASE Fails(c)
    BY <2>1, <2>3, FailsStep
  <2>4. CASE call[c].req.action \in {"mice", "keys"} /\ register(c, [call[c] EXCEPT !.act = TRUE])
    <3> DEFINE r == [call[c] EXCEPT !.act = TRUE]
    <3>1. /\ DOMAIN r = Fields /\ r.on = call[c].on /\ r.req = call[c].req
          /\ r.names = call[c].names /\ r.act
      BY ActFields
    <3>2. register(c, r)
      BY <2>4
    <3>3. call[c].req.action = "keys" => Comes(c)
      BY <1>f, <2>1 DEF Comes
    <3> HIDE DEF r
    <3> QED BY <2>1, <2>4, <3>1, <3>2, <3>3, RegisteredStep
  <2>5. CASE call[c].req.action = "capture"
             /\ register(c, [call[c] EXCEPT !.act = TRUE, !.room = BytesLimit - Retained])
    <3> DEFINE r == [call[c] EXCEPT !.act = TRUE, !.room = BytesLimit - Retained]
    <3>1. /\ DOMAIN r = Fields /\ r.on = call[c].on /\ r.req = call[c].req
          /\ r.names = call[c].names /\ r.act
      BY ActFields
    <3>2. register(c, r)
      BY <2>5
    <3> HIDE DEF r
    <3> QED BY <2>1, <2>5, <3>1, <3>2, RegisteredStep
  <2> QED BY <1>12, <2>2, <2>3, <2>4, <2>5 DEF displayed, request
<1>13. CASE captureDisplay(c)
  <2>1. /\ call[c].pc = "wait" /\ Here(c) /\ ~Waits(c)
        /\ UNCHANGED <<sess, wire, lines, qemu, typed, used, spoiled>>
    BY <1>13, NotWaiting DEF captureDisplay, Answered, envVars
  <2>2. CASE Goto(c, "final") /\ UNCHANGED qmp
    <3>1. Goes(c, "final")
      BY <2>1, <2>2 DEF Goes, Goto
    <3> QED BY <1>f, <3>1, GoStep
  <2>3. CASE Fails(c)
    BY <2>1, <2>3, FailsStep
  <2> QED BY <1>13, <2>2, <2>3 DEF captureDisplay
<1>14. CASE captureAbandoned(c)
  BY <1>14, EndsStep, NotWaiting DEF captureAbandoned, qmpVars, envVars
<1>15. CASE acted(c)
  <2>1. /\ call[c].pc = "wait" /\ Here(c) /\ ~Waits(c)
        /\ UNCHANGED <<sess, wire, lines, qemu, typed, used, spoiled>>
    BY <1>15, NotWaiting DEF acted, Answered, envVars
  <2>2. CASE Goto(c, "final") /\ UNCHANGED qmp
    <3>1. Goes(c, "final")
      BY <2>1, <2>2 DEF Goes, Goto
    <3> QED BY <1>f, <3>1, GoStep
  <2>3. CASE Fails(c)
    BY <2>1, <2>3, FailsStep
  <2> QED BY <1>15, <2>2, <2>3 DEF acted
<1>16. CASE observed(c)
  BY <1>16, EndsStep, NotWaiting DEF observed, qmpVars, envVars, fsVars
<1> QED BY <1>1, <1>2, <1>3, <1>4, <1>5, <1>6, <1>7, <1>8, <1>9, <1>10, <1>11, <1>12,
    <1>13, <1>14, <1>15, <1>16 DEF Step, Request

LEMMA WrittenKeeps ==
    ASSUME IInv, NEW c \in Threads, written(c) PROVE IInv'
<1>1. Sends(c) /\ lines' = lines
  BY DEF written, Sends
<1>2. CASE Goto(c, "wait") /\ UNCHANGED <<sess, qmp, envVars, fsVars, spoiled>>
  <2>1. Goes(c, "wait")
    BY <1>1, <1>2 DEF Goes, Goto, envVars, fsVars
  <2> QED BY <2>1, GoStep
<1>3. CASE c # Launch /\ Abandons(c)
  <2>1. c \in Calls /\ Here(c)
    BY <1>1, <1>3 DEF Threads, Sends
  <2> QED BY <1>1, <1>3, <2>1, AbandonsStep
<1> QED BY <1>2, <1>3 DEF written

LEMMA ReaderKeeps ==
    ASSUME IInv, Reader PROVE IInv'
<1>d. UNCHANGED <<sess, wire, qemu, typed, used, spoiled>>
  BY DEF Reader, read, readEOF, envVars, fsVars
<1>1. CASE readEOF
  BY <1>1, <1>d, EndStep DEF readEOF
<1>2. CASE read
  <2>1. /\ lines # <<>> /\ 1 \in DOMAIN lines /\ Head(lines) = lines[1]
        /\ qmp.state \in {"greeting", "reading"}
    BY <1>2, TailFacts DEF read, IInv, Types
  <2>2. CASE ReaderEnds("broken") /\ (\/ ~decodeQMPObject(Head(lines))
                                       \/ (qmp.state = "greeting") # (Head(lines).kind = "greeting")
                                       \/ /\ Head(lines).kind = "return"
                                          /\ waiterOf(Head(lines).id) = {})
    <3>1. ASSUME ~spoiled PROVE FALSE
      <4>1. lines[1].kind # "junk"
        BY <2>1, <3>1 DEF IInv, Awaited
      <4>2. (qmp.state = "greeting") <=> (lines[1].kind = "greeting")
        BY <2>1 DEF IInv, Stream
      <4>3. ASSUME lines[1].kind = "return" PROVE waiterOf(lines[1].id) # {}
        BY <2>1, <3>1, <4>3 DEF IInv, Awaited, Expected, Waits, waiterOf
      <4> QED BY <2>1, <2>2, <4>1, <4>2, <4>3 DEF decodeQMPObject
    <3> QED BY <1>d, <2>2, <3>1, EndStep
  <2>3. CASE /\ qmp.state = "greeting" /\ Head(lines).kind = "greeting"
             /\ lines' = Tail(lines)
             /\ qmp' = [qmp EXCEPT !.state = "reading"] /\ UNCHANGED call
    BY <1>d, <2>1, <2>3, PassStep
  <2>4. CASE /\ qmp.state = "reading" /\ Head(lines).kind = "SHUTDOWN"
             /\ lines' = Tail(lines)
             /\ qmp' = [qmp EXCEPT !.clean = @ \/ Head(lines).value = "guest-shutdown"]
             /\ UNCHANGED call
    BY <1>d, <2>1, <2>4, PassStep
  <2>5. CASE /\ qmp.state = "reading" /\ Head(lines).kind = "return"
             /\ lines' = Tail(lines)
             /\ \E c \in waiterOf(Head(lines).id) :
                  /\ call' = [call EXCEPT ![c].box = [of |-> Head(lines).of, id |-> Head(lines).id,
                                                     value |-> Head(lines).value]]
                  /\ qmp' = [qmp EXCEPT !.pending = @ \ {call[c].id}]
    BY <1>d, <2>1, <2>5, ReturnStep
  <2> QED BY <1>2, <2>2, <2>3, <2>4, <2>5 DEF read
<1> QED BY <1>1, <1>2 DEF Reader

LEMMA QemuKeeps ==
    ASSUME IInv, Greet \/ GuestPowersOff \/ QemuExits \/ Misspeak PROVE IInv'
<1>l. /\ Line("greeting", 0, "none", "none") \in Said
      /\ Line("SHUTDOWN", 0, "none", "guest-shutdown") \in Said
      /\ Line("SHUTDOWN", 0, "none", "host-ui") \in Said
      /\ Line("junk", 0, "none", "none") \in Said
  BY DEF Line, Said, Words
<1>k. /\ Line("greeting", 0, "none", "none").kind = "greeting"
      /\ Line("SHUTDOWN", 0, "none", "guest-shutdown").kind = "SHUTDOWN"
      /\ Line("SHUTDOWN", 0, "none", "guest-shutdown").value = "guest-shutdown"
      /\ Line("SHUTDOWN", 0, "none", "host-ui").kind = "SHUTDOWN"
      /\ Line("junk", 0, "none", "none").kind = "junk"
  BY DEF Line
<1>d. UNCHANGED <<sess, call, qmp, used>>
  BY DEF Greet, GuestPowersOff, QemuExits, Misspeak, qemuRest, fsVars
<1>p. Published => qmp.state # "greeting"
  BY DEF IInv, Stream, Published
<1>1. CASE Greet
  <2>1. /\ qemu.alive /\ lines = <<>> /\ qmp.state = "greeting"
        /\ Say(Line("greeting", 0, "none", "none"))
        /\ UNCHANGED <<wire, qemu, typed, spoiled>>
    BY <1>1 DEF Greet, envVars, qemuRest
  <2> QED BY <1>l, <1>k, <1>d, <2>1, EventStep
<1>2. CASE GuestPowersOff
  <2>1. /\ qemu.alive /\ Published /\ qemu' = [qemu EXCEPT !.guest = "down"]
        /\ Say(Line("SHUTDOWN", 0, "none", "guest-shutdown"))
        /\ UNCHANGED <<wire, typed, spoiled>>
    BY <1>2 DEF GuestPowersOff, qemuRest
  <2> QED BY <1>l, <1>k, <1>d, <1>p, <2>1, EventStep
<1>3. CASE QemuExits
  <2>1. qemu.alive /\ wire' = <<>> /\ UNCHANGED <<typed, spoiled>>
    BY <1>3 DEF QemuExits, qemuRest
  <2>2. \/ UNCHANGED lines
        \/ Published /\ Say(Line("SHUTDOWN", 0, "none", "host-ui"))
    BY <1>3 DEF QemuExits
  <2>3. \E x \in {"zero", "bad"} : qemu' = [qemu EXCEPT !.alive = FALSE, !.exit = x]
    BY <1>3 DEF QemuExits
  <2> QED BY <1>l, <1>k, <1>d, <1>p, <2>1, <2>2, <2>3, EventStep
<1>4. CASE Misspeak
  <2>1. /\ qemu.alive /\ wire # <<>> /\ wire' = Tail(wire) /\ spoiled'
        /\ Say(Line("junk", 0, "none", "none")) /\ UNCHANGED <<qemu, typed>>
    BY <1>4 DEF Misspeak
  <2>2. qmp.state # "greeting"
    BY <2>1 DEF IInv, Stream
  <2> QED BY <1>l, <1>k, <1>d, <2>1, <2>2, EventStep
<1> QED BY <1>1, <1>2, <1>3, <1>4

LEMMA CallingKeeps ==
    ASSUME IInv, Calling PROVE IInv'
<1>1. PICK i \in DOMAIN CallOrder :
        \/ \E action \in {"stop", "force"} : Enter(CallOrder[i], Plain(action), 0)
        \/ \E r \in Requests, n \in 1 .. sess.n : Enter(CallOrder[i], r, n)
  BY DEF Calling
<1>2. CallOrder[i] \in Calls
  BY DEF Calls
<1>3. CASE \E action \in {"stop", "force"} : Enter(CallOrder[i], Plain(action), 0)
  BY <1>2, <1>3, EnterStep DEF Asked
<1>4. CASE \E r \in Requests, n \in 1 .. sess.n : Enter(CallOrder[i], r, n)
  <2>1. PICK r \in Requests, n \in 1 .. sess.n : Enter(CallOrder[i], r, n)
    BY <1>4
  <2>2. r \in Asked /\ n \in Nat
    BY DEF Asked, IInv, Types
  <2> QED BY <1>2, <2>1, <2>2, EnterStep
<1> QED BY <1>1, <1>3, <1>4

LEMMA StarterKeeps ==
    ASSUME IInv, Starter PROVE IInv'
<1>1. CASE connectFails
  BY <1>1, FailStep
<1>2. CASE connectQMP
  <2>d. UNCHANGED <<wire, lines, qemu, typed, used, spoiled>>
    BY <1>2 DEF connectQMP, envVars, fsVars
  <2>l. Launch \in Threads
    BY DEF Threads
  <2>1. CASE call[Launch].pc = "greeting" /\ register(Launch, call[Launch]) /\ UNCHANGED sess
    <3>1. /\ Here(Launch) /\ ~Waits(Launch) /\ DOMAIN call[Launch] = Fields /\ DOMAIN call = Threads
      BY <2>l, <2>1, NotWaiting DEF IInv, Types, Stream, Launches
    <3>2. call' = [call EXCEPT ![Launch] =
                     [call[Launch] EXCEPT !.pc = "writing", !.id = qmp.next + 1, !.box = NoReply]]
      BY <2>1 DEF register, Put
    <3>3. /\ DOMAIN call' = Threads /\ \A d \in Threads \ {Launch} : call'[d] = call[d]
          /\ DOMAIN call'[Launch] = Fields
          /\ call'[Launch].pc = "writing" /\ call'[Launch].id = qmp.next + 1
          /\ call'[Launch].box = NoReply /\ call'[Launch].on = call[Launch].on
          /\ call'[Launch].req = call[Launch].req /\ call'[Launch].names = call[Launch].names
      BY <2>l, <3>1, <3>2 DEF Fields
    <3>4. Registers(Launch)
      BY <2>d, <2>1, <3>1, <3>3 DEF Registers, register
    <3> QED BY <2>l, <3>4, RegisterStep
  <2>2. CASE /\ Answered(Launch) /\ Ended(Launch)
             /\ sess' = [sess EXCEPT !.phase = "running"] /\ UNCHANGED qmp
    BY <2>d, <2>2, AdoptStep
  <2> QED BY <1>2, <2>1, <2>2 DEF connectQMP
<1> QED BY <1>1, <1>2 DEF Starter

LEMMA NextKeeps == IInv /\ [Next]_vars => IInv'
<1> SUFFICES ASSUME IInv, [Next]_vars PROVE IInv'
  OBVIOUS
<1>1. CASE \E c \in Calls : Step(c)
  BY <1>1, StepKeeps
<1>2. CASE \E c \in Threads : written(c)
  BY <1>2, WrittenKeeps
<1>3. CASE Reader
  BY <1>3, ReaderKeeps
<1>4. CASE Waiter
  BY <1>4, WaitStep DEF Waiter
<1>5. CASE Starter
  BY <1>5, StarterKeeps
<1>6. CASE closeInput
  BY <1>6, StillStep DEF closeInput, envVars, fsVars
<1>7. CASE Calling
  BY <1>7, CallingKeeps
<1>8. CASE startManagedVM
  BY <1>8, StartStep
<1>9. CASE Greet \/ GuestPowersOff \/ QemuExits \/ Misspeak
  BY <1>9, QemuKeeps
<1>10. CASE Serve
  BY <1>10, ServeStep
<1>11. CASE UNCHANGED vars
  BY <1>11, StillStep DEF vars, qmpVars, envVars, fsVars
<1> QED BY <1>1, <1>2, <1>3, <1>4, <1>5, <1>6, <1>7, <1>8, <1>9, <1>10, <1>11 DEF Next

-----------------------------------------------------------------------------
(* Sums over finite sets *)

Sum(f, S) == MapThenSumSet(LAMBDA d : f[d], S)

\* A set of subsets that holds the empty set, and every set whose parts it holds.
LEMMA AllSubsets ==
    ASSUME NEW T, IsFiniteSet(T), NEW Good \in SUBSET SUBSET T,
           \A s \in SUBSET T : (\A x \in s : s \ {x} \in Good) => s \in Good
    PROVE  Good = SUBSET T
<1> DEFINE Bad == (SUBSET T) \ Good
           sizes == {n \in Nat : \E s \in Bad : Cardinality(s) = n}
<1> SUFFICES ASSUME Bad # {} PROVE FALSE
  OBVIOUS
<1>1. \A s \in SUBSET T : IsFiniteSet(s) /\ Cardinality(s) \in Nat
  BY FS_Subset, FS_CardinalityType
<1>2. sizes # {} /\ sizes \subseteq Nat
  BY <1>1
<1>3. PICK n \in sizes : \A m \in sizes : ~ (<<m, n>> \in OpToRel(<, Nat))
  <2> HIDE DEF sizes
  <2> QED BY <1>2, WFMin, NatLessThanWellFounded
<1>4. PICK s \in Bad : Cardinality(s) = n
  BY <1>3
<1>5. ASSUME NEW x \in s PROVE s \ {x} \in Good
  <2>1. s \ {x} \in SUBSET T /\ Cardinality(s \ {x}) = n - 1
    BY <1>1, <1>4, <1>5, FS_RemoveElement
  <2>2. n - 1 \in Nat /\ n \in Nat
    BY <1>1, <2>1
  <2>3. <<n - 1, n>> \in OpToRel(<, Nat)
    BY <2>2 DEF OpToRel
  <2> QED BY <1>3, <2>1, <2>2, <2>3
<1> QED BY <1>4, <1>5

Pick(s) == CHOOSE x \in s : TRUE

\* The recursion of MapThenSumSet, on the sets in D.
Recursion(g, f, D) ==
    g = [s \in D |-> IF s = {} THEN 0 ELSE f[Pick(s)] + g[s \ {Pick(s)}]]

LEMMA RecursionFacts ==
    ASSUME NEW D, NEW f, NEW g
    PROVE  Recursion(g, f, D) =>
             \A s \in D : g[s] = IF s = {} THEN 0 ELSE f[Pick(s)] + g[s \ {Pick(s)}]
<1> SUFFICES ASSUME Recursion(g, f, D), NEW s \in D
             PROVE  g[s] = IF s = {} THEN 0 ELSE f[Pick(s)] + g[s \ {Pick(s)}]
  OBVIOUS
<1> DEFINE r(x) == IF x = {} THEN 0 ELSE f[Pick(x)] + g[x \ {Pick(x)}]
<1>1. g = [x \in D |-> r(x)]
  BY DEF Recursion
<1> HIDE DEF r
<1>2. g[s] = r(s)
  BY <1>1
<1> QED BY <1>2 DEF r

LEMMA RecursionExists ==
    ASSUME NEW T, IsFiniteSet(T), NEW f
    PROVE  \E g : Recursion(g, f, SUBSET T)
<1> DEFINE Level(n) == {s \in SUBSET T : Cardinality(s) <= n}
           bad == {n \in Nat : \A g : ~Recursion(g, f, Level(n))}
<1>1. /\ IsFiniteSet({}) /\ Cardinality({}) = 0
      /\ \A s \in SUBSET T : /\ IsFiniteSet(s) /\ Cardinality(s) \in Nat
                             /\ Cardinality(s) <= Cardinality(T)
                             /\ Cardinality(s) = 0 => s = {}
                             /\ \A x \in s : /\ s \ {x} \in SUBSET T
                                             /\ Cardinality(s \ {x}) = Cardinality(s) - 1
  BY FS_Subset, FS_CardinalityType, FS_EmptySet, FS_RemoveElement
<1>2. 0 \notin bad
  <2>1. \A s : s \in Level(0) <=> s = {}
    BY <1>1
  <2> DEFINE g == [s \in Level(0) |-> 0]
             h == [s \in Level(0) |-> IF s = {} THEN 0 ELSE f[Pick(s)] + g[s \ {Pick(s)}]]
  <2>2. g = h
    <3> HIDE DEF Level
    <3> QED BY <2>1
  <2>3. Recursion(g, f, Level(0))
    BY <2>2 DEF Recursion
  <2> HIDE DEF g
  <2> QED BY <2>3
<1>3. ASSUME NEW n \in Nat, n \notin bad PROVE n + 1 \notin bad
  <2>1. PICK g : Recursion(g, f, Level(n))
    BY <1>3
  <2> DEFINE h == [s \in Level(n + 1) |->
                     IF s = {} THEN 0 ELSE f[Pick(s)] + g[s \ {Pick(s)}]]
  <2>2. ASSUME NEW s \in Level(n + 1), s # {}
        PROVE  s \ {Pick(s)} \in Level(n)
    <3>1. Pick(s) \in s
      BY <2>2 DEF Pick
    <3> QED BY <1>1, <2>2, <3>1
  <2>3. ASSUME NEW s \in Level(n) PROVE s \in Level(n + 1) /\ h[s] = g[s]
    <3>1. s \in Level(n + 1)
      BY <1>1, <2>3
    <3>2. g[s] = IF s = {} THEN 0 ELSE f[Pick(s)] + g[s \ {Pick(s)}]
      <4> HIDE DEF Level
      <4> QED BY <2>1, <2>3, RecursionFacts
    <3> HIDE DEF Level
    <3> QED BY <3>1, <3>2
  <2>4. h = [s \in Level(n + 1) |-> IF s = {} THEN 0 ELSE f[Pick(s)] + h[s \ {Pick(s)}]]
    <3>1. ASSUME NEW s \in Level(n + 1)
          PROVE  (IF s = {} THEN 0 ELSE f[Pick(s)] + g[s \ {Pick(s)}])
                   = IF s = {} THEN 0 ELSE f[Pick(s)] + h[s \ {Pick(s)}]
      <4> HIDE DEF Level, h
      <4> QED BY <2>2, <2>3
    <3> HIDE DEF Level
    <3> QED BY <3>1
  <2>5. Recursion(h, f, Level(n + 1))
    BY <2>4 DEF Recursion
  <2> HIDE DEF h
  <2> QED BY <2>5
<1>4. bad = {}
  <2> SUFFICES ASSUME bad # {} PROVE FALSE
    OBVIOUS
  <2>1. PICK n \in bad : \A m \in bad : ~ (<<m, n>> \in OpToRel(<, Nat))
    <3>1. bad \subseteq Nat
      OBVIOUS
    <3> HIDE DEF bad
    <3> QED BY <3>1, WFMin, NatLessThanWellFounded
  <2>2. n \in Nat /\ n # 0
    BY <1>2
  <2>3. n - 1 \in Nat /\ (n - 1) + 1 = n
    BY <2>2
  <2>4. <<n - 1, n>> \in OpToRel(<, Nat)
    BY <2>2, <2>3 DEF OpToRel
  <2> HIDE DEF bad
  <2> QED BY <1>3, <2>1, <2>3, <2>4
<1>5. Cardinality(T) \in Nat /\ Level(Cardinality(T)) = SUBSET T
  <2>1. T \in SUBSET T
    OBVIOUS
  <2> QED BY <1>1, <2>1
<1>6. PICK g : Recursion(g, f, Level(Cardinality(T)))
  <2>1. Cardinality(T) \notin bad
    BY <1>4
  <2> QED BY <1>5, <2>1
<1> QED BY <1>5, <1>6

\* The function that sums the values f of every subset of T.
Sums(g, f, T) == Recursion(g, f, SUBSET T)

LEMMA SumsFacts ==
    ASSUME NEW T, NEW f, NEW g, Sums(g, f, T), NEW s, s \subseteq T
    PROVE  g[s] = IF s = {} THEN 0 ELSE f[Pick(s)] + g[s \ {Pick(s)}]
<1> DEFINE D == SUBSET T
<1>1. s \in D /\ Recursion(g, f, D)
  BY DEF Sums
<1> HIDE DEF D
<1> QED BY <1>1, RecursionFacts

LEMMA SumIsRecursion ==
    ASSUME NEW T, IsFiniteSet(T), NEW f
    PROVE  \E g : Sums(g, f, T) /\ Sum(f, T) = g[T]
<1> USE DEF Sums
<1> DEFINE iter == CHOOSE g : Recursion(g, f, SUBSET T)
<1>1. Recursion(iter, f, SUBSET T)
  BY RecursionExists
<1>2. Sum(f, T) = iter[T]
  BY DEF Sum, MapThenSumSet, MapThenFoldSet, Pick, Recursion
<1> HIDE DEF iter
<1> QED BY <1>1, <1>2

\* Two recursions over values that agree are one where both are defined.
LEMMA SameRecursion ==
    ASSUME NEW T, IsFiniteSet(T), NEW S \in SUBSET T, NEW f, NEW f2, NEW g, NEW g2,
           Sums(g, f, T), Sums(g2, f2, S), \A x \in S : f[x] = f2[x]
    PROVE  g[S] = g2[S]
<1> DEFINE Good == {s \in SUBSET S : g[s] = g2[s]}
<1>1. ASSUME NEW s \in SUBSET S, \A x \in s : s \ {x} \in Good PROVE s \in Good
  <2>1. /\ g[s] = IF s = {} THEN 0 ELSE f[Pick(s)] + g[s \ {Pick(s)}]
        /\ g2[s] = IF s = {} THEN 0 ELSE f2[Pick(s)] + g2[s \ {Pick(s)}]
    <3>1. s \subseteq S /\ s \subseteq T
      OBVIOUS
    <3>2. g[s] = IF s = {} THEN 0 ELSE f[Pick(s)] + g[s \ {Pick(s)}]
      BY <3>1, SumsFacts
    <3>3. g2[s] = IF s = {} THEN 0 ELSE f2[Pick(s)] + g2[s \ {Pick(s)}]
      BY <3>1, SumsFacts
    <3> QED BY <3>2, <3>3
  <2>2. s # {} => Pick(s) \in s
    BY DEF Pick
  <2>3. s # {} => g[s \ {Pick(s)}] = g2[s \ {Pick(s)}] /\ f[Pick(s)] = f2[Pick(s)]
    BY <1>1, <2>2
  <2> QED BY <2>1, <2>3
<1>2. IsFiniteSet(S) /\ Good \in SUBSET SUBSET S
  BY FS_Subset
<1>3. Good = SUBSET S
  <2> HIDE DEF Good
  <2> QED BY <1>1, <1>2, AllSubsets
<1> QED BY <1>3

LEMMA SumStep ==
    ASSUME NEW T, IsFiniteSet(T), NEW f
    PROVE  Sum(f, T) = IF T = {} THEN 0 ELSE f[Pick(T)] + Sum(f, T \ {Pick(T)})
<1> DEFINE S == T \ {Pick(T)}
<1>1. PICK g : Sums(g, f, T) /\ Sum(f, T) = g[T]
  BY SumIsRecursion
<1>2. IsFiniteSet(S) /\ S \in SUBSET T
  BY FS_Subset
<1>3. PICK h : Sums(h, f, S) /\ Sum(f, S) = h[S]
  BY <1>2, SumIsRecursion
<1>4. g[S] = h[S]
  <2>1. \A x \in S : f[x] = f[x]
    OBVIOUS
  <2> HIDE DEF S
  <2> QED BY <1>1, <1>2, <1>3, <2>1, SameRecursion
<1>5. g[T] = IF T = {} THEN 0 ELSE f[Pick(T)] + g[S]
  <2>1. T \in SUBSET T
    OBVIOUS
  <2> QED BY <1>1, <2>1, SumsFacts
<1> QED BY <1>1, <1>3, <1>4, <1>5

LEMMA SumAgrees ==
    ASSUME NEW T, IsFiniteSet(T), NEW f, NEW g, \A x \in T : f[x] = g[x]
    PROVE  Sum(f, T) = Sum(g, T)
<1>1. PICK r : Sums(r, f, T) /\ Sum(f, T) = r[T]
  BY SumIsRecursion
<1>2. PICK s : Sums(s, g, T) /\ Sum(g, T) = s[T]
  BY SumIsRecursion
<1>3. T \in SUBSET T
  OBVIOUS
<1> QED BY <1>1, <1>2, <1>3, SameRecursion

LEMMA SumIsNat ==
    ASSUME NEW T, IsFiniteSet(T), NEW f, \A x \in T : f[x] \in Nat
    PROVE  Sum(f, T) \in Nat
<1> DEFINE Good == {s \in SUBSET T : Sum(f, s) \in Nat}
<1>1. ASSUME NEW s \in SUBSET T, \A x \in s : s \ {x} \in Good PROVE s \in Good
  <2>1. Sum(f, s) = IF s = {} THEN 0 ELSE f[Pick(s)] + Sum(f, s \ {Pick(s)})
    BY FS_Subset, SumStep
  <2>2. s # {} => Pick(s) \in s
    BY DEF Pick
  <2>3. s # {} => f[Pick(s)] \in Nat /\ Sum(f, s \ {Pick(s)}) \in Nat
    BY <1>1, <2>2
  <2> QED BY <2>1, <2>3
<1>2. Good \in SUBSET SUBSET T
  OBVIOUS
<1>3. Good = SUBSET T
  <2> HIDE DEF Good
  <2> QED BY <1>1, <1>2, AllSubsets
<1> QED BY <1>3

\* Whichever element is taken out first.
LEMMA SumAdds ==
    ASSUME NEW T, IsFiniteSet(T), NEW f, \A x \in T : f[x] \in Nat
    PROVE  Sum(f, T) \in Nat /\ \A x \in T : Sum(f, T) = f[x] + Sum(f, T \ {x})
<1> DEFINE Adds(s) == \A x \in s : Sum(f, s) = f[x] + Sum(f, s \ {x})
           Good == {s \in SUBSET T : Adds(s)}
<1>n. \A s \in SUBSET T : Sum(f, s) \in Nat
  BY FS_Subset, SumIsNat
<1>1. ASSUME NEW s \in SUBSET T, \A x \in s : s \ {x} \in Good PROVE s \in Good
  <2>1. IsFiniteSet(s)
    BY FS_Subset
  <2>2. Sum(f, s) = IF s = {} THEN 0 ELSE f[Pick(s)] + Sum(f, s \ {Pick(s)})
    BY <2>1, SumStep
  <2>3. CASE s = {}
    BY <2>2, <2>3
  <2>4. CASE s # {}
    <3> DEFINE y == Pick(s)
    <3>1. y \in s
      BY <2>4 DEF Pick
    <3> HIDE DEF y
    <3>2. Sum(f, s) = f[y] + Sum(f, s \ {y}) /\ f[y] \in Nat /\ Sum(f, s \ {y}) \in Nat
      BY <1>n, <2>2, <2>4, <3>1 DEF y
    <3>3. ASSUME NEW x \in s, x # y PROVE Sum(f, s) = f[x] + Sum(f, s \ {x})
      <4>1. Sum(f, s \ {y}) = f[x] + Sum(f, (s \ {y}) \ {x})
        BY <1>1, <3>1, <3>3
      <4>2. Sum(f, s \ {x}) = f[y] + Sum(f, (s \ {x}) \ {y})
        BY <1>1, <3>1, <3>3
      <4>3. (s \ {x}) \ {y} = (s \ {y}) \ {x}
        OBVIOUS
      <4>4. (s \ {y}) \ {x} \in SUBSET T /\ Sum(f, (s \ {y}) \ {x}) \in Nat /\ f[x] \in Nat
        <5>1. (s \ {y}) \ {x} \in SUBSET T
          OBVIOUS
        <5> QED BY <1>n, <5>1
      <4>5. Sum(f, (s \ {x}) \ {y}) = Sum(f, (s \ {y}) \ {x})
        BY <4>3
      <4> HIDE DEF Good, Adds
      <4> QED BY <3>2, <4>1, <4>2, <4>4, <4>5
    <3> QED BY <3>2, <3>3
  <2> QED BY <2>3, <2>4
<1>2. Good \in SUBSET SUBSET T
  OBVIOUS
<1>3. Good = SUBSET T
  <2> HIDE DEF Good
  <2> QED BY <1>1, <1>2, AllSubsets
<1> QED BY <1>n, <1>3

LEMMA SumGrows ==
    ASSUME NEW T, IsFiniteSet(T), NEW f, \A x \in T : f[x] \in Nat, NEW S \in SUBSET T
    PROVE  Sum(f, S) <= Sum(f, T)
<1> DEFINE Good == {s \in SUBSET T : Sum(f, s \cap S) <= Sum(f, s)}
<1>s. \A s \in SUBSET T : /\ IsFiniteSet(s) /\ Sum(f, s) \in Nat
                          /\ \A x \in s : Sum(f, s) = f[x] + Sum(f, s \ {x})
  BY FS_Subset, SumAdds
<1>1. ASSUME NEW s \in SUBSET T, \A x \in s : s \ {x} \in Good PROVE s \in Good
  <2>1. CASE s \subseteq S
    <3>1. s \cap S = s
      BY <2>1
    <3>2. Sum(f, s) <= Sum(f, s)
      BY <1>s
    <3> QED BY <3>1, <3>2
  <2>2. CASE ~(s \subseteq S)
    <3>1. PICK x \in s : x \notin S
      BY <2>2
    <3>2. (s \ {x}) \cap S = s \cap S
      BY <3>1
    <3>3. s \cap S \in SUBSET T /\ s \ {x} \in SUBSET T
      OBVIOUS
    <3>4. Sum(f, s \cap S) <= Sum(f, s \ {x})
      BY <1>1, <3>1, <3>2
    <3>5. /\ Sum(f, s \cap S) \in Nat /\ Sum(f, s \ {x}) \in Nat /\ f[x] \in Nat
          /\ Sum(f, s) = f[x] + Sum(f, s \ {x})
      BY <1>s, <3>1, <3>3
    <3>6. Sum(f, s \cap S) <= Sum(f, s)
      BY <3>4, <3>5
    <3> QED BY <3>6
  <2> QED BY <2>1, <2>2
<1>2. Good \in SUBSET SUBSET T
  OBVIOUS
<1>3. Good = SUBSET T
  <2> HIDE DEF Good
  <2> QED BY <1>1, <1>2, AllSubsets
<1>4. T \cap S = S /\ T \in SUBSET T
  OBVIOUS
<1> QED BY <1>3, <1>4

LEMMA SumOfOnes ==
    ASSUME NEW T, IsFiniteSet(T), NEW f, \A x \in T : f[x] = 1
    PROVE  Sum(f, T) = Cardinality(T)
<1> DEFINE Good == {s \in SUBSET T : Sum(f, s) = Cardinality(s)}
<1>1. ASSUME NEW s \in SUBSET T, \A x \in s : s \ {x} \in Good PROVE s \in Good
  <2>1. IsFiniteSet(s) /\ Cardinality(s) \in Nat
    BY FS_Subset, FS_CardinalityType
  <2>2. Sum(f, s) = IF s = {} THEN 0 ELSE f[Pick(s)] + Sum(f, s \ {Pick(s)})
    BY <2>1, SumStep
  <2>3. CASE s = {}
    BY <2>2, <2>3, FS_EmptySet
  <2>4. CASE s # {}
    <3>1. Pick(s) \in s
      BY <2>4 DEF Pick
    <3>2. Cardinality(s \ {Pick(s)}) = Cardinality(s) - 1
      BY <2>1, <3>1, FS_RemoveElement
    <3>3. Sum(f, s \ {Pick(s)}) = Cardinality(s) - 1 /\ f[Pick(s)] = 1
      BY <1>1, <3>1, <3>2
    <3> QED BY <2>1, <2>2, <2>4, <3>3
  <2> QED BY <2>3, <2>4
<1>2. Good \in SUBSET SUBSET T
  OBVIOUS
<1>3. Good = SUBSET T
  <2> HIDE DEF Good
  <2> QED BY <1>1, <1>2, AllSubsets
<1> QED BY <1>3

-----------------------------------------------------------------------------
(* The captures *)

\* A capture under way: its directory was made, and its frame is not judged yet.
Capturing(c) ==
    /\ c \in Calls /\ call[c].act /\ call[c].req.action = "capture"
    /\ call[c].pc \in {"writing", "wait"}

\* QEMU has yet to read its screendump.
Dump(i) == wire[i].kind = "screendump"
Dumping(c) == \E i \in DOMAIN wire : Dump(i) /\ wire[i].from = c

\* The captures that are, or may still be, kept.
Promised == kept \union {c \in DOMAIN captures : Capturing(c)}

Shape ==
    /\ IsFiniteSet(DOMAIN captures) /\ Cardinality(DOMAIN captures) <= CountLimit
    /\ \A d \in DOMAIN captures : captures[d] \in Nat
    /\ kept \subseteq DOMAIN captures /\ \A d \in kept : captures[d] # 0
    /\ \A d, e \in DOMAIN captures : captures[d] = 0 /\ captures[e] = 0 => d = e

Owned(c) ==
    /\ Capturing(c) =>
         /\ call[c].room \in Nat /\ c \notin kept
         /\ call[c].pc = "writing" /\ c \in DOMAIN captures => captures[c] = 0
    /\ c \in DOMAIN captures => Capturing(c) \/ call[c].pc \in {"final", "end"}
    /\ Dumping(c) =>
         /\ call[c].pc = "end" \/ (Capturing(c) /\ call[c].pc = "wait")
         /\ c \in DOMAIN captures => captures[c] = 0

Dumps ==
    /\ \A i \in DOMAIN wire : Dump(i) => wire[i].from \in Calls
    /\ \A i, j \in DOMAIN wire : Dump(i) /\ Dump(j) /\ wire[i].from = wire[j].from => i = j

\* What is promised is within the budget, but for one frame that still has to be held
\* against the room it was given.
Fits(c) == Sum(captures, Promised \ {c}) + call[c].room <= BytesLimit

Budget ==
    /\ Sum(captures, Promised) <= BytesLimit \/ \E c \in Promised \ kept : Fits(c)
    /\ \A c \in Promised \ kept : captures[c] = 0 => Fits(c)

CapInv == Shape /\ (\A c \in Calls : Owned(c)) /\ Dumps /\ Budget

LEMMA Limits ==
    /\ BytesLimit \in Nat /\ CountLimit \in Nat /\ Frames \subseteq Nat
    /\ IsFiniteSet(Old) /\ Calls \cap Old = {} /\ Launch \notin Calls
    /\ Cardinality(Old) <= CountLimit /\ Cardinality(Old) <= BytesLimit
BY ControlAssumption

LEMMA PromisedFacts ==
    ASSUME CapInv
    PROVE  /\ IsFiniteSet(Promised) /\ Promised \subseteq DOMAIN captures
           /\ \A S \in SUBSET DOMAIN captures :
                /\ IsFiniteSet(S) /\ Sum(captures, S) \in Nat
                /\ \A x \in S : Sum(captures, S) = captures[x] + Sum(captures, S \ {x})
                /\ \A R \in SUBSET S : Sum(captures, R) <= Sum(captures, S)
           /\ \A c \in Promised \ kept : Capturing(c) /\ c \in Calls /\ call[c].room \in Nat
<1>1. Promised \subseteq DOMAIN captures
  BY DEF CapInv, Shape, Promised
<1>2. ASSUME NEW S \in SUBSET DOMAIN captures
      PROVE  /\ IsFiniteSet(S) /\ Sum(captures, S) \in Nat
             /\ \A x \in S : Sum(captures, S) = captures[x] + Sum(captures, S \ {x})
             /\ \A R \in SUBSET S : Sum(captures, R) <= Sum(captures, S)
  <2>1. IsFiniteSet(S) /\ \A x \in S : captures[x] \in Nat
    BY FS_Subset DEF CapInv, Shape
  <2> QED BY <2>1, SumAdds, SumGrows
<1>3. \A c \in Promised \ kept : Capturing(c) /\ c \in Calls /\ call[c].room \in Nat
  BY DEF CapInv, Owned, Promised, Capturing
<1> QED BY <1>1, <1>2, <1>3

\* Nothing new is promised, and what is newly kept fits in its room.
LEMMA BudgetStep ==
    ASSUME CapInv, Promised' \subseteq Promised, kept \subseteq kept',
           \A c \in Promised' : captures'[c] = captures[c],
           \A c \in Promised' \ kept' : call'[c].room = call[c].room,
           \A c \in kept' \ kept : c \in Promised /\ captures[c] <= call[c].room
    PROVE  Budget'
<1>1. /\ IsFiniteSet(Promised) /\ Promised \subseteq DOMAIN captures
      /\ \A S \in SUBSET DOMAIN captures :
           /\ IsFiniteSet(S) /\ Sum(captures, S) \in Nat
           /\ \A x \in S : Sum(captures, S) = captures[x] + Sum(captures, S \ {x})
           /\ \A R \in SUBSET S : Sum(captures, R) <= Sum(captures, S)
      /\ \A c \in Promised \ kept : Capturing(c) /\ c \in Calls /\ call[c].room \in Nat
  BY PromisedFacts
<1>2. ASSUME NEW S \in SUBSET Promised' PROVE Sum(captures', S) = Sum(captures, S)
  <2>1. IsFiniteSet(S) /\ \A x \in S : captures'[x] = captures[x]
    BY <1>1
  <2> QED BY <2>1, SumAgrees
<1>3. ASSUME NEW c \in Promised' \ kept', Fits(c) PROVE Fits(c)'
  <2>1. Sum(captures', Promised' \ {c}) = Sum(captures, Promised' \ {c})
    BY <1>2
  <2>2. Promised' \ {c} \in SUBSET (Promised \ {c}) /\ Promised \ {c} \in SUBSET DOMAIN captures
    BY <1>1
  <2>3. Sum(captures, Promised' \ {c}) <= Sum(captures, Promised \ {c})
    BY <1>1, <2>2
  <2>4. Sum(captures, Promised' \ {c}) \in Nat /\ Sum(captures, Promised \ {c}) \in Nat
    BY <1>1, <2>2
  <2>5. call'[c].room = call[c].room /\ call[c].room \in Nat
    BY <1>1, <1>3
  <2> QED BY <1>3, <2>1, <2>3, <2>4, <2>5, Limits DEF Fits
<1>4. \A c \in Promised' \ kept' : captures'[c] = 0 => Fits(c)'
  BY <1>3 DEF CapInv, Budget
<1>5. Sum(captures', Promised') <= BytesLimit \/ \E c \in Promised' \ kept' : Fits(c)'
  <2>1. /\ Sum(captures', Promised') = Sum(captures, Promised')
        /\ Sum(captures, Promised') \in Nat
    <3>1. Promised' \in SUBSET Promised' /\ Promised' \in SUBSET DOMAIN captures
      BY <1>1
    <3> QED BY <1>1, <1>2, <3>1
  <2>2. Sum(captures, Promised) \in Nat /\ Sum(captures, Promised') <= Sum(captures, Promised)
    BY <1>1
  <2>3. CASE Sum(captures, Promised) <= BytesLimit
    BY <2>1, <2>2, <2>3, Limits
  <2>4. ASSUME NEW c \in Promised \ kept, Fits(c)
        PROVE  Sum(captures', Promised') <= BytesLimit \/ (Fits(c)' /\ c \in Promised' \ kept')
    <3>s. /\ Sum(captures, Promised \ {c}) \in Nat /\ call[c].room \in Nat
          /\ Sum(captures, Promised) = captures[c] + Sum(captures, Promised \ {c})
          /\ captures[c] \in Nat
          /\ Sum(captures, Promised \ {c}) + call[c].room <= BytesLimit
      <4>1. Promised \ {c} \in SUBSET DOMAIN captures /\ Promised \in SUBSET DOMAIN captures
        BY <1>1
      <4> QED BY <1>1, <2>4, <4>1 DEF Fits, CapInv, Shape
    <3>1. CASE c \in Promised' \ kept'
      BY <1>3, <2>4, <3>1
    <3>2. CASE c \notin Promised'
      <4>1. Promised' \in SUBSET (Promised \ {c}) /\ Promised \ {c} \in SUBSET DOMAIN captures
        BY <1>1, <3>2
      <4>2. Sum(captures, Promised') <= Sum(captures, Promised \ {c})
        BY <1>1, <4>1
      <4>3. Sum(captures', Promised') <= BytesLimit
        BY <2>1, <3>s, <4>2, Limits
      <4> QED BY <4>3
    <3>3. CASE c \in kept'
      <4>1. captures[c] <= call[c].room
        BY <2>4, <3>3
      <4>2. Sum(captures', Promised') <= BytesLimit
        BY <2>1, <2>2, <3>s, <4>1, Limits
      <4> QED BY <4>2
    <3> QED BY <3>1, <3>2, <3>3
  <2> QED BY <2>3, <2>4 DEF CapInv, Budget
<1> QED BY <1>4, <1>5 DEF Budget

\* Every step but those that make a directory or write a frame.
LEMMA CapStep ==
    ASSUME CapInv,
           DOMAIN captures' \subseteq DOMAIN captures,
           \A d \in DOMAIN captures' : captures'[d] = captures[d],
           kept \subseteq kept', kept' \subseteq DOMAIN captures',
           \A d \in kept' \ kept : /\ Capturing(d) /\ captures[d] # 0
                                   /\ captures[d] <= call[d].room,
           \A c \in Calls :
             /\ Capturing(c)' => /\ Capturing(c) /\ call'[c].room = call[c].room
                                 /\ c \notin kept'
                                 /\ call'[c].pc = "writing" => call[c].pc = "writing"
             /\ c \in DOMAIN captures' => Capturing(c)' \/ call'[c].pc \in {"final", "end"}
             /\ Dumping(c)' => /\ Dumping(c) \/ (Capturing(c) /\ call[c].pc = "writing")
                               /\ call'[c].pc = "end" \/ (Capturing(c)' /\ call'[c].pc = "wait"),
           Dumps'
    PROVE  CapInv'
<1>1. Shape'
  <2>1. IsFiniteSet(DOMAIN captures') /\ Cardinality(DOMAIN captures') <= CountLimit
    <3>1. /\ IsFiniteSet(DOMAIN captures') /\ Cardinality(DOMAIN captures') <= Cardinality(DOMAIN captures)
          /\ Cardinality(DOMAIN captures') \in Nat /\ Cardinality(DOMAIN captures) \in Nat
      BY FS_Subset, FS_CardinalityType DEF CapInv, Shape
    <3> QED BY <3>1, Limits DEF CapInv, Shape
  <2>2. \A d \in kept' : captures'[d] # 0
    BY DEF CapInv, Shape
  <2> QED BY <2>1, <2>2 DEF CapInv, Shape
<1>2. ASSUME NEW c \in Calls PROVE Owned(c)'
  <2>1. Owned(c)
    BY DEF CapInv
  <2> QED BY <2>1 DEF Owned
<1>3. Budget'
  <2>1. ASSUME NEW c \in Promised' PROVE c \in Promised
    <3>1. CASE c \in kept' /\ c \notin kept
      BY <3>1 DEF Promised
    <3>2. CASE c \in DOMAIN captures' /\ Capturing(c)'
      <4>1. c \in Calls
        BY <3>2 DEF Capturing
      <4> QED BY <3>2, <4>1 DEF Promised
    <3> QED BY <2>1, <3>1, <3>2 DEF Promised
  <2>2. \A c \in Promised' : captures'[c] = captures[c]
    BY DEF Promised
  <2>3. \A c \in Promised' \ kept' : call'[c].room = call[c].room
    BY DEF Promised, Capturing
  <2>4. \A c \in kept' \ kept : c \in Promised /\ captures[c] <= call[c].room
    BY <2>1 DEF Promised
  <2> QED BY <2>1, <2>2, <2>3, <2>4, BudgetStep
<1> QED BY <1>1, <1>2, <1>3 DEF CapInv

LEMMA ShrunkWire ==
    ASSUME IInv, CapInv, wire' = wire \/ wire' = <<>> \/ (wire # <<>> /\ wire' = Tail(wire))
    PROVE  Dumps' /\ \A c \in Calls : Dumping(c)' => Dumping(c)
<1>1. CASE wire' = wire
  BY <1>1 DEF CapInv, Dumps, Dumping, Dump
<1>2. CASE wire' = <<>>
  BY <1>2, EmptyFacts DEF Dumps, Dumping, Dump
<1>3. CASE wire # <<>> /\ wire' = Tail(wire)
  <2>1. /\ DOMAIN wire = 1 .. Len(wire) /\ Len(wire) \in Nat \ {0}
        /\ DOMAIN wire' = 1 .. Len(wire) - 1
        /\ \A i \in DOMAIN wire' : wire'[i] = wire[i + 1]
    BY <1>3, TailFacts DEF IInv, Types
  <2>2. \A i \in DOMAIN wire' : i \in Nat /\ i + 1 \in DOMAIN wire
    BY <2>1
  <2>3. \A i, j \in DOMAIN wire' : i + 1 = j + 1 => i = j
    BY <2>1
  <2> QED BY <2>1, <2>2, <2>3 DEF CapInv, Dumps, Dumping, Dump
<1> QED BY <1>1, <1>2, <1>3

LEMMA DumpCommand ==
    ASSUME IInv, NEW c \in Threads, call[c].pc = "writing", Command(c).kind = "screendump"
    PROVE  Capturing(c)
<1>a. /\ c # Launch => call[c].req.action \in (IF call[c].act THEN {"mice", "keys", "capture"}
                                               ELSE Displays \union {"stop"})
      /\ c # Launch => c \in Calls
  BY DEF IInv, Forms, Form, Threads
<1> DEFINE kind == CASE c = Launch -> "qmp_capabilities"
                [] call[c].req.action = "stop" -> "system_powerdown"
                [] call[c].req.action \in Displays /\ ~call[c].act -> "query-status"
                [] call[c].req.action \in Displays /\ call[c].act -> Verb[call[c].req.action]
<1>1. kind = "screendump"
  BY DEF Command
<1>2. CASE c = Launch
  <2>1. call[c].req.action = "none"
    BY <1>2 DEF IInv, Forms, Form, NoRequest, Plain
  <2> QED BY <1>1, <1>2, <2>1 DEF Displays
<1>3. CASE c # Launch /\ call[c].req.action = "stop"
  BY <1>1, <1>3 DEF Displays
<1>4. CASE c # Launch /\ call[c].req.action # "stop" /\ ~call[c].act
  BY <1>1, <1>4, <1>a DEF Displays
<1>5. CASE c # Launch /\ call[c].act
  BY <1>1, <1>5, <1>a DEF Displays, Verb, Capturing
<1> QED BY <1>2, <1>3, <1>4, <1>5

LEMMA SentWire ==
    ASSUME IInv, CapInv, NEW c \in Threads, wire' = wire \/ Sends(c)
    PROVE  /\ Dumps'
           /\ \A d \in Calls : Dumping(d)' =>
                Dumping(d) \/ (d = c /\ Capturing(c) /\ call[c].pc = "writing")
<1>1. CASE wire' = wire
  BY <1>1 DEF CapInv, Dumps, Dumping, Dump
<1>2. CASE Sends(c)
  <2>1. call[c].pc = "writing" /\ Command(c) \in Commands /\ Command(c).from = c
    BY <1>2, CommandFacts DEF Sends, IInv
  <2>2. /\ DOMAIN wire = 1 .. Len(wire) /\ Len(wire) \in Nat
        /\ DOMAIN wire' = 1 .. Len(wire) + 1
        /\ wire'[Len(wire) + 1] = Command(c)
        /\ \A i \in DOMAIN wire : wire'[i] = wire[i]
    BY <1>2, <2>1, AppendFacts DEF Sends, IInv, Types
  <2>3. \A i \in DOMAIN wire' : i \in DOMAIN wire \/ i = Len(wire) + 1
    BY <2>2
  <2>4. Command(c).kind = "screendump" => Capturing(c) /\ c \in Calls /\ ~Dumping(c)
    BY <2>1, DumpCommand DEF CapInv, Owned, Capturing
  <2>5. ASSUME NEW i \in DOMAIN wire', wire'[i].kind = "screendump", i \notin DOMAIN wire
        PROVE  wire'[i].from = c /\ Capturing(c) /\ c \in Calls /\ ~Dumping(c) /\ i = Len(wire) + 1
    BY <2>1, <2>2, <2>3, <2>4, <2>5
  <2>6. Dumps'
    BY <2>2, <2>5 DEF CapInv, Dumps, Dumping, Dump
  <2>7. ASSUME NEW d \in Calls, Dumping(d)', ~Dumping(d) PROVE d = c /\ Capturing(c)
    BY <2>2, <2>5, <2>7 DEF Dumping, Dump
  <2> QED BY <2>1, <2>6, <2>7
<1> QED BY <1>1, <1>2

\* The parts of a call that the captures depend on.
Alike(c) ==
    /\ call'[c].pc = call[c].pc /\ call'[c].act = call[c].act
    /\ call'[c].req = call[c].req /\ call'[c].room = call[c].room

LEMMA AlikeFacts ==
    ASSUME NEW c \in Calls, Alike(c)
    PROVE  Capturing(c)' = Capturing(c) /\ call'[c].room = call[c].room
BY DEF Alike, Capturing

\* One call at most changes, and it has no capture.
LEMMA CapMoves ==
    ASSUME IInv, CapInv, NEW c,
           \A d \in Calls \ {c} : Alike(d),
           c \in Calls => /\ ~Capturing(c) /\ ~Capturing(c)'
                          /\ call[c].pc \notin {"final", "end"},
           UNCHANGED <<captures, kept>>,
           wire' = wire \/ wire' = <<>> \/ (wire # <<>> /\ wire' = Tail(wire))
    PROVE  CapInv'
<1>1. Dumps' /\ \A d \in Calls : Dumping(d)' => Dumping(d)
  BY ShrunkWire
<1>2. ASSUME NEW d \in Calls
      PROVE  /\ Capturing(d)' => /\ Capturing(d) /\ call'[d].room = call[d].room
                                 /\ d \notin kept'
                                 /\ call'[d].pc = "writing" => call[d].pc = "writing"
             /\ d \in DOMAIN captures' => Capturing(d)' \/ call'[d].pc \in {"final", "end"}
             /\ Dumping(d)' => /\ Dumping(d) \/ (Capturing(d) /\ call[d].pc = "writing")
                               /\ call'[d].pc = "end" \/ (Capturing(d)' /\ call'[d].pc = "wait")
  <2>1. Owned(d)
    BY DEF CapInv
  <2>2. CASE d = c
    BY <1>1, <2>1, <2>2 DEF Owned
  <2>3. CASE d # c
    <3>1. Alike(d)
      BY <2>3
    <3>2. Capturing(d)' = Capturing(d) /\ call'[d].room = call[d].room
      BY <3>1, AlikeFacts
    <3> QED BY <1>1, <2>1, <3>1, <3>2 DEF Owned, Alike
  <2> QED BY <2>2, <2>3
<1>3. kept' \subseteq DOMAIN captures'
  BY DEF CapInv, Shape
<1> QED BY <1>1, <1>2, <1>3, CapStep

\* A call ends, with or without its directory.
LEMMA CapEnds ==
    ASSUME IInv, CapInv, NEW c \in Calls,
           \A d \in Calls \ {c} : Alike(d), call'[c].pc = "end",
           \/ captures' = captures
           \/ c \notin kept /\ captures' = [d \in DOMAIN captures \ {c} |-> captures[d]],
           kept' = kept, wire' = wire \/ Sends(c) \/ wire' = <<>>
    PROVE  CapInv'
<1>1. /\ Dumps'
      /\ \A d \in Calls : Dumping(d)' =>
           Dumping(d) \/ (d = c /\ Capturing(c) /\ call[c].pc = "writing")
  BY ShrunkWire, SentWire DEF Threads
<1>2. ASSUME NEW d \in Calls
      PROVE  /\ Capturing(d)' => /\ Capturing(d) /\ call'[d].room = call[d].room
                                 /\ d \notin kept'
                                 /\ call'[d].pc = "writing" => call[d].pc = "writing"
             /\ d \in DOMAIN captures' => Capturing(d)' \/ call'[d].pc \in {"final", "end"}
             /\ Dumping(d)' => /\ Dumping(d) \/ (Capturing(d) /\ call[d].pc = "writing")
                               /\ call'[d].pc = "end" \/ (Capturing(d)' /\ call'[d].pc = "wait")
  <2>1. Owned(d)
    BY DEF CapInv
  <2>2. CASE d = c
    BY <1>1, <2>1, <2>2 DEF Owned, Capturing
  <2>3. CASE d # c
    <3>1. Alike(d)
      BY <2>3
    <3>2. Capturing(d)' = Capturing(d) /\ call'[d].room = call[d].room
      BY <3>1, AlikeFacts
    <3>3. d \in DOMAIN captures' => d \in DOMAIN captures
      OBVIOUS
    <3> QED BY <1>1, <2>1, <2>3, <3>1, <3>2, <3>3 DEF Owned, Alike
  <2> QED BY <2>2, <2>3
<1>3. kept' \subseteq DOMAIN captures'
  BY DEF CapInv, Shape
<1>4. /\ DOMAIN captures' \subseteq DOMAIN captures
      /\ \A d \in DOMAIN captures' : captures'[d] = captures[d]
  OBVIOUS
<1> QED BY <1>1, <1>2, <1>3, <1>4, CapStep

\* A whole frame is kept.
LEMMA CapKeeps ==
    ASSUME IInv, CapInv, NEW c \in Calls, Capturing(c), c \in DOMAIN captures, captureFits(c),
           \A d \in Calls \ {c} : Alike(d), call'[c].pc \in {"final", "end"},
           captures' = captures, kept' = kept \union {c}, wire' = wire
    PROVE  CapInv'
<1>1. Dumps' /\ \A d \in Calls : Dumping(d)' => Dumping(d)
  BY ShrunkWire
<1>f. captures[c] # 0 /\ captures[c] <= call[c].room
  <2>1. captures[c] \in Nat /\ call[c].room \in Nat
    BY DEF CapInv, Shape, Owned
  <2> QED BY <2>1 DEF captureFits
<1>2. ASSUME NEW d \in Calls
      PROVE  /\ Capturing(d)' => /\ Capturing(d) /\ call'[d].room = call[d].room
                                 /\ d \notin kept'
                                 /\ call'[d].pc = "writing" => call[d].pc = "writing"
             /\ d \in DOMAIN captures' => Capturing(d)' \/ call'[d].pc \in {"final", "end"}
             /\ Dumping(d)' => /\ Dumping(d) \/ (Capturing(d) /\ call[d].pc = "writing")
                               /\ call'[d].pc = "end" \/ (Capturing(d)' /\ call'[d].pc = "wait")
  <2>1. Owned(d)
    BY DEF CapInv
  <2>2. CASE d = c
    BY <1>1, <1>f, <2>1, <2>2 DEF Owned, Capturing
  <2>3. CASE d # c
    <3>1. Alike(d)
      BY <2>3
    <3>2. Capturing(d)' = Capturing(d) /\ call'[d].room = call[d].room
      BY <3>1, AlikeFacts
    <3> QED BY <1>1, <2>1, <2>3, <3>1, <3>2 DEF Owned, Alike
  <2> QED BY <2>2, <2>3
<1>3. kept' \subseteq DOMAIN captures' /\ kept \subseteq kept'
  BY DEF CapInv, Shape
<1>4. \A d \in kept' \ kept : /\ Capturing(d) /\ captures[d] # 0
                              /\ captures[d] <= call[d].room
  BY <1>f
<1> QED BY <1>1, <1>2, <1>3, <1>4, CapStep

\* A command goes out.
LEMMA CapSends ==
    ASSUME IInv, CapInv, NEW c \in Threads, Sends(c), Goto(c, "wait"),
           UNCHANGED <<captures, kept>>
    PROVE  CapInv'
<1>1. /\ Dumps'
      /\ \A d \in Calls : Dumping(d)' =>
           Dumping(d) \/ (d = c /\ Capturing(c) /\ call[c].pc = "writing")
  BY SentWire
<1>c. /\ call[c].pc = "writing" /\ call'[c].pc = "wait" /\ call'[c].act = call[c].act
      /\ call'[c].req = call[c].req /\ call'[c].room = call[c].room
      /\ \A d \in Calls \ {c} : Alike(d)
  BY DEF Sends, Goto, Alike, IInv, Types, Fields, Threads
<1>2. ASSUME NEW d \in Calls
      PROVE  /\ Capturing(d)' => /\ Capturing(d) /\ call'[d].room = call[d].room
                                 /\ d \notin kept'
                                 /\ call'[d].pc = "writing" => call[d].pc = "writing"
             /\ d \in DOMAIN captures' => Capturing(d)' \/ call'[d].pc \in {"final", "end"}
             /\ Dumping(d)' => /\ Dumping(d) \/ (Capturing(d) /\ call[d].pc = "writing")
                               /\ call'[d].pc = "end" \/ (Capturing(d)' /\ call'[d].pc = "wait")
  <2>1. Owned(d)
    BY DEF CapInv
  <2>2. CASE d = c
    <3>1. Capturing(c)' = Capturing(c)
      BY <1>c, <2>2 DEF Capturing
    <3> QED BY <1>1, <1>c, <2>1, <2>2, <3>1 DEF Owned
  <2>3. CASE d # c
    <3>1. Alike(d)
      BY <1>c, <2>3
    <3>2. Capturing(d)' = Capturing(d) /\ call'[d].room = call[d].room
      BY <3>1, AlikeFacts
    <3> QED BY <1>1, <2>1, <2>3, <3>1, <3>2 DEF Owned, Alike
  <2> QED BY <2>2, <2>3
<1>3. kept' \subseteq DOMAIN captures'
  BY DEF CapInv, Shape
<1> QED BY <1>1, <1>2, <1>3, CapStep

\* QEMU writes the frame it was asked for: its directory was empty.
LEMMA CapServes ==
    ASSUME IInv, CapInv, wire # <<>>, Head(wire).kind = "screendump",
           Head(wire).from \in DOMAIN captures,
           NEW size \in Frames, captures' = [captures EXCEPT ![Head(wire).from] = size],
           wire' = Tail(wire), UNCHANGED <<call, kept>>
    PROVE  CapInv'
<1>w. /\ wire[1] = Head(wire) /\ 1 \in DOMAIN wire
      /\ DOMAIN wire = 1 .. Len(wire) /\ Len(wire) \in Nat \ {0}
      /\ DOMAIN wire' = 1 .. Len(wire) - 1
      /\ \A i \in DOMAIN wire' : wire'[i] = wire[i + 1]
  BY TailFacts DEF IInv, Types
<1>p. PICK c \in Calls : c = Head(wire).from
  BY <1>w DEF CapInv, Dumps, Dump
<1>c. c \in Calls /\ Dumping(c) /\ c \in DOMAIN captures /\ wire[1].from = c /\ Dump(1)
  BY <1>w, <1>p DEF Dumping, Dump
<1>d. Dumps' /\ (\A d \in Calls : Dumping(d)' => Dumping(d)) /\ ~Dumping(c)'
  <2>1. \A i \in DOMAIN wire' : i \in Nat /\ i + 1 \in DOMAIN wire /\ i + 1 # 1
    BY <1>w
  <2>2. ~Dumping(c)'
    BY <1>w, <1>c, <2>1 DEF CapInv, Dumps, Dumping, Dump
  <2> QED BY <2>2, ShrunkWire
<1>s. /\ DOMAIN captures' = DOMAIN captures /\ captures'[c] = size /\ size \in Nat
      /\ \A d \in DOMAIN captures \ {c} : captures'[d] = captures[d]
      /\ captures[c] = 0 /\ c \notin kept
      /\ call[c].pc = "end" \/ (Capturing(c) /\ call[c].pc = "wait")
  BY <1>c, <1>p, Limits DEF CapInv, Owned, Shape
<1>e. \A d \in DOMAIN captures \ {c} : captures'[d] # 0
  BY <1>c, <1>s DEF CapInv, Shape
<1>1. Shape'
  BY <1>s, <1>e DEF CapInv, Shape
<1>2. \A d \in Calls : Owned(d)'
  <2>1. ASSUME NEW d \in Calls PROVE Owned(d)'
    <3>1. Owned(d) /\ Capturing(d)' = Capturing(d)
      BY DEF CapInv, Capturing
    <3>2. CASE d = c
      BY <1>c, <1>d, <1>s, <3>1, <3>2 DEF Owned
    <3>3. CASE d # c
      <4>1. d \in DOMAIN captures => captures'[d] = captures[d]
        BY <1>s, <3>3
      <4> QED BY <1>d, <1>s, <3>1, <4>1 DEF Owned
    <3> QED BY <3>2, <3>3
  <2> QED BY <2>1
<1>3. Budget'
  <2>1. Promised' = Promised
    BY <1>s DEF Promised, Capturing
  <2>2. /\ Promised \subseteq DOMAIN captures
        /\ \A S \in SUBSET DOMAIN captures : IsFiniteSet(S)
    BY PromisedFacts
  <2>3. ASSUME NEW S \in SUBSET DOMAIN captures, c \notin S
        PROVE  Sum(captures', S) = Sum(captures, S)
    <3>1. IsFiniteSet(S) /\ \A x \in S : captures'[x] = captures[x]
      BY <1>s, <2>2, <2>3
    <3> QED BY <3>1, SumAgrees
  <2>4. \A d \in Promised' \ kept' : captures'[d] = 0 => d = c
    BY <1>e, <2>1, <2>2
  <2>5. CASE c \in Promised
    <3>1. Fits(c) /\ c \in Promised' \ kept'
      BY <1>s, <2>1, <2>5 DEF CapInv, Budget
    <3>2. Sum(captures', Promised \ {c}) = Sum(captures, Promised \ {c})
      BY <2>2, <2>3
    <3>3. Fits(c)'
      BY <2>1, <3>1, <3>2 DEF Fits
    <3> QED BY <2>4, <3>1, <3>3 DEF Budget
  <2>6. CASE c \notin Promised
    <3>1. Sum(captures', Promised) = Sum(captures, Promised)
      BY <2>2, <2>3, <2>6
    <3>2. ASSUME NEW d, Fits(d) PROVE Fits(d)'
      <4>1. Sum(captures', Promised \ {d}) = Sum(captures, Promised \ {d})
        BY <2>2, <2>3, <2>6
      <4> QED BY <2>1, <3>2, <4>1 DEF Fits
    <3> QED BY <2>1, <2>4, <2>6, <3>1, <3>2 DEF CapInv, Budget
  <2> QED BY <2>5, <2>6
<1> QED BY <1>1, <1>2, <1>3, <1>d DEF CapInv

\* A directory is made within the budget: the room of its frame is what is left.
LEMMA CapOpens ==
    ASSUME IInv, CapInv, NEW c \in Calls, captureBudget,
           call[c].pc = "wait", ~call[c].act,
           captures' = [d \in DOMAIN captures \union {c} |-> IF d = c THEN 0 ELSE captures[d]],
           kept' = kept, wire' = wire,
           \A d \in Calls \ {c} : Alike(d),
           \/ call'[c].pc = "end"
           \/ Capturing(c)' /\ call'[c].room = BytesLimit - Retained
    PROVE  CapInv'
<1>d. Dumps' /\ \A d \in Calls : Dumping(d)' => Dumping(d)
  BY ShrunkWire
<1>c. c \notin DOMAIN captures /\ ~Dumping(c) /\ c \notin kept
  BY DEF CapInv, Owned, Capturing, Shape
<1>b. /\ Cardinality(DOMAIN captures) < CountLimit
      /\ \A d \in DOMAIN captures : captures[d] # 0
      /\ Sum(captures, DOMAIN captures) < BytesLimit
      /\ Retained = Sum(captures, DOMAIN captures)
  <2>1. Retained = Sum(captures, DOMAIN captures)
    BY DEF Retained, Sum
  <2>2. \A d \in DOMAIN captures : captures[d] \in 1 .. BytesLimit
    BY DEF captureBudget, captureInventory
  <2>3. \A d \in DOMAIN captures : captures[d] # 0
    BY <2>2, Limits
  <2> QED BY <2>1, <2>3 DEF captureBudget
<1>s. /\ DOMAIN captures' = DOMAIN captures \union {c} /\ captures'[c] = 0
      /\ \A d \in DOMAIN captures : captures'[d] = captures[d]
  BY <1>c
<1>f. /\ IsFiniteSet(Promised) /\ Promised \subseteq DOMAIN captures
      /\ Sum(captures, Promised) \in Nat /\ Sum(captures, DOMAIN captures) \in Nat
      /\ Sum(captures, Promised) <= Sum(captures, DOMAIN captures)
  <2>1. DOMAIN captures \in SUBSET DOMAIN captures
    OBVIOUS
  <2> QED BY <2>1, PromisedFacts
<1>1. Shape'
  <2>1. IsFiniteSet(DOMAIN captures') /\ Cardinality(DOMAIN captures') <= CountLimit
    <3>1. /\ IsFiniteSet(DOMAIN captures') /\ Cardinality(DOMAIN captures) \in Nat
          /\ Cardinality(DOMAIN captures') = Cardinality(DOMAIN captures) + 1
      BY <1>s, <1>c, FS_AddElement, FS_CardinalityType DEF CapInv, Shape
    <3> QED BY <1>b, <3>1, Limits
  <2> QED BY <1>s, <1>c, <1>b, <2>1 DEF CapInv, Shape
<1>2. \A d \in Calls : Owned(d)'
  <2>1. ASSUME NEW d \in Calls PROVE Owned(d)'
    <3>1. Owned(d)
      BY DEF CapInv
    <3>2. CASE d = c
      <4>1. Capturing(c)' => call'[c].room \in Nat
        <5>1. BytesLimit - Retained \in Nat
          BY <1>b, <1>f, Limits
        <5> QED BY <5>1 DEF Capturing
      <4> QED BY <1>c, <1>d, <1>s, <3>2, <4>1 DEF Owned
    <3>3. CASE d # c
      <4>1. Alike(d) /\ (d \in DOMAIN captures' <=> d \in DOMAIN captures)
        BY <1>s, <3>3
      <4>2. Capturing(d)' = Capturing(d) /\ call'[d].room = call[d].room
        BY <4>1, AlikeFacts
      <4> QED BY <1>d, <1>s, <3>1, <4>1, <4>2 DEF Owned, Alike
    <3> QED BY <3>2, <3>3
  <2> QED BY <2>1
<1>3. Budget'
  <2>a. ASSUME NEW d \in DOMAIN captures PROVE Capturing(d)' = Capturing(d)
    <3>1. d # c
      BY <1>c
    <3>2. CASE d \in Calls
      BY <3>1, <3>2, AlikeFacts
    <3>3. CASE d \notin Calls
      BY <3>3 DEF Capturing
    <3> QED BY <3>2, <3>3
  <2>1. Promised' = IF Capturing(c)' THEN Promised \union {c} ELSE Promised
    BY <1>s, <2>a DEF Promised
  <2>2. Sum(captures', Promised) = Sum(captures, Promised)
    BY <1>s, <1>f, SumAgrees
  <2>3. \A d \in Promised' \ kept' : captures'[d] = 0 => d = c /\ Capturing(c)'
    BY <1>s, <1>b, <1>f, <1>c, <2>1
  <2>4. CASE Capturing(c)'
    <3>1. Promised' \ {c} = Promised /\ c \in Promised' \ kept'
      BY <1>c, <1>f, <2>1, <2>4
    <3>2. call'[c].room = BytesLimit - Sum(captures, DOMAIN captures)
      BY <1>b, <2>4 DEF Capturing
    <3>3. Sum(captures', Promised' \ {c}) = Sum(captures, Promised)
      BY <2>2, <3>1
    <3>4. Fits(c)'
      BY <1>f, <3>2, <3>3, Limits DEF Fits
    <3> QED BY <2>3, <3>1, <3>4 DEF Budget
  <2>5. CASE ~Capturing(c)'
    <3>1. Sum(captures', Promised') <= BytesLimit
      BY <1>b, <1>f, <2>1, <2>2, <2>5, Limits
    <3> QED BY <2>3, <2>5, <3>1 DEF Budget
  <2> QED BY <2>4, <2>5
<1> QED BY <1>1, <1>2, <1>3, <1>d DEF CapInv

LEMMA CapBegins == Init => CapInv
<1> SUFFICES ASSUME Init PROVE CapInv
  OBVIOUS
<1>1. /\ DOMAIN captures = Old /\ (\A d \in Old : captures[d] = 1) /\ kept = Old
      /\ \A c \in Threads : call[c] = Idle
  BY DEF Init
<1>2. \A c \in Calls : ~Capturing(c) /\ c \notin Old /\ ~Dumping(c)
  BY <1>1, Limits, EmptyFacts DEF Init, Capturing, Idle, Dumping, Threads
<1>3. Dumps
  BY EmptyFacts DEF Init, Dumps
<1>4. Shape
  BY <1>1, Limits DEF Shape
<1>5. Budget
  <2>1. Promised = Old
    BY <1>1 DEF Promised, Capturing, Idle, Threads
  <2>2. Sum(captures, Old) = Cardinality(Old)
    BY <1>1, Limits, SumOfOnes
  <2> QED BY <1>1, <2>1, <2>2, Limits DEF Budget
<1>6. \A c \in Calls : Owned(c)
  BY <1>1, <1>2 DEF Owned
<1> QED BY <1>3, <1>4, <1>5, <1>6 DEF CapInv

LEMMA CapFits == CapInv => CapturesFit
<1> SUFFICES ASSUME CapInv PROVE CapturesFit
  OBVIOUS
<1>1. /\ Promised \subseteq DOMAIN captures /\ kept \subseteq Promised
      /\ \A S \in SUBSET DOMAIN captures :
           /\ Sum(captures, S) \in Nat
           /\ \A R \in SUBSET S : Sum(captures, R) <= Sum(captures, S)
      /\ \A c \in Promised \ kept : call[c].room \in Nat
  BY PromisedFacts DEF Promised
<1>2. Sum(captures, kept) \in Nat
  BY <1>1
<1>4. ASSUME NEW c \in Promised \ kept, Fits(c) PROVE Sum(captures, kept) <= BytesLimit
  <2>1. kept \in SUBSET (Promised \ {c}) /\ Promised \ {c} \in SUBSET DOMAIN captures
    BY <1>1
  <2>2. /\ Sum(captures, kept) <= Sum(captures, Promised \ {c})
        /\ Sum(captures, Promised \ {c}) \in Nat
    BY <1>1, <2>1
  <2> QED BY <1>1, <1>2, <1>4, <2>2, Limits DEF Fits
<1>5. Sum(captures, kept) <= BytesLimit
  <2>1. Sum(captures, Promised) \in Nat /\ Sum(captures, kept) <= Sum(captures, Promised)
    BY <1>1
  <2> QED BY <1>2, <1>4, <2>1, Limits DEF CapInv, Budget
<1> QED BY <1>5 DEF CapturesFit, CapInv, Shape, Sum

LEMMA PutFacts ==
    ASSUME IInv, NEW c \in Threads
    PROVE  /\ \A r : Put(c, r) => call'[c] = r /\ \A d \in Calls \ {c} : Alike(d)
           /\ Ended(c) => call'[c].pc = "end" /\ \A d \in Calls \ {c} : Alike(d)
           /\ \A pc : Goto(c, pc) =>
                /\ call'[c].pc = pc /\ call'[c].req = call[c].req /\ call'[c].act = call[c].act
                /\ \A d \in Calls \ {c} : Alike(d)
<1>1. DOMAIN call = Threads /\ DOMAIN call[c] = Fields /\ Calls \subseteq Threads
  BY DEF IInv, Types, Threads
<1>2. ASSUME NEW r, Put(c, r) PROVE call'[c] = r /\ \A d \in Calls \ {c} : Alike(d)
  BY <1>1, <1>2 DEF Put, Alike
<1>3. ASSUME Ended(c) PROVE call'[c].pc = "end" /\ \A d \in Calls \ {c} : Alike(d)
  BY <1>2, <1>3 DEF Ended, Idle
<1>4. ASSUME NEW pc, Goto(c, pc)
      PROVE  /\ call'[c].pc = pc /\ call'[c].req = call[c].req /\ call'[c].act = call[c].act
             /\ \A d \in Calls \ {c} : Alike(d)
  BY <1>1, <1>4 DEF Goto, Alike, Fields
<1> QED BY <1>2, <1>3, <1>4

\* A command is registered; no other call changes.
LEMMA RegisterFacts ==
    ASSUME IInv, NEW c \in Threads, NEW r, DOMAIN r = Fields, register(c, r)
    PROVE  /\ call'[c].pc = "writing" /\ call'[c].req = r.req /\ call'[c].act = r.act
           /\ call'[c].room = r.room
           /\ \A d \in Calls \ {c} : Alike(d)
<1>1. Put(c, [r EXCEPT !.pc = "writing", !.id = qmp.next + 1, !.box = NoReply])
  BY DEF register
<1>2. call'[c] = [r EXCEPT !.pc = "writing", !.id = qmp.next + 1, !.box = NoReply]
  BY <1>1, PutFacts
<1>3. /\ call'[c].pc = "writing" /\ call'[c].req = r.req /\ call'[c].act = r.act
      /\ call'[c].room = r.room
  BY <1>2 DEF Fields
<1>4. \A d \in Calls \ {c} : Alike(d)
  BY <1>1, PutFacts
<1> QED BY <1>3, <1>4

\* No call has changed but for its answer.
LEMMA CapStill ==
    ASSUME IInv, CapInv, \A d \in Calls : Alike(d), UNCHANGED <<captures, kept>>,
           wire' = wire \/ wire' = <<>> \/ (wire # <<>> /\ wire' = Tail(wire))
    PROVE  CapInv'
BY CapMoves, Limits

LEMMA CapFails ==
    ASSUME IInv, CapInv, NEW c \in Calls, Fails(c), wire' = wire \/ Sends(c)
    PROVE  CapInv'
<1>1. call'[c].pc = "end" /\ \A d \in Calls \ {c} : Alike(d)
  BY PutFacts DEF Fails, Threads
<1>2. \/ captures' = captures
      \/ c \notin kept /\ captures' = [d \in DOMAIN captures \ {c} |-> captures[d]]
  BY DEF Fails, Discarded
<1>3. kept' = kept
  BY DEF Fails
<1> QED BY <1>1, <1>2, <1>3, CapEnds

\* The end of a call that leaves the captures alone.
LEMMA CapEnded ==
    ASSUME IInv, CapInv, NEW c \in Calls, Ended(c), UNCHANGED <<captures, kept, wire>>
    PROVE  CapInv'
BY PutFacts, CapEnds DEF Threads

\* A call that has no capture goes on, without one.
LEMMA CapGoes ==
    ASSUME IInv, CapInv, NEW c \in Calls, NEW pc, Goto(c, pc),
           call[c].pc \notin {"final", "end"}, ~Capturing(c),
           call[c].req.action = "capture" => ~call[c].act,
           UNCHANGED <<captures, kept>>, wire' = wire \/ wire' = <<>>
    PROVE  CapInv'
<1>1. /\ call'[c].pc = pc /\ call'[c].req = call[c].req /\ call'[c].act = call[c].act
      /\ \A d \in Calls \ {c} : Alike(d)
  BY PutFacts DEF Threads
<1>2. ~Capturing(c)'
  BY <1>1 DEF Capturing
<1> QED BY <1>1, <1>2, CapMoves

LEMMA CapRegisters ==
    ASSUME IInv, CapInv, NEW c \in Calls, NEW r, DOMAIN r = Fields, register(c, r),
           call[c].pc \notin {"final", "end"}, ~Capturing(c),
           ~(r.act /\ r.req.action = "capture"),
           UNCHANGED <<captures, kept, wire>>
    PROVE  CapInv'
<1>1. /\ call'[c].pc = "writing" /\ call'[c].req = r.req /\ call'[c].act = r.act
      /\ \A d \in Calls \ {c} : Alike(d)
  BY RegisterFacts DEF Threads
<1>2. ~Capturing(c)'
  BY <1>1 DEF Capturing
<1> QED BY <1>1, <1>2, CapMoves

LEMMA CapCalls ==
    ASSUME IInv, CapInv, NEW c \in Calls, Step(c)
    PROVE  CapInv'
<1>f. /\ c \in Threads /\ DOMAIN call[c] = Fields /\ DOMAIN call = Threads /\ c # Launch
      /\ call[c].pc = "gate" => ~call[c].act
  BY Different DEF IInv, Types, Threads, Forms, Form
<1>1. CASE AfterFunc(c)
  BY <1>1, CapStill DEF AfterFunc, fsVars, Alike
<1>2. CASE writeFails(c)
  <2>1. Fails(c) /\ (wire' = wire \/ Sends(c))
    BY <1>2 DEF writeFails, Abandons, Sends
  <2> QED BY <2>1, CapFails
<1>3. CASE replyFails(c)
  BY <1>3, CapFails DEF replyFails, Abandons
<1>4. CASE GateTimeout(c)
  BY <1>4, CapEnded DEF GateTimeout, qmpVars, fsVars
<1>5. CASE outlived(c)
  <2>1. Ended(c) /\ wire' = wire
    BY <1>5 DEF outlived, qmpVars
  <2>2. call'[c].pc = "end" /\ \A d \in Calls \ {c} : Alike(d)
    BY <1>f, <2>1, PutFacts
  <2>3. CASE Discarded(c) /\ UNCHANGED kept
    BY <2>1, <2>2, <2>3, CapEnds DEF Discarded
  <2>4. CASE /\ call[c].act /\ call[c].req.action = "capture" /\ call[c].pc = "wait"
             /\ c \in DOMAIN captures /\ captureFits(c)
             /\ kept' = kept \union {c} /\ UNCHANGED captures
    BY <2>1, <2>2, <2>4, CapKeeps DEF Capturing
  <2> QED BY <1>5, <2>3, <2>4 DEF outlived
<1>6. CASE stop(c)
  <2>1. call[c].req.action = "stop" /\ call[c].pc = "gate" /\ wire' = wire
    BY <1>6 DEF stop
  <2>2. CASE Fails(c)
    BY <2>1, <2>2, CapFails
  <2>3. CASE register(c, call[c]) /\ UNCHANGED <<captures, kept>>
    BY <1>f, <2>1, <2>3, CapRegisters DEF Capturing
  <2> QED BY <1>6, <2>2, <2>3 DEF stop, request
<1>7. CASE stopAsked(c)
  BY <1>7, CapGoes DEF stopAsked, Answered, Capturing, qmpVars, fsVars
<1>8. CASE stopReturns(c)
  BY <1>8, CapEnded DEF stopReturns, qmpVars, fsVars
<1>9. CASE force(c)
  <2>1. CASE sess.done
    BY <1>9, <2>1, CapEnded DEF force, fsVars
  <2>2. CASE ~sess.done
    BY <1>9, <2>2, CapGoes DEF force, fsVars, Capturing
  <2> QED BY <2>1, <2>2
<1>10. CASE forceReturns(c)
  BY <1>10, CapEnded DEF forceReturns, qmpVars, fsVars
<1>11. CASE observeDisplay(c)
  <2>1. call[c].pc = "gate" /\ wire' = wire
    BY <1>11 DEF observeDisplay
  <2>2. CASE Fails(c)
    BY <2>1, <2>2, CapFails
  <2>3. CASE register(c, call[c]) /\ UNCHANGED <<captures, kept>>
    BY <1>f, <2>1, <2>3, CapRegisters DEF Capturing
  <2> QED BY <1>11, <2>2, <2>3 DEF observeDisplay, request
<1>12. CASE displayed(c)
  <2>1. call[c].pc = "wait" /\ ~call[c].act /\ wire' = wire /\ ~Capturing(c)
    BY <1>12 DEF displayed, Answered, Capturing
  <2>2. CASE Goto(c, "final") /\ UNCHANGED <<captures, kept>>
    BY <2>1, <2>2, CapGoes
  <2>3. CASE Fails(c)
    BY <2>1, <2>3, CapFails
  <2>4. CASE /\ call[c].req.action \in {"mice", "keys"}
             /\ register(c, [call[c] EXCEPT !.act = TRUE]) /\ UNCHANGED <<captures, kept>>
    <3> DEFINE r == [call[c] EXCEPT !.act = TRUE]
    <3>1. DOMAIN r = Fields /\ r.req = call[c].req
      BY <1>f DEF Fields
    <3>2. register(c, r)
      BY <2>4
    <3> HIDE DEF r
    <3> QED BY <2>1, <2>4, <3>1, <3>2, CapRegisters
  <2>5. CASE /\ call[c].req.action = "capture" /\ captureBudget
             /\ captures' = [d \in DOMAIN captures \union {c} |-> IF d = c THEN 0 ELSE captures[d]]
             /\ register(c, [call[c] EXCEPT !.act = TRUE, !.room = BytesLimit - Retained])
             /\ UNCHANGED kept
    <3> DEFINE r == [call[c] EXCEPT !.act = TRUE, !.room = BytesLimit - Retained]
    <3>1. /\ DOMAIN r = Fields /\ r.req = call[c].req /\ r.act
          /\ r.room = BytesLimit - Retained
      BY <1>f DEF Fields
    <3>2. register(c, r)
      BY <2>5
    <3> HIDE DEF r
    <3>3. /\ call'[c].pc = "writing" /\ call'[c].req = call[c].req /\ call'[c].act
          /\ call'[c].room = BytesLimit - Retained
          /\ \A d \in Calls \ {c} : Alike(d)
      BY <1>f, <3>1, <3>2, RegisterFacts
    <3>4. Capturing(c)'
      BY <2>5, <3>3 DEF Capturing
    <3> QED BY <2>1, <2>5, <3>3, <3>4, CapOpens
  <2> QED BY <1>12, <2>2, <2>3, <2>4, <2>5 DEF displayed, request
<1>13. CASE captureDisplay(c)
  <2>1. /\ call[c].pc = "wait" /\ call[c].act /\ call[c].req.action = "capture" /\ wire' = wire
        /\ Capturing(c)
    BY <1>13 DEF captureDisplay, Answered, Capturing
  <2>2. CASE /\ c \in DOMAIN captures /\ captureFits(c)
             /\ kept' = kept \union {c} /\ Goto(c, "final") /\ UNCHANGED captures
    <3>1. call'[c].pc = "final" /\ \A d \in Calls \ {c} : Alike(d)
      BY <1>f, <2>2, PutFacts
    <3> QED BY <2>1, <2>2, <3>1, CapKeeps
  <2>3. CASE Fails(c)
    BY <2>1, <2>3, CapFails
  <2> QED BY <1>13, <2>2, <2>3 DEF captureDisplay
<1>14. CASE captureAbandoned(c)
  <2>1. /\ call[c].pc = "wait" /\ ~call[c].act /\ captureBudget
        /\ wire' = wire /\ kept' = kept /\ Ended(c)
    BY <1>14 DEF captureAbandoned, Answered, qmpVars
  <2>2. call'[c].pc = "end" /\ \A d \in Calls \ {c} : Alike(d)
    BY <1>f, <2>1, PutFacts
  <2>3. CASE captures' = captures
    BY <2>1, <2>3, CapEnded
  <2>4. CASE captures' = [d \in DOMAIN captures \union {c} |-> IF d = c THEN 0 ELSE captures[d]]
    BY <2>1, <2>2, <2>4, CapOpens
  <2> QED BY <1>14, <2>3, <2>4 DEF captureAbandoned
<1>15. CASE acted(c)
  <2>1. /\ call[c].pc = "wait" /\ call[c].req.action \in {"mice", "keys"} /\ wire' = wire
        /\ ~Capturing(c)
    BY <1>15 DEF acted, Answered, Capturing
  <2>2. CASE Goto(c, "final") /\ UNCHANGED <<captures, kept>>
    BY <2>1, <2>2, CapGoes
  <2>3. CASE Fails(c)
    BY <2>1, <2>3, CapFails
  <2> QED BY <1>15, <2>2, <2>3 DEF acted
<1>16. CASE observed(c)
  BY <1>16, CapEnded DEF observed, qmpVars, fsVars
<1> QED BY <1>1, <1>2, <1>3, <1>4, <1>5, <1>6, <1>7, <1>8, <1>9, <1>10, <1>11, <1>12,
    <1>13, <1>14, <1>15, <1>16 DEF Step, Request

LEMMA CapNext == IInv /\ CapInv /\ [Next]_vars => CapInv'
<1> SUFFICES ASSUME IInv, CapInv, [Next]_vars PROVE CapInv'
  OBVIOUS
<1>t. DOMAIN call = Threads /\ Calls \subseteq Threads /\ Launch \in Threads /\ Launch \notin Calls
  BY Different DEF IInv, Types, Threads
<1>1. CASE \E c \in Calls : Step(c)
  BY <1>1, CapCalls
<1>2. ASSUME NEW c \in Threads, written(c) PROVE CapInv'
  <2>1. Sends(c)
    BY <1>2 DEF written, Sends
  <2>2. CASE Goto(c, "wait") /\ UNCHANGED fsVars
    BY <2>1, <2>2, CapSends DEF fsVars
  <2>3. CASE c # Launch /\ Abandons(c)
    BY <2>1, <2>3, CapFails DEF Abandons, Threads
  <2> QED BY <1>2, <2>2, <2>3 DEF written
<1>3. CASE Reader
  <2>1. wire' = wire /\ UNCHANGED <<captures, kept>>
    BY <1>3 DEF Reader, read, readEOF, fsVars
  <2>2. ASSUME NEW d \in Calls PROVE Alike(d)
    <3>1. d \in Threads /\ DOMAIN call[d] = Fields
      BY DEF IInv, Types, Threads
    <3>2. CASE UNCHANGED call
      BY <3>2 DEF Alike
    <3>3. CASE \E state : ReaderEnds(state)
      <4>1. call' = [c \in Threads |-> IF Here(c) /\ call[c].id \in qmp.pending
                                  THEN [call[c] EXCEPT !.box = Broken] ELSE call[c]]
        BY <3>3 DEF ReaderEnds
      <4> QED BY <3>1, <4>1 DEF Alike, Fields
    <3>4. ASSUME NEW c \in Threads, NEW box, call' = [call EXCEPT ![c].box = box] PROVE Alike(d)
      BY <1>t, <3>1, <3>4 DEF Alike, Fields
    <3>5. CASE \E c \in waiterOf(Head(lines).id) :
                 call' = [call EXCEPT ![c].box = [of |-> Head(lines).of, id |-> Head(lines).id,
                                                  value |-> Head(lines).value]]
      BY <3>4, <3>5 DEF waiterOf
    <3> QED BY <1>3, <3>2, <3>3, <3>5 DEF Reader, read, readEOF
  <2> QED BY <2>1, <2>2, CapStill
<1>4. CASE Waiter
  BY <1>4, CapStill DEF Waiter, wait, waitReturns, fsVars, qmpVars, Alike
<1>5. CASE Starter \/ startManagedVM
  <2>1. \E r : Put(Launch, r)
    BY <1>5 DEF Starter, connectQMP, connectFails, startManagedVM, register, Ended
  <2>2. \A d \in Calls : Alike(d)
    BY <1>t, <2>1, PutFacts
  <2>3. UNCHANGED <<captures, kept>> /\ (wire' = wire \/ wire' = <<>>)
    BY <1>5 DEF Starter, connectQMP, connectFails, startManagedVM, fsVars
  <2> QED BY <2>2, <2>3, CapStill
<1>6. CASE closeInput
  BY <1>6, CapStill DEF closeInput, fsVars, Alike
<1>7. CASE Calling
  <2>1. \E i \in DOMAIN CallOrder : \E req, names : Enter(CallOrder[i], req, names)
    BY <1>7 DEF Calling
  <2>2. PICK c \in Calls : \E req, names : Enter(c, req, names)
    BY <2>1 DEF Calls
  <2>3. /\ call[c].pc = "new" /\ UNCHANGED <<captures, kept, wire>>
        /\ \E req, names :
             Put(c, [Idle EXCEPT !.pc = "gate", !.on = sess.n, !.req = req, !.names = names])
    BY <2>2 DEF Enter, qmpVars, fsVars
  <2>4. ASSUME NEW req, NEW names,
               Put(c, [Idle EXCEPT !.pc = "gate", !.on = sess.n, !.req = req, !.names = names])
        PROVE  call'[c].pc = "gate" /\ \A d \in Calls \ {c} : Alike(d)
    <3>1. /\ call'[c] = [Idle EXCEPT !.pc = "gate", !.on = sess.n, !.req = req, !.names = names]
          /\ \A d \in Calls \ {c} : Alike(d)
      BY <1>t, <2>4, PutFacts
    <3> QED BY <3>1 DEF Idle
  <2> QED BY <2>3, <2>4, CapMoves DEF Capturing
<1>8. CASE Greet \/ GuestPowersOff \/ QemuExits \/ Misspeak
  <2>1. UNCHANGED <<call, captures, kept>>
    BY <1>8 DEF Greet, GuestPowersOff, QemuExits, Misspeak, qemuRest, fsVars
  <2>2. wire' = wire \/ wire' = <<>> \/ (wire # <<>> /\ wire' = Tail(wire))
    BY <1>8 DEF Greet, GuestPowersOff, QemuExits, Misspeak
  <2> QED BY <2>1, <2>2, CapStill DEF Alike
<1>9. CASE Serve
  <2>1. UNCHANGED <<call, kept>> /\ wire # <<>> /\ wire' = Tail(wire)
    BY <1>9 DEF Serve, qemuRest
  <2>2. CASE UNCHANGED captures
    BY <2>1, <2>2, CapStill DEF Alike
  <2>4. UNCHANGED captures
        \/ (\E size \in Frames :
               /\ Head(wire).kind = "screendump"
               /\ Head(wire).from \in DOMAIN captures
               /\ captures' = [captures EXCEPT ![Head(wire).from] = size])
    BY <1>9 DEF Serve
  <2> QED BY <2>1, <2>2, <2>4, CapServes
<1>10. CASE UNCHANGED vars
  BY <1>10, CapStill DEF vars, fsVars, qmpVars, Alike
<1> QED BY <1>1, <1>2, <1>3, <1>4, <1>5, <1>6, <1>7, <1>8, <1>9, <1>10 DEF Next

-----------------------------------------------------------------------------

\* vm_qmp.go:199-208: the answer a call acts on is QEMU's answer to that very request,
\* for any number of calls, sessions and requests that gave up before.
THEOREM AnswersAreOwn == Spec => []OwnAnswer
<1>1. IInv => OwnAnswer
  BY DEF IInv
<1> QED BY <1>1, Begins, NextKeeps, PTL DEF Spec

\* vm_display.go:205-211: the keys of a directive reach the guest at most once, and only
\* in the session that the directive named.
THEOREM KeysOnlyOnce == Spec => []KeysOnce
<1>1. IInv => KeysOnce
  BY DEF IInv, Keys
<1> QED BY <1>1, Begins, NextKeeps, PTL DEF Spec

\* vm_process.go:99-109: a guest that shut down is recorded as stopped, unless somebody
\* forced it, the record failed, or the stream was spoiled before.
THEOREM CleanStopsAreSeen == Spec => []CleanStopIsSeen
<1>1. IInv => CleanStopIsSeen
  BY DEF IInv, Verdict, CleanStopIsSeen
<1> QED BY <1>1, Begins, NextKeeps, PTL DEF Spec

\* vm_display.go:248 and 278: what is retained stays within the count and the bytes, with
\* failed clean-ups in between and an observation of the last session still at work.
THEOREM CapturesStayInBudget == Spec => []CapturesFit
<1>1. Init => IInv /\ CapInv
  BY Begins, CapBegins
<1>2. IInv /\ CapInv /\ [Next]_vars => (IInv /\ CapInv)'
  BY NextKeeps, CapNext
<1> QED BY <1>1, <1>2, CapFits, PTL DEF Spec
=============================================================================
