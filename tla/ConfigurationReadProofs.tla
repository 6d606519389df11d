----------------------- MODULE ConfigurationReadProofs -----------------------
(***************************************************************************)
(* Theorems about ConfigurationRead: no helper process survives, and the   *)
(* twenty steps of an observation implement the one of                     *)
(* ConfigurationSnapshot, for any drives, roots and number of changes.     *)
(***************************************************************************)
EXTENDS ConfigurationRead, TLAPS

-----------------------------------------------------------------------------
(* The inductive invariant *)

\* A later look at a cell: a newer identity, or the very same content.
Later(x, y) == x.at <= y.at /\ (x.at = y.at => x = y)

Places ==
    {"select", "start", "ask", "reply", "eof", "serial", "roots", "bind", "again",
     "compare", "final", "close", "drain", "streams", "done", "dead"}
Closing == {"close", "drain", "streams"}

\* The places of the thread after the second answer was heard in full.
Answered ==
    \/ pc \in {"eof", "compare", "final"}
    \/ pc \in Closing /\ ~closing.abort

\* The places after the second pass over the roots.
PassedTwice == Answered \/ (pc \in {"ask", "reply"} /\ mid # <<>>)

Types ==
    /\ pc \in Places /\ seq \in 0 .. 2 /\ changes \in Nat
    /\ closing \in [abort : BOOLEAN, exited : BOOLEAN, drained : BOOLEAN, forced : BOOLEAN,
                    verdict : {"open", "clean", "refused"}]
    /\ frame \in {"none", "good", "bad"}
    /\ helper \in [state : {"none", "up", "exited"}, code : {0, 1}, kids : BOOLEAN]
    /\ job \in {"none", "open", "closed"}

\* Whatever runs is in an open job, and no job is open at the end.
Contained ==
    /\ job # "open" => helper.state # "up" /\ ~helper.kids
    /\ pc \in {"select", "start", "compare", "final", "done", "dead"} => job # "open"

\* Every look is one at the PC as it was then, and first looks precede mid.
Looks ==
    /\ DOMAIN world = Cells
    /\ \A c \in Cells : world[c].at \in 0 .. changes
    /\ \A c \in DOMAIN first : c \in Cells /\ first[c].at \in Nat /\ Later(first[c], world[c])
    /\ \A c \in DOMAIN heard : c \in Rows /\ heard[c].at \in Nat /\ Later(heard[c], world[c])
    /\ mid # <<>> =>
         /\ DOMAIN mid = Cells
         /\ \A c \in Cells : mid[c].at \in Nat /\ Later(mid[c], world[c])
         /\ \A c \in DOMAIN first : Later(first[c], mid[c])
         /\ seq = 2 => \A c \in DOMAIN heard : Later(mid[c], heard[c])

\* Where the thread is, against what it has asked and taken.
Order ==
    /\ pc \in {"select", "start"} => seq = 0
    /\ pc \in {"serial", "roots", "bind", "again"} => seq = 1
    /\ pc \in {"select", "start", "serial", "roots", "bind"} => mid = <<>>
    /\ pc = "again" \/ Answered => mid # <<>>
    /\ pc = "ask" => IF mid = <<>> THEN seq = 0 ELSE seq = 1
    /\ pc = "reply" => IF mid = <<>> THEN seq = 1 ELSE seq = 2
    /\ Answered => seq = 2 /\ DOMAIN heard = Rows
    /\ pc = "eof" => frame = "good"
    /\ frame = "good" => DOMAIN heard = Rows
    /\ pc \notin {"done"} => result = <<>>

\* What was looked at first, by place.
FirstLooks ==
    /\ pc \notin {"select", "done", "dead"} =>
         SelectionCell \in DOMAIN first /\ first[SelectionCell] = selected
    /\ pc \in {"select", "start"} \/ (pc \in {"ask", "reply"} /\ mid = <<>>) => offered = {}
    /\ pc \in {"serial", "roots", "bind", "again"} \/ PassedTwice => Rows \subseteq DOMAIN first
    /\ pc = "serial" => todo \subseteq Rows
    /\ pc \in {"roots", "again"} => todo \subseteq RootSet
    /\ pc = "compare" => todo \subseteq {SerialCell(l) : l \in offered}
    /\ pc = "roots" => RootSet \ todo \subseteq DOMAIN first
    /\ pc \in {"bind", "again"} \/ PassedTwice => RootSet \subseteq DOMAIN first
    /\ \A l \in offered : /\ l \in Letters
                          /\ {RowCell(l), SerialCell(l)} \subseteq DOMAIN first
                          /\ first[RowCell(l)].val = "plain"

\* What was seen twice is what the PC was in between.
SecondLooks ==
    /\ pc = "again" => \A c \in RootSet \ todo : first[c] = mid[c]
    /\ PassedTwice => \A c \in RootSet : first[c] = mid[c]
    /\ pc = "compare" => \A l \in offered :
         SerialCell(l) \in todo \/ first[SerialCell(l)] = mid[SerialCell(l)]
    /\ pc = "final" => /\ \A c \in Rows : first[c] = mid[c]
                       /\ \A l \in offered : first[SerialCell(l)] = mid[SerialCell(l)]

IInv == Types /\ Contained /\ Looks /\ Order /\ FirstLooks /\ SecondLooks

-----------------------------------------------------------------------------
(* Lemmas about looks and cells *)

\* A look is no earlier than itself; looks are ordered; two equal looks have
\* nothing else in between.
LEMMA LaterFacts ==
    /\ \A x : x.at \in Nat => Later(x, x)
    /\ \A x, y, z : x.at \in Nat /\ y.at \in Nat /\ z.at \in Nat
                    /\ Later(x, y) /\ Later(y, z) => Later(x, z)
    /\ \A x, y : x.at \in Nat /\ y.at \in Nat /\ Later(x, y) /\ Later(y, x) => x = y
  BY DEF Later

\* The cells of volumes, serials, roots and the selection are distinct.
LEMMA CellFacts ==
    /\ Rows \subseteq Cells /\ RootSet \subseteq Cells /\ SelectionCell \in Cells
    /\ SelectionCell \notin Rows /\ SelectionCell \notin RootSet /\ Rows \cap RootSet = {}
    /\ \A l \in Letters :
         /\ RowCell(l) \in Rows /\ SerialCell(l) \in Cells
         /\ SerialCell(l) \notin Rows /\ SerialCell(l) \notin RootSet
         /\ SerialCell(l) # SelectionCell
         /\ \A m \in Letters : /\ SerialCell(l) = SerialCell(m) => l = m
                               /\ RowCell(l) = RowCell(m) => l = m
    /\ \A c \in Rows : \E l \in Letters : c = RowCell(l)
    /\ Cells \ Promise!Serials = Rows \union RootSet \union {SelectionCell}
  BY DEF Rows, RootSet, Cells, SelectionCell, RowCell, SerialCell, Promise!Rows, Promise!RootSet,
         Promise!Cells, Promise!SelectionCell, Promise!RowCell, Promise!SerialCell,
         Promise!Serials, Promise!RootCell

\* A new first look at a cell, before mid is taken.
LEMMA Noted ==
    ASSUME NEW c \in Cells, Note(c), Looks, mid = <<>>
    PROVE  /\ DOMAIN first' = DOMAIN first \union {c} /\ first'[c] = world[c]
           /\ \A x \in DOMAIN first \ {c} : first'[x] = first[x]
           /\ \A x \in DOMAIN first' : x \in Cells /\ first'[x].at \in Nat /\ Later(first'[x], world[x])
<1>1. /\ DOMAIN first' = DOMAIN first \union {c} /\ first'[c] = world[c]
      /\ \A x \in DOMAIN first \ {c} : first'[x] = first[x]
  BY DEF Note
<1>2. world[c].at \in Nat
  BY DEF Looks
<1> QED
  BY <1>1, <1>2, LaterFacts DEF Looks

\* A second look that equals the first: so was the cell when mid was taken.
LEMMA SeenTwice ==
    ASSUME Looks, mid # <<>>, NEW c \in DOMAIN first, world[c] = first[c]
    PROVE  first[c] = mid[c]
  BY LaterFacts DEF Looks

-----------------------------------------------------------------------------
(* The steps *)

\* What is killed is not running and has no children.
LEMMA KilledFacts ==
    ASSUME Types
    PROVE  /\ Killed(helper) \in [state : {"none", "up", "exited"}, code : {0, 1}, kids : BOOLEAN]
           /\ Killed(helper).state # "up" /\ ~Killed(helper).kids
<1>1. CASE helper.state = "up"
  BY <1>1 DEF Killed, Types
<1>2. CASE helper.state # "up"
  BY <1>2 DEF Killed, Types
<1> QED
  BY <1>1, <1>2

\* A failure closes the session: what was looked at does not matter any more.
LEMMA AbortKeeps ==
    ASSUME IInv, failure(TRUE), pc \in {"ask", "reply", "eof", "serial", "roots", "bind", "again"},
           UNCHANGED <<world, changes, first, heard, offered, selected, frame, helper, job, seq,
                       result>>,
           UNCHANGED mid \/ (mid' = world /\ seq = 1 /\ mid = <<>>)
    PROVE  IInv'
<1> USE DEF IInv
<1>a. /\ pc' = "close" /\ closing' = [closing EXCEPT !.abort = TRUE]
  BY DEF failure
<1>b. closing'.abort = TRUE /\ closing' \in [abort : BOOLEAN, exited : BOOLEAN, drained : BOOLEAN,
                                      forced : BOOLEAN, verdict : {"open", "clean", "refused"}]
  BY <1>a DEF Types
<1>c. ASSUME mid' = world PROVE Looks'
  <2>1. \A c \in Cells : world[c].at \in Nat
    BY DEF Looks
  <2>2. \A c \in Cells : Later(mid'[c], world'[c])
    BY <2>1, <1>c, LaterFacts
  <2> QED
    BY <1>c, <2>1, <2>2 DEF Looks
<1>1. Types'
  BY <1>a, <1>b DEF Types, Places
<1>2. Contained'
  BY <1>a, <1>b DEF Contained, Types, Places, Closing
<1>3. Looks'
  BY <1>c DEF Looks
<1>4. Order'
  BY <1>a, <1>b DEF Order, Answered, Closing, Types, Places
<1>5. FirstLooks'
  BY <1>a, <1>b DEF FirstLooks, PassedTwice, Answered, Order, Closing
<1>6. SecondLooks'
  BY <1>a, <1>b DEF SecondLooks, PassedTwice, Answered, Order, Closing
<1> QED
  BY <1>1, <1>2, <1>3, <1>4, <1>5, <1>6

\* The selection is looked at first.
LEMMA SelectFirstKeeps ==
    ASSUME IInv, SelectFirst
    PROVE  IInv'
<1> USE DEF IInv, pcVars, readVars, helperVars, sessVars, engineUnchanged, helperUnchanged,
            closeUnchanged
<1>a. /\ pc = "select" /\ UNCHANGED <<world, changes, heard, offered, selected, mid, seq, frame,
                                      helper, job,
                                      closing, result>>
      /\ \/ pc' = "start" /\ Note(SelectionCell) /\ world[SelectionCell] = selected
         \/ pc' = "done" /\ first' = first
  BY DEF SelectFirst, validateSelection
<1>b. SelectionCell \in Cells /\ mid = <<>>
  BY <1>a, CellFacts DEF Order
<1>c. Note(SelectionCell) => /\ DOMAIN first' = DOMAIN first \union {SelectionCell}
                             /\ first'[SelectionCell] = world[SelectionCell]
                             /\ \A c \in DOMAIN first \ {SelectionCell} : first'[c] = first[c]
                             /\ \A x \in DOMAIN first' : x \in Cells /\ first'[x].at \in Nat
                                                         /\ Later(first'[x], world[x])
  BY <1>b, Noted
<1>1. Types'
  BY <1>a, <1>b, <1>c DEF Types, Places
<1>2. Contained'
  BY <1>a, <1>b, <1>c DEF Contained, Types, Places, Closing
<1>3. Looks'
  BY <1>a, <1>b, <1>c DEF Looks
<1>4. Order'
  BY <1>a, <1>b, <1>c DEF Order, Answered, Closing, Types, Places
<1>5. FirstLooks'
  BY <1>a, <1>b, <1>c DEF FirstLooks, PassedTwice, Answered, Order, Closing
<1>6. SecondLooks'
  BY <1>a, <1>b, <1>c DEF SecondLooks, PassedTwice, Answered, Order, Closing
<1> QED
  BY <1>1, <1>2, <1>3, <1>4, <1>5, <1>6

\* The helper is started in its job, or nothing is.
LEMMA StartKeeps ==
    ASSUME IInv, startNativeStorageSession
    PROVE  IInv'
<1> USE DEF IInv, pcVars, readVars, helperVars, sessVars, engineUnchanged, helperUnchanged,
            closeUnchanged
<1>a. pc = "start"
  BY DEF startNativeStorageSession
<1>1. Types'
  BY <1>a DEF Types, Places, startNativeStorageSession
<1>2. Contained'
  BY <1>a DEF Contained, Types, Places, Closing, startNativeStorageSession
<1>3. Looks'
  BY <1>a DEF Looks, startNativeStorageSession
<1>4. Order'
  BY <1>a DEF Order, Answered, Closing, Types, Places, startNativeStorageSession
<1>5. FirstLooks'
  BY <1>a DEF FirstLooks, PassedTwice, Answered, Order, Closing, startNativeStorageSession
<1>6. SecondLooks'
  BY <1>a DEF SecondLooks, PassedTwice, Answered, Order, Closing, startNativeStorageSession
<1> QED
  BY <1>1, <1>2, <1>3, <1>4, <1>5, <1>6

\* One of two questions.
LEMMA AskKeeps ==
    ASSUME IInv, queryAsk
    PROVE  IInv'
<1> USE DEF IInv, pcVars, readVars, helperVars, sessVars, engineUnchanged, helperUnchanged,
            closeUnchanged
<1>a. \/ pc = "ask" /\ failure(TRUE) /\ UNCHANGED <<heard, frame, seq>>
      \/ /\ pc = "ask" /\ seq' = seq + 1 /\ heard' = <<>> /\ DOMAIN heard' = {} /\ frame' = "none"
         /\ pc' = "reply" /\ closing' = closing
  <2>1. \/ pc = "ask" /\ failure(TRUE) /\ UNCHANGED <<heard, frame, seq>>
        \/ /\ pc = "ask" /\ seq' = seq + 1 /\ heard' = <<>> /\ frame' = "none"
           /\ pc' = "reply" /\ closing' = closing
    BY DEF queryAsk
  <2>2. heard' = <<>> => DOMAIN heard' = {}
    OBVIOUS
  <2> QED
    BY <2>1, <2>2
<1>b. UNCHANGED <<world, changes, first, offered, selected, mid, helper, job, result>>
  BY DEF queryAsk
<1>1. CASE pc = "ask" /\ failure(TRUE) /\ UNCHANGED <<heard, frame, seq>>
  BY <1>1, <1>b, AbortKeeps
<1>2. CASE /\ pc = "ask" /\ seq' = seq + 1 /\ heard' = <<>> /\ DOMAIN heard' = {} /\ frame' = "none"
           /\ pc' = "reply" /\ closing' = closing
  <2>a. seq \in {0, 1} /\ (mid = <<>> => seq = 0) /\ (mid # <<>> => seq = 1)
    BY <1>2 DEF Order
  <2>1. Types'
    BY <1>2, <1>b, <2>a DEF Types, Places
  <2>2. Contained'
    BY <1>2, <1>b, <2>a DEF Contained, Types, Places, Closing
  <2>3. Looks'
    BY <1>2, <1>b, <2>a DEF Looks
  <2>4. Order'
    BY <1>2, <1>b, <2>a DEF Order, Answered, Closing, Types, Places
  <2>5. FirstLooks'
    BY <1>2, <1>b, <2>a DEF FirstLooks, PassedTwice, Answered, Order, Closing
  <2>6. SecondLooks'
    BY <1>2, <1>b, <2>a DEF SecondLooks, PassedTwice, Answered, Order, Closing
  <2> QED
    BY <2>1, <2>2, <2>3, <2>4, <2>5, <2>6
<1> QED
  BY <1>a, <1>1, <1>2

\* The pipes are closed under the reader.
LEMMA CancelKeeps ==
    ASSUME IInv, Cancel
    PROVE  IInv'
<1> USE DEF IInv, pcVars, readVars, helperVars, sessVars, engineUnchanged, helperUnchanged,
            closeUnchanged
<1>1. Types'
  BY DEF Cancel, Types, Places
<1>2. Contained'
  BY DEF Cancel, Contained, Types, Places, Closing
<1>3. Looks'
  BY DEF Cancel, Looks
<1>4. Order'
  BY DEF Cancel, Order, Answered, Closing, Types, Places
<1>5. FirstLooks'
  BY DEF Cancel, FirstLooks, PassedTwice, Answered, Order, Closing
<1>6. SecondLooks'
  BY DEF Cancel, SecondLooks, PassedTwice, Answered, Order, Closing
<1> QED
  BY <1>1, <1>2, <1>3, <1>4, <1>5, <1>6

\* An answer, or the end of the pipe.
LEMMA ReplyKeeps ==
    ASSUME IInv, queryReply
    PROVE  IInv'
<1> USE DEF IInv, pcVars, readVars, helperVars, sessVars, engineUnchanged, helperUnchanged,
            closeUnchanged
<1>a. /\ pc = "reply" /\ UNCHANGED <<world, changes, heard, offered, selected, mid, seq, frame,
                                     helper, job, result>>
      /\ \/ failure(TRUE) /\ UNCHANGED first
         \/ frame = "good" /\ seq = 2 /\ pc' = "eof" /\ UNCHANGED <<first, closing>>
         \/ /\ frame = "good" /\ seq # 2 /\ pc' = "serial" /\ todo' = Rows /\ closing' = closing
            /\ first' = [c \in DOMAIN first \union Rows |-> IF c \in Rows THEN heard[c] ELSE first[c]]
  BY DEF queryReply
<1>1. CASE failure(TRUE) /\ UNCHANGED first
  BY <1>1, <1>a, AbortKeeps
<1>2. CASE frame = "good" /\ seq = 2 /\ pc' = "eof" /\ UNCHANGED <<first, closing>>
  <2>a. mid # <<>> /\ DOMAIN heard = Rows
    BY <1>2, <1>a DEF Order
  <2>1. Types'
    BY <1>2, <1>a, <2>a DEF Types, Places
  <2>2. Contained'
    BY <1>2, <1>a, <2>a DEF Contained, Types, Places, Closing
  <2>3. Looks'
    BY <1>2, <1>a, <2>a DEF Looks
  <2>4. Order'
    BY <1>2, <1>a, <2>a DEF Order, Answered, Closing, Types, Places
  <2>5. FirstLooks'
    BY <1>2, <1>a, <2>a DEF FirstLooks, PassedTwice, Answered, Order, Closing
  <2>6. SecondLooks'
    BY <1>2, <1>a, <2>a DEF SecondLooks, PassedTwice, Answered, Order, Closing
  <2> QED
    BY <2>1, <2>2, <2>3, <2>4, <2>5, <2>6
<1>3. CASE /\ frame = "good" /\ seq # 2 /\ pc' = "serial" /\ todo' = Rows /\ closing' = closing
           /\ first' = [c \in DOMAIN first \union Rows |-> IF c \in Rows THEN heard[c] ELSE first[c]]
  <2>a. mid = <<>> /\ DOMAIN heard = Rows /\ seq = 1 /\ offered = {}
    BY <1>3, <1>a DEF Order, FirstLooks
  <2>b. /\ DOMAIN first' = DOMAIN first \union Rows
        /\ \A c \in Rows : first'[c] = heard[c]
        /\ \A c \in DOMAIN first \ Rows : first'[c] = first[c]
    BY <1>3
  <2>1. Types'
    BY <1>3, <1>a, <2>a, <2>b DEF Types, Places
  <2>2. Contained'
    BY <1>3, <1>a, <2>a, <2>b DEF Contained, Types, Places, Closing
  <2>3. Looks'
    BY <1>3, <1>a, <2>a, <2>b, CellFacts DEF Looks
  <2>4. Order'
    BY <1>3, <1>a, <2>a, <2>b DEF Order, Answered, Closing, Types, Places
  <2>5. FirstLooks'
    BY <1>3, <1>a, <2>a, <2>b, CellFacts DEF FirstLooks, PassedTwice, Answered, Order, Closing
  <2>6. SecondLooks'
    BY <1>3, <1>a, <2>a, <2>b DEF SecondLooks, PassedTwice, Answered, Order, Closing
  <2> QED
    BY <2>1, <2>2, <2>3, <2>4, <2>5, <2>6
<1> QED
  BY <1>a, <1>1, <1>2, <1>3

\* The end of the helper's output.
LEMMA EndKeeps ==
    ASSUME IInv, queryEnd
    PROVE  IInv'
<1> USE DEF IInv, pcVars, readVars, helperVars, sessVars, engineUnchanged, helperUnchanged,
            closeUnchanged
<1>a. /\ pc = "eof" /\ UNCHANGED <<world, changes, first, heard, offered, selected, mid, seq,
                                   frame, helper, job, result>>
      /\ failure(TRUE) \/ failure(FALSE)
  BY DEF queryEnd
<1>1. CASE failure(TRUE)
  BY <1>1, <1>a, AbortKeeps
<1>2. CASE failure(FALSE)
  <2>a. pc' = "close" /\ closing' = [closing EXCEPT !.abort = FALSE]
    BY <1>2 DEF failure
  <2>b. closing'.abort = FALSE /\ closing' \in [abort : BOOLEAN, exited : BOOLEAN, drained : BOOLEAN,
                                          forced : BOOLEAN, verdict : {"open", "clean", "refused"}]
    BY <2>a DEF Types
  <2>1. Types'
    BY <1>a, <2>a, <2>b DEF Types, Places
  <2>2. Contained'
    BY <1>a, <2>a, <2>b DEF Contained, Types, Places, Closing
  <2>3. Looks'
    BY <1>a, <2>a, <2>b DEF Looks
  <2>4. Order'
    BY <1>a, <2>a, <2>b DEF Order, Answered, Closing, Types, Places
  <2>5. FirstLooks'
    BY <1>a, <2>a, <2>b DEF FirstLooks, PassedTwice, Answered, Order, Closing
  <2>6. SecondLooks'
    BY <1>a, <2>a, <2>b DEF SecondLooks, PassedTwice, Answered, Order, Closing
  <2> QED
    BY <2>1, <2>2, <2>3, <2>4, <2>5, <2>6
<1> QED
  BY <1>a, <1>1, <1>2

\* A volume's serial is read.
LEMMA SerialKeeps ==
    ASSUME IInv, observeNativeNtfsSerial
    PROVE  IInv'
<1> USE DEF IInv, pcVars, readVars, helperVars, sessVars, engineUnchanged, helperUnchanged,
            closeUnchanged
<1>a. /\ pc = "serial" /\ UNCHANGED <<world, changes, heard, selected, mid, seq, frame, helper,
                                      job, result>>
  BY DEF observeNativeNtfsSerial
<1>b. PICK l \in Letters :
         /\ todo' = todo \ {RowCell(l)}
         /\ \/ failure(TRUE) /\ UNCHANGED <<first, offered>>
            \/ UNCHANGED <<pc, closing, first, offered>>
            \/ /\ first[RowCell(l)].val = "plain" /\ Note(SerialCell(l))
               /\ offered' = offered \union {l} /\ UNCHANGED <<pc, closing>>
  BY DEF observeNativeNtfsSerial
<1>1. CASE failure(TRUE) /\ UNCHANGED <<first, offered>>
  BY <1>1, <1>a, AbortKeeps
<1>2. CASE UNCHANGED <<pc, closing, first, offered>>
  <2>1. Types'
    BY <1>2, <1>a, <1>b DEF Types, Places
  <2>2. Contained'
    BY <1>2, <1>a, <1>b DEF Contained, Types, Places, Closing
  <2>3. Looks'
    BY <1>2, <1>a, <1>b DEF Looks
  <2>4. Order'
    BY <1>2, <1>a, <1>b DEF Order, Answered, Closing, Types, Places
  <2>5. FirstLooks'
    BY <1>2, <1>a, <1>b DEF FirstLooks, PassedTwice, Answered, Order, Closing
  <2>6. SecondLooks'
    BY <1>2, <1>a, <1>b DEF SecondLooks, PassedTwice, Answered, Order, Closing
  <2> QED
    BY <2>1, <2>2, <2>3, <2>4, <2>5, <2>6
<1>3. CASE /\ first[RowCell(l)].val = "plain" /\ Note(SerialCell(l))
           /\ offered' = offered \union {l} /\ UNCHANGED <<pc, closing>>
  <2>a. /\ mid = <<>> /\ seq = 1 /\ todo' \subseteq Rows /\ Rows \subseteq DOMAIN first
        /\ SelectionCell \in DOMAIN first /\ first[SelectionCell] = selected
    BY <1>a, <1>b DEF Order, FirstLooks
  <2>b. /\ DOMAIN first' = DOMAIN first \union {SerialCell(l)}
        /\ first'[SerialCell(l)] = world[SerialCell(l)]
        /\ \A c \in DOMAIN first \ {SerialCell(l)} : first'[c] = first[c]
        /\ \A x \in DOMAIN first' : x \in Cells /\ first'[x].at \in Nat /\ Later(first'[x], world[x])
    BY <1>3, <2>a, Noted, CellFacts
  <2>1. Types'
    BY <1>3, <1>a, <2>a, <2>b DEF Types, Places
  <2>2. Contained'
    BY <1>3, <1>a, <2>a, <2>b DEF Contained, Types, Places, Closing
  <2>3. Looks'
    BY <1>3, <1>a, <2>a, <2>b DEF Looks
  <2>4. Order'
    BY <1>3, <1>a, <2>a, <2>b DEF Order, Answered, Closing, Types, Places
  <2>5. FirstLooks'
    <3>1. first'[SelectionCell] = selected
      BY <2>a, <2>b, CellFacts
    <3>2. ASSUME NEW m \in offered'
          PROVE  /\ m \in Letters /\ {RowCell(m), SerialCell(m)} \subseteq DOMAIN first'
                 /\ first'[RowCell(m)].val = "plain"
      BY <1>3, <2>a, <2>b, CellFacts DEF FirstLooks
    <3> QED
      BY <1>3, <1>a, <2>a, <2>b, <3>1, <3>2 DEF FirstLooks, PassedTwice, Answered
  <2>6. SecondLooks'
    BY <1>3, <1>a, <2>a, <2>b DEF SecondLooks, PassedTwice, Answered, Order, Closing
  <2> QED
    BY <2>1, <2>2, <2>3, <2>4, <2>5, <2>6
<1> QED
  BY <1>b, <1>1, <1>2, <1>3

\* All volumes were read.
LEMMA VolumesReadKeeps ==
    ASSUME IInv, VolumesRead
    PROVE  IInv'
<1> USE DEF IInv, pcVars, readVars, helperVars, sessVars, engineUnchanged, helperUnchanged,
            closeUnchanged
<1>1. Types'
  BY DEF VolumesRead, Types, Places
<1>2. Contained'
  BY DEF VolumesRead, Contained, Types, Places, Closing
<1>3. Looks'
  BY DEF VolumesRead, Looks
<1>4. Order'
  BY DEF VolumesRead, Order, Answered, Closing, Types, Places
<1>5. FirstLooks'
  BY DEF VolumesRead, FirstLooks, PassedTwice, Answered, Order, Closing
<1>6. SecondLooks'
  BY DEF VolumesRead, SecondLooks, PassedTwice, Answered, Order, Closing
<1> QED
  BY <1>1, <1>2, <1>3, <1>4, <1>5, <1>6

\* A root's files are read.
LEMMA CaptureKeeps ==
    ASSUME IInv, captureNativeConfigurationRoot
    PROVE  IInv'
<1> USE DEF IInv, pcVars, readVars, helperVars, sessVars, engineUnchanged, helperUnchanged,
            closeUnchanged
<1>a. /\ pc = "roots" /\ UNCHANGED <<world, changes, heard, offered, selected, mid, seq, frame,
                                     helper, job, result>>
  BY DEF captureNativeConfigurationRoot
<1>b. PICK c \in todo :
         /\ todo' = todo \ {c}
         /\ \/ Note(c) /\ UNCHANGED <<pc, closing>>
            \/ failure(TRUE) /\ UNCHANGED first
  BY DEF captureNativeConfigurationRoot
<1>1. CASE failure(TRUE) /\ UNCHANGED first
  BY <1>1, <1>a, AbortKeeps
<1>2. CASE Note(c) /\ UNCHANGED <<pc, closing>>
  <2>a. /\ mid = <<>> /\ seq = 1 /\ todo \subseteq RootSet /\ c \in RootSet /\ Rows \subseteq DOMAIN first
        /\ SelectionCell \in DOMAIN first /\ first[SelectionCell] = selected
        /\ RootSet \ todo \subseteq DOMAIN first
    BY <1>a, <1>b DEF Order, FirstLooks
  <2>b. /\ DOMAIN first' = DOMAIN first \union {c}
        /\ first'[c] = world[c]
        /\ \A x \in DOMAIN first \ {c} : first'[x] = first[x]
        /\ \A x \in DOMAIN first' : x \in Cells /\ first'[x].at \in Nat /\ Later(first'[x], world[x])
    BY <1>2, <2>a, Noted, CellFacts
  <2>1. Types'
    BY <1>2, <1>a, <1>b, <2>a, <2>b DEF Types, Places
  <2>2. Contained'
    BY <1>2, <1>a, <1>b, <2>a, <2>b DEF Contained, Types, Places, Closing
  <2>3. Looks'
    BY <1>2, <1>a, <1>b, <2>a, <2>b DEF Looks
  <2>4. Order'
    BY <1>2, <1>a, <1>b, <2>a, <2>b DEF Order, Answered, Closing, Types, Places
  <2>5. FirstLooks'
    <3>1. first'[SelectionCell] = selected
      BY <2>a, <2>b, CellFacts
    <3>2. ASSUME NEW m \in offered'
          PROVE  /\ m \in Letters /\ {RowCell(m), SerialCell(m)} \subseteq DOMAIN first'
                 /\ first'[RowCell(m)].val = "plain"
      BY <1>a, <2>a, <2>b, CellFacts DEF FirstLooks
    <3> QED
      BY <1>2, <1>a, <1>b, <2>a, <2>b, <3>1, <3>2 DEF FirstLooks, PassedTwice, Answered
  <2>6. SecondLooks'
    BY <1>2, <1>a, <1>b, <2>a, <2>b DEF SecondLooks, PassedTwice, Answered, Order, Closing
  <2> QED
    BY <2>1, <2>2, <2>3, <2>4, <2>5, <2>6
<1> QED
  BY <1>b, <1>1, <1>2

\* All roots were read.
LEMMA RootsReadKeeps ==
    ASSUME IInv, RootsRead
    PROVE  IInv'
<1> USE DEF IInv, pcVars, readVars, helperVars, sessVars, engineUnchanged, helperUnchanged,
            closeUnchanged
<1>1. Types'
  BY DEF RootsRead, Types, Places
<1>2. Contained'
  BY DEF RootsRead, Contained, Types, Places, Closing
<1>3. Looks'
  BY DEF RootsRead, Looks
<1>4. Order'
  BY DEF RootsRead, Order, Answered, Closing, Types, Places
<1>5. FirstLooks'
  BY DEF RootsRead, FirstLooks, PassedTwice, Answered, Order, Closing
<1>6. SecondLooks'
  BY DEF RootsRead, SecondLooks, PassedTwice, Answered, Order, Closing
<1> QED
  BY <1>1, <1>2, <1>3, <1>4, <1>5, <1>6

\* A root is bound: the instant of the observation.
LEMMA BindKeeps ==
    ASSUME IInv, readNativeConfiguration
    PROVE  IInv'
<1> USE DEF IInv, pcVars, readVars, helperVars, sessVars, engineUnchanged, helperUnchanged,
            closeUnchanged
<1>a. /\ pc = "bind" /\ mid' = world
      /\ UNCHANGED <<world, changes, first, heard, offered, selected, seq, frame, helper, job,
                     result>>
      /\ failure(TRUE) \/ (pc' = "again" /\ todo' = RootSet /\ closing' = closing)
  BY DEF readNativeConfiguration
<1>b. mid = <<>> /\ seq = 1 /\ RootSet \subseteq DOMAIN first /\ Rows \subseteq DOMAIN first
  BY <1>a DEF Order, FirstLooks
<1>1. CASE failure(TRUE)
  BY <1>1, <1>a, <1>b, AbortKeeps
<1>2. CASE pc' = "again" /\ todo' = RootSet /\ closing' = closing
  <2>a. \A c \in Cells : world[c].at \in Nat /\ Later(world[c], world[c])
    BY LaterFacts DEF Looks
  <2>b. mid' # <<>>
    <3>1. DOMAIN mid' # {}
      BY <1>a, CellFacts DEF Looks
    <3> QED
      BY <3>1
  <2>1. Types'
    BY <1>2, <1>a, <1>b, <2>a, <2>b DEF Types, Places
  <2>2. Contained'
    BY <1>2, <1>a, <1>b, <2>a, <2>b DEF Contained, Types, Places, Closing
  <2>3. Looks'
    BY <1>2, <1>a, <1>b, <2>a, <2>b DEF Looks
  <2>4. Order'
    BY <1>2, <1>a, <1>b, <2>a, <2>b DEF Order, Answered, Closing, Types, Places
  <2>5. FirstLooks'
    BY <1>2, <1>a, <1>b, <2>a, <2>b DEF FirstLooks, PassedTwice, Answered, Order, Closing
  <2>6. SecondLooks'
    BY <1>2, <1>a, <1>b, <2>a, <2>b DEF SecondLooks, PassedTwice, Answered, Order, Closing
  <2> QED
    BY <2>1, <2>2, <2>3, <2>4, <2>5, <2>6
<1> QED
  BY <1>a, <1>1, <1>2

\* A root is looked at again.
LEMMA RevalidateKeeps ==
    ASSUME IInv, revalidateRoot
    PROVE  IInv'
<1> USE DEF IInv, pcVars, readVars, helperVars, sessVars, engineUnchanged, helperUnchanged,
            closeUnchanged
<1>a. /\ pc = "again"
      /\ UNCHANGED <<world, changes, first, heard, offered, selected, mid, seq, frame, helper,
                     job, result>>
  BY DEF revalidateRoot
<1>b. PICK c \in todo : /\ todo' = todo \ {c}
                        /\ failure(TRUE) \/ (matches(c) /\ UNCHANGED <<pc, closing>>)
  BY DEF revalidateRoot
<1>1. CASE failure(TRUE)
  BY <1>1, <1>a, AbortKeeps
<1>2. CASE matches(c) /\ UNCHANGED <<pc, closing>>
  <2>a. mid # <<>> /\ c \in RootSet /\ c \in DOMAIN first
    BY <1>a, <1>b DEF Order, FirstLooks
  <2>b. first[c] = mid[c]
    BY <1>2, <2>a, SeenTwice DEF matches
  <2>1. Types'
    BY <1>2, <1>a, <1>b, <2>a, <2>b DEF Types, Places
  <2>2. Contained'
    BY <1>2, <1>a, <1>b, <2>a, <2>b DEF Contained, Types, Places, Closing
  <2>3. Looks'
    BY <1>2, <1>a, <1>b, <2>a, <2>b DEF Looks
  <2>4. Order'
    BY <1>2, <1>a, <1>b, <2>a, <2>b DEF Order, Answered, Closing, Types, Places
  <2>5. FirstLooks'
    BY <1>2, <1>a, <1>b, <2>a, <2>b DEF FirstLooks, PassedTwice, Answered, Order, Closing
  <2>6. SecondLooks'
    BY <1>2, <1>a, <1>b, <2>a, <2>b DEF SecondLooks, PassedTwice, Answered, Order, Closing
  <2> QED
    BY <2>1, <2>2, <2>3, <2>4, <2>5, <2>6
<1> QED
  BY <1>b, <1>1, <1>2

\* The second pass over the roots is over.
LEMMA AskAgainKeeps ==
    ASSUME IInv, AskAgain
    PROVE  IInv'
<1> USE DEF IInv, pcVars, readVars, helperVars, sessVars, engineUnchanged, helperUnchanged,
            closeUnchanged
<1>1. Types'
  BY DEF AskAgain, Types, Places
<1>2. Contained'
  BY DEF AskAgain, Contained, Types, Places, Closing
<1>3. Looks'
  BY DEF AskAgain, Looks
<1>4. Order'
  BY DEF AskAgain, Order, Answered, Closing, Types, Places
<1>5. FirstLooks'
  BY DEF AskAgain, FirstLooks, PassedTwice, Answered, Order, Closing
<1>6. SecondLooks'
  BY DEF AskAgain, SecondLooks, PassedTwice, Answered, Order, Closing
<1> QED
  BY <1>1, <1>2, <1>3, <1>4, <1>5, <1>6

\* Rows and serials are compared.
LEMMA CompareKeeps ==
    ASSUME IInv, observeNativeStorage
    PROVE  IInv'
<1> USE DEF IInv, pcVars, readVars, helperVars, sessVars, engineUnchanged, helperUnchanged,
            closeUnchanged
<1>a. /\ pc = "compare"
      /\ UNCHANGED <<world, changes, first, heard, offered, selected, mid, seq, frame, helper,
                     job, closing,
                     result>>
  BY DEF observeNativeStorage
<1>b. \/ pc' = "done"
      \/ \E c \in todo : todo' = todo \ {c} /\ pc' = "compare" /\ world[c] = first[c]
      \/ todo = {} /\ pc' = "final" /\ \A c \in Rows : heard[c] = first[c]
  BY DEF observeNativeStorage
<1>c. /\ mid # <<>> /\ seq = 2 /\ DOMAIN heard = Rows /\ Rows \subseteq DOMAIN first
      /\ \A c \in Rows : c \in Cells
      /\ todo \subseteq {SerialCell(l) : l \in offered}
      /\ \A l \in offered : l \in Letters /\ SerialCell(l) \in DOMAIN first
  BY <1>a, CellFacts DEF Order, FirstLooks, PassedTwice, Answered
<1>1. CASE pc' = "done"
  <2>1. Types'
    BY <1>1, <1>a DEF Types, Places
  <2>2. Contained'
    BY <1>1, <1>a DEF Contained, Types, Places, Closing
  <2>3. Looks'
    BY <1>1, <1>a DEF Looks
  <2>4. Order'
    BY <1>1, <1>a DEF Order, Answered, Closing, Types, Places
  <2>5. FirstLooks'
    BY <1>1, <1>a DEF FirstLooks, PassedTwice, Answered, Order, Closing
  <2>6. SecondLooks'
    BY <1>1, <1>a DEF SecondLooks, PassedTwice, Answered, Order, Closing
  <2> QED
    BY <2>1, <2>2, <2>3, <2>4, <2>5, <2>6
<1>2. CASE \E c \in todo : todo' = todo \ {c} /\ pc' = "compare" /\ world[c] = first[c]
  <2>a. PICK c \in todo : todo' = todo \ {c} /\ pc' = "compare" /\ world[c] = first[c]
    BY <1>2
  <2>b. first[c] = mid[c]
    BY <1>c, <2>a, SeenTwice
  <2>1. Types'
    BY <1>a, <1>c, <2>a, <2>b DEF Types, Places
  <2>2. Contained'
    BY <1>a, <1>c, <2>a, <2>b DEF Contained, Types, Places, Closing
  <2>3. Looks'
    BY <1>a, <1>c, <2>a, <2>b DEF Looks
  <2>4. Order'
    BY <1>a, <1>c, <2>a, <2>b DEF Order, Answered, Closing, Types, Places
  <2>5. FirstLooks'
    BY <1>a, <1>c, <2>a, <2>b DEF FirstLooks, PassedTwice, Answered, Order, Closing
  <2>6. SecondLooks'
    BY <1>a, <1>c, <2>a, <2>b DEF SecondLooks, PassedTwice, Answered, Order, Closing
  <2> QED
    BY <2>1, <2>2, <2>3, <2>4, <2>5, <2>6
<1>3. CASE todo = {} /\ pc' = "final" /\ \A c \in Rows : heard[c] = first[c]
  <2>a. \A c \in Rows : first[c] = mid[c]
    <3>1. \A c \in Rows : /\ first[c].at \in Nat /\ mid[c].at \in Nat
                          /\ Later(first[c], mid[c]) /\ Later(mid[c], first[c])
      BY <1>3, <1>c DEF Looks
    <3> QED
      BY <3>1, LaterFacts
  <2>1. Types'
    BY <1>3, <1>a, <1>c, <2>a DEF Types, Places
  <2>2. Contained'
    BY <1>3, <1>a, <1>c, <2>a DEF Contained, Types, Places, Closing
  <2>3. Looks'
    BY <1>3, <1>a, <1>c, <2>a DEF Looks
  <2>4. Order'
    BY <1>3, <1>a, <1>c, <2>a DEF Order, Answered, Closing, Types, Places
  <2>5. FirstLooks'
    BY <1>3, <1>a, <1>c, <2>a DEF FirstLooks, PassedTwice, Answered, Order, Closing
  <2>6. SecondLooks'
    BY <1>3, <1>a, <1>c, <2>a DEF SecondLooks, PassedTwice, Answered, Order, Closing
  <2> QED
    BY <2>1, <2>2, <2>3, <2>4, <2>5, <2>6
<1> QED
  BY <1>b, <1>1, <1>2, <1>3

\* The selection is looked at last.
LEMMA SelectLastKeeps ==
    ASSUME IInv, SelectLast
    PROVE  IInv'
<1> USE DEF IInv, pcVars, readVars, helperVars, sessVars, engineUnchanged, helperUnchanged,
            closeUnchanged
<1>1. Types'
  BY DEF SelectLast, Types, Places
<1>2. Contained'
  BY DEF SelectLast, Contained, Types, Places, Closing
<1>3. Looks'
  BY DEF SelectLast, Looks
<1>4. Order'
  BY DEF SelectLast, Order, Answered, Closing, Types, Places
<1>5. FirstLooks'
  BY DEF SelectLast, FirstLooks, PassedTwice, Answered, Order, Closing
<1>6. SecondLooks'
  BY DEF SelectLast, SecondLooks, PassedTwice, Answered, Order, Closing
<1> QED
  BY <1>1, <1>2, <1>3, <1>4, <1>5, <1>6

\* The helper gets its time to leave.
LEMMA closeWaitKeeps ==
    ASSUME IInv, closeWait
    PROVE  IInv'
<1> USE DEF IInv, pcVars, readVars, helperVars, sessVars, engineUnchanged, helperUnchanged,
            closeUnchanged
<1>a. /\ pc = "close" /\ pc' = "drain"
      /\ UNCHANGED <<world, changes, first, heard, offered, selected, mid, seq, frame, job, todo,
                     result>>
  BY DEF closeWait
<1>b. closing' \in [abort : BOOLEAN, exited : BOOLEAN, drained : BOOLEAN,
                    forced : BOOLEAN, verdict : {"open", "clean", "refused"}]
      /\ closing'.abort = closing.abort
  <2>1. closing' = closing \/ closing' = [closing EXCEPT !.exited = TRUE]
    BY DEF closeWait
  <2> QED
    BY <2>1 DEF Types
<1>c. helper' \in [state : {"none", "up", "exited"}, code : {0, 1}, kids : BOOLEAN]
      /\ (job # "open" => helper'.state # "up" /\ ~helper'.kids)
  <2>1. helper' = helper \/ helper' = Killed(helper)
    BY DEF closeWait
  <2> QED
    BY <2>1, KilledFacts DEF Types, Contained
<1>1. Types'
  BY <1>a, <1>b, <1>c DEF Types, Places
<1>2. Contained'
  BY <1>a, <1>b, <1>c DEF Contained, Types, Places, Closing
<1>3. Looks'
  BY <1>a, <1>b, <1>c DEF Looks
<1>4. Order'
  BY <1>a, <1>b, <1>c DEF Order, Answered, Closing, Types, Places
<1>5. FirstLooks'
  BY <1>a, <1>b, <1>c DEF FirstLooks, PassedTwice, Answered, Order, Closing
<1>6. SecondLooks'
  BY <1>a, <1>b, <1>c DEF SecondLooks, PassedTwice, Answered, Order, Closing
<1> QED
  BY <1>1, <1>2, <1>3, <1>4, <1>5, <1>6

\* What is left in the job is terminated.
LEMMA closeDrainKeeps ==
    ASSUME IInv, closeDrain
    PROVE  IInv'
<1> USE DEF IInv, pcVars, readVars, helperVars, sessVars, engineUnchanged, helperUnchanged,
            closeUnchanged
<1>a. /\ pc = "drain" /\ pc' = "streams"
      /\ UNCHANGED <<world, changes, first, heard, offered, selected, mid, seq, frame, job, todo,
                     result>>
  BY DEF closeDrain
<1>b. closing' \in [abort : BOOLEAN, exited : BOOLEAN, drained : BOOLEAN,
                    forced : BOOLEAN, verdict : {"open", "clean", "refused"}]
      /\ closing'.abort = closing.abort
  <2>1. \/ closing' = [closing EXCEPT !.drained = TRUE]
        \/ closing' = [closing EXCEPT !.forced = TRUE, !.drained = TRUE]
        \/ closing' = [closing EXCEPT !.forced = TRUE]
    BY DEF closeDrain
  <2> QED
    BY <2>1 DEF Types
<1>c. helper' \in [state : {"none", "up", "exited"}, code : {0, 1}, kids : BOOLEAN]
      /\ (job # "open" => helper'.state # "up" /\ ~helper'.kids)
  <2>1. helper' = helper \/ helper' = Killed(helper)
    BY DEF closeDrain
  <2> QED
    BY <2>1, KilledFacts DEF Types, Contained
<1>1. Types'
  BY <1>a, <1>b, <1>c DEF Types, Places
<1>2. Contained'
  BY <1>a, <1>b, <1>c DEF Contained, Types, Places, Closing
<1>3. Looks'
  BY <1>a, <1>b, <1>c DEF Looks
<1>4. Order'
  BY <1>a, <1>b, <1>c DEF Order, Answered, Closing, Types, Places
<1>5. FirstLooks'
  BY <1>a, <1>b, <1>c DEF FirstLooks, PassedTwice, Answered, Order, Closing
<1>6. SecondLooks'
  BY <1>a, <1>b, <1>c DEF SecondLooks, PassedTwice, Answered, Order, Closing
<1> QED
  BY <1>1, <1>2, <1>3, <1>4, <1>5, <1>6

\* The verdict is kept and the job's handle closed.
LEMMA closeStreamsKeeps ==
    ASSUME IInv, closeStreams
    PROVE  IInv'
<1> USE DEF IInv, pcVars, readVars, helperVars, sessVars, engineUnchanged, helperUnchanged,
            closeUnchanged
<1>a. /\ pc = "streams"
      /\ UNCHANGED <<world, changes, first, heard, offered, selected, mid, seq, frame, result>>
  BY DEF closeStreams
<1>b. PICK joined, v : /\ v \in {"clean", "refused"}
                        /\ closing' = [[closing EXCEPT !.forced = closing.forced \/ ~joined]
                                         EXCEPT !.verdict = v]
  BY Zenon DEF closeStreams, closeVerdict
<1>c. closing' \in [abort : BOOLEAN, exited : BOOLEAN, drained : BOOLEAN,
                    forced : BOOLEAN, verdict : {"open", "clean", "refused"}]
      /\ closing'.abort = closing.abort
  <2>1. (closing.forced \/ ~joined) \in BOOLEAN
    BY Zenon
  <2> HIDE DEF Types
  <2> DEFINE x == closing.forced \/ ~joined
  <2>2. x \in BOOLEAN /\ closing' = [[closing EXCEPT !.forced = x] EXCEPT !.verdict = v]
    BY <1>b, <2>1
  <2> HIDE DEF x
  <2> QED
    BY <1>b, <2>2 DEF Types
<1>d. /\ helper' \in [state : {"none", "up", "exited"}, code : {0, 1}, kids : BOOLEAN]
      /\ helper'.state # "up" /\ ~helper'.kids /\ job' = "closed"
  BY DEF closeStreams, CloseHandle, Killed, Types
<1>e. \/ pc' = "done"
      \/ pc' = "compare" /\ todo' = {SerialCell(l) : l \in offered} /\ ~closing.abort
  BY DEF closeStreams, Types
<1>1. Types'
  BY <1>a, <1>c, <1>d, <1>e DEF Types, Places
<1>2. Contained'
  BY <1>a, <1>c, <1>d, <1>e DEF Contained, Types, Places, Closing
<1>3. Looks'
  BY <1>a, <1>c, <1>d, <1>e DEF Looks
<1>4. Order'
  BY <1>a, <1>c, <1>d, <1>e DEF Order, Answered, Closing, Types, Places
<1>5. FirstLooks'
  BY <1>a, <1>c, <1>d, <1>e DEF FirstLooks, PassedTwice, Answered, Order, Closing
<1>6. SecondLooks'
  BY <1>a, <1>c, <1>d, <1>e DEF SecondLooks, PassedTwice, Answered, Order, Closing
<1> QED
  BY <1>1, <1>2, <1>3, <1>4, <1>5, <1>6

\* The helper looks at a volume.
LEMMA HelperReadsKeeps ==
    ASSUME IInv, HelperReads
    PROVE  IInv'
<1> USE DEF IInv, pcVars, readVars, helperVars, sessVars, engineUnchanged, helperUnchanged,
            closeUnchanged
<1>a. /\ pc \in {"reply", "eof"} /\ frame = "none" /\ pc # "eof"
      /\ UNCHANGED <<world, changes, pc, first, offered, selected, mid, seq, frame, helper, job,
                     closing, todo, result>>
  BY DEF HelperReads, Asked, Order
<1>b. PICK c \in Rows : heard' = [x \in DOMAIN heard \union {c} |-> IF x = c THEN world[c] ELSE heard[x]]
  BY DEF HelperReads
<1>c. /\ DOMAIN heard' = DOMAIN heard \union {c} /\ heard'[c] = world[c]
      /\ \A x \in DOMAIN heard \ {c} : heard'[x] = heard[x]
  BY <1>b
<1>d. /\ c \in Cells /\ world[c].at \in Nat /\ Later(world[c], world[c])
      /\ mid # <<>> => Later(mid[c], world[c])
  BY <1>b, CellFacts, LaterFacts DEF Looks
<1>1. Types'
  BY <1>a, <1>b, <1>c, <1>d DEF Types, Places
<1>2. Contained'
  BY <1>a, <1>b, <1>c, <1>d DEF Contained, Types, Places, Closing
<1>3. Looks'
  BY <1>a, <1>b, <1>c, <1>d DEF Looks
<1>4. Order'
  BY <1>a, <1>b, <1>c, <1>d DEF Order, Answered, Closing, Types, Places
<1>5. FirstLooks'
  BY <1>a, <1>b, <1>c, <1>d DEF FirstLooks, PassedTwice, Answered, Order, Closing
<1>6. SecondLooks'
  BY <1>a, <1>b, <1>c, <1>d DEF SecondLooks, PassedTwice, Answered, Order, Closing
<1> QED
  BY <1>1, <1>2, <1>3, <1>4, <1>5, <1>6

\* The helper answers.
LEMMA HelperAnswersKeeps ==
    ASSUME IInv, HelperAnswers
    PROVE  IInv'
<1> USE DEF IInv, pcVars, readVars, helperVars, sessVars, engineUnchanged, helperUnchanged,
            closeUnchanged
<1>1. Types'
  BY DEF HelperAnswers, Asked, Types, Places
<1>2. Contained'
  BY DEF HelperAnswers, Asked, Contained, Types, Places, Closing
<1>3. Looks'
  BY DEF HelperAnswers, Asked, Looks
<1>4. Order'
  BY DEF HelperAnswers, Asked, Order, Answered, Closing, Types, Places
<1>5. FirstLooks'
  BY DEF HelperAnswers, Asked, FirstLooks, PassedTwice, Answered, Order, Closing
<1>6. SecondLooks'
  BY DEF HelperAnswers, Asked, SecondLooks, PassedTwice, Answered, Order, Closing
<1> QED
  BY <1>1, <1>2, <1>3, <1>4, <1>5, <1>6

\* The helper or a child of it exits.
LEMMA HelperExitsKeeps ==
    ASSUME IInv, HelperExits \/ KidExits
    PROVE  IInv'
<1> USE DEF IInv, pcVars, readVars, helperVars, sessVars, engineUnchanged, helperUnchanged,
            closeUnchanged
<1>1. Types'
  BY DEF HelperExits, KidExits, Types, Places
<1>2. Contained'
  BY DEF HelperExits, KidExits, Contained, Types, Places, Closing
<1>3. Looks'
  BY DEF HelperExits, KidExits, Looks
<1>4. Order'
  BY DEF HelperExits, KidExits, Order, Answered, Closing, Types, Places
<1>5. FirstLooks'
  BY DEF HelperExits, KidExits, FirstLooks, PassedTwice, Answered, Order, Closing
<1>6. SecondLooks'
  BY DEF HelperExits, KidExits, SecondLooks, PassedTwice, Answered, Order, Closing
<1> QED
  BY <1>1, <1>2, <1>3, <1>4, <1>5, <1>6

\* A budget ends.
LEMMA ExpireKeeps ==
    ASSUME IInv, Expire
    PROVE  IInv'
<1> USE DEF IInv, pcVars, readVars, helperVars, sessVars, engineUnchanged, helperUnchanged,
            closeUnchanged
<1>1. Types'
  BY DEF Expire, Types, Places
<1>2. Contained'
  BY DEF Expire, Contained, Types, Places, Closing
<1>3. Looks'
  BY DEF Expire, Looks
<1>4. Order'
  BY DEF Expire, Order, Answered, Closing, Types, Places
<1>5. FirstLooks'
  BY DEF Expire, FirstLooks, PassedTwice, Answered, Order, Closing
<1>6. SecondLooks'
  BY DEF Expire, SecondLooks, PassedTwice, Answered, Order, Closing
<1> QED
  BY <1>1, <1>2, <1>3, <1>4, <1>5, <1>6

\* The PC changes.
LEMMA ChangesKeeps ==
    ASSUME IInv, WorldChanges
    PROVE  IInv'
<1> USE DEF IInv, pcVars, readVars, helperVars, sessVars, engineUnchanged, helperUnchanged,
            closeUnchanged
<1>a. /\ UNCHANGED <<pc, first, heard, offered, selected, mid, seq, frame, helper, job, closing,
                     todo, result>>
      /\ changes' = changes + 1
  BY DEF WorldChanges
<1>look. PICK c \in Cells : \E v \in Values(c) :
                world' = [world EXCEPT ![c] = [at |-> changes + 1, val |-> v]]
  BY DEF WorldChanges
<1>b. PICK v \in Values(c) : world' = [world EXCEPT ![c] = [at |-> changes + 1, val |-> v]]
  BY <1>look
<1>c. /\ DOMAIN world' = Cells /\ world'[c].at = changes + 1
      /\ \A x \in Cells \ {c} : world'[x] = world[x]
  BY <1>b DEF Looks
<1>d. \A x, y : y.at \in 0 .. changes /\ Later(x, y) /\ x.at \in Nat /\ y = world[c] => Later(x, world'[c])
  BY <1>c DEF Later, Types
<1>e. \A x, d : d \in Cells /\ x.at \in Nat /\ Later(x, world[d]) => Later(x, world'[d])
  BY <1>c, <1>d DEF Looks
<1>1. Types'
  BY <1>a, <1>c, <1>e DEF Types, Places
<1>2. Contained'
  BY <1>a, <1>c, <1>e DEF Contained, Types, Places, Closing
<1>3. Looks'
  <2>1. changes \in Nat /\ changes' = changes + 1
    BY <1>a DEF Types
  <2>2. \A x \in Cells : world'[x].at \in 0 .. changes'
    BY <2>1, <1>c DEF Looks
  <2> QED
    BY <1>a, <1>c, <1>e, <2>2, CellFacts DEF Looks
<1>4. Order'
  BY <1>a, <1>c, <1>e DEF Order, Answered, Closing, Types, Places
<1>5. FirstLooks'
  BY <1>a, <1>c, <1>e DEF FirstLooks, PassedTwice, Answered, Order, Closing
<1>6. SecondLooks'
  BY <1>a, <1>c, <1>e DEF SecondLooks, PassedTwice, Answered, Order, Closing
<1> QED
  BY <1>1, <1>2, <1>3, <1>4, <1>5, <1>6

\* The engine process ends.
LEMMA DiesKeeps ==
    ASSUME IInv, EngineDies
    PROVE  IInv'
<1> USE DEF IInv, pcVars, readVars, helperVars, sessVars, engineUnchanged, helperUnchanged,
            closeUnchanged
<1>a. /\ pc' = "dead" /\ result' = <<>>
      /\ UNCHANGED <<world, changes, first, heard, offered, selected, mid, seq, frame, closing>>
  BY DEF EngineDies
<1>b. /\ helper' \in [state : {"none", "up", "exited"}, code : {0, 1}, kids : BOOLEAN]
      /\ helper'.state # "up" /\ ~helper'.kids /\ job' \in {"none", "closed"}
  <2>1. CASE job = "open"
    BY <2>1, KilledFacts DEF EngineDies, CloseHandle, Types
  <2>2. CASE job # "open"
    BY <2>2 DEF EngineDies, Types, Contained
  <2> QED
    BY <2>1, <2>2
<1>1. Types'
  BY <1>a, <1>b DEF Types, Places
<1>2. Contained'
  BY <1>a, <1>b DEF Contained, Types, Places, Closing
<1>3. Looks'
  BY <1>a, <1>b DEF Looks
<1>4. Order'
  BY <1>a, <1>b DEF Order, Answered, Closing, Types, Places
<1>5. FirstLooks'
  BY <1>a, <1>b DEF FirstLooks, PassedTwice, Answered, Order, Closing
<1>6. SecondLooks'
  BY <1>a, <1>b DEF SecondLooks, PassedTwice, Answered, Order, Closing
<1> QED
  BY <1>1, <1>2, <1>3, <1>4, <1>5, <1>6

-----------------------------------------------------------------------------
(* The specification *)

\* An observation starts with nothing looked at and no helper.
LEMMA Initially ==
    ASSUME Init PROVE IInv
<1>1. PICK s \in Starts : world = [c \in Cells |-> [at |-> 0, val |-> s[c]]]
  BY DEF Init
<1>2. DOMAIN world = Cells /\ \A c \in Cells : world[c].at = 0
  BY <1>1
<1>3. /\ pc = "select" /\ seq = 0 /\ changes = 0 /\ mid = <<>> /\ result = <<>> /\ offered = {}
      /\ first = <<>> /\ heard = <<>> /\ frame = "none" /\ job = "none"
  BY DEF Init
<1>4. DOMAIN first = {} /\ DOMAIN heard = {}
  BY <1>3
<1>5. helper = [state |-> "none", code |-> 0, kids |-> FALSE]
      /\ closing = [abort |-> FALSE, exited |-> FALSE, drained |-> FALSE, forced |-> FALSE,
                    verdict |-> "open"]
  BY DEF Init
<1>6. Types
  BY <1>3, <1>5 DEF Types, Places
<1>7. Contained
  BY <1>3, <1>5 DEF Contained
<1>8. Looks
  BY <1>2, <1>3, <1>4 DEF Looks
<1>9. Order /\ FirstLooks /\ SecondLooks
  BY <1>3, <1>4 DEF Order, FirstLooks, SecondLooks, PassedTwice, Answered, Closing
<1> QED
  BY <1>6, <1>7, <1>8, <1>9 DEF IInv

\* Every step of the thread, the helper, the timers and the PC.
LEMMA Steps ==
    ASSUME IInv, [Next]_vars
    PROVE  IInv'
<1>1. CASE Engine
  BY <1>1, SelectFirstKeeps, StartKeeps, AskKeeps, ReplyKeeps, EndKeeps, SerialKeeps,
     VolumesReadKeeps,
     CaptureKeeps, RootsReadKeeps, BindKeeps, RevalidateKeeps, AskAgainKeeps, CompareKeeps,
     SelectLastKeeps, closeWaitKeeps, closeDrainKeeps, closeStreamsKeeps DEF Engine
<1>2. CASE Helper
  BY <1>2, HelperReadsKeeps, HelperAnswersKeeps, HelperExitsKeeps DEF Helper
<1>3. CASE Cancel \/ Expire \/ WorldChanges \/ EngineDies
  BY <1>3, CancelKeeps, ExpireKeeps, ChangesKeeps, DiesKeeps
<1>4. CASE UNCHANGED vars
  <2>1. UNCHANGED <<world, changes, pc, todo, first, offered, mid, selected, heard, frame,
                    helper, seq,
                    job, closing, result>>
    BY <1>4 DEF vars, pcVars, readVars, helperVars, sessVars
  <2> QED
    BY <2>1 DEF IInv, Types, Contained, Looks, Order, FirstLooks, SecondLooks, PassedTwice,
       Answered,
                Closing, Places
<1> QED
  BY <1>1, <1>2, <1>3, <1>4 DEF Next

\* The inductive invariant holds in every reachable state.
LEMMA Invariant == Spec => []IInv
<1>1. Init => IInv
  BY Initially
<1>2. IInv /\ [Next]_vars => IInv'
  BY Steps
<1> QED
  BY <1>1, <1>2, PTL DEF Spec

\* However an observation ends, no helper and no child of it is left.
THEOREM NoHelperIsLeft == Spec => []NoHelperSurvives
<1>1. IInv => NoHelperSurvives
  BY DEF IInv, NoHelperSurvives, Contained
<1> QED
  BY <1>1, Invariant, PTL

-----------------------------------------------------------------------------
(* The refinement of ConfigurationSnapshot *)

promiseVars == <<world, Phase, mid, result>>

\* What neither ends the call nor takes its instant is no step of the promise.
LEMMA Stutters ==
    ASSUME UNCHANGED <<world, mid, result>>,
           pc' = pc \/ (pc \notin {"done", "dead"} /\ pc' \notin {"done", "dead"})
    PROVE  UNCHANGED promiseVars
  BY DEF promiseVars, Phase

\* An end without an answer is the refusal.
LEMMA Refuses ==
    ASSUME UNCHANGED <<world, mid>>, result' = <<>>,
           pc \notin {"done", "dead"}, pc' \in {"done", "dead"}
    PROVE  Promise!Refuse
  BY DEF Promise!Refuse, Phase

\* A change of the PC has a new identity, so it is a change.
LEMMA WorldChangesIsChange ==
    ASSUME IInv, WorldChanges
    PROVE  Promise!Change
<1>1. UNCHANGED <<pc, mid, result>>
  BY DEF WorldChanges, readVars
<1>look. PICK c \in Cells : \E v \in Values(c) :
                world' = [world EXCEPT ![c] = [at |-> changes + 1, val |-> v]]
  BY DEF WorldChanges
<1>2. PICK v \in Values(c) : world' = [world EXCEPT ![c] = [at |-> changes + 1, val |-> v]]
  BY <1>look
<1>3. world[c].at \in 0 .. changes /\ changes \in Nat /\ world'[c].at = changes + 1
  BY <1>2 DEF IInv, Looks, Types
<1>4. world' # world
  BY <1>3
<1> QED
  BY <1>1, <1>4 DEF Promise!Change, Phase

\* The instant is the one at which a root is bound.
LEMMA BindIsTake ==
    ASSUME IInv, IInv', readNativeConfiguration
    PROVE  Promise!Take
<1>1. /\ pc = "bind" /\ pc' \in {"again", "close"} /\ mid' = world
      /\ UNCHANGED <<world, result>>
  BY DEF readNativeConfiguration, failure, engineUnchanged, pcVars
<1>2. mid = <<>>
  BY <1>1 DEF IInv, Order
<1>3. mid' # <<>>
  <2>1. DOMAIN mid' # {}
    BY <1>1, CellFacts DEF IInv, Looks
  <2> QED
    BY <2>1
<1> QED
  BY <1>1, <1>2, <1>3 DEF Promise!Take, Phase

\* Where every second look equals the first, the answer is the PC at mid.
LEMMA SelectLastReturns ==
    ASSUME IInv, SelectLast
    PROVE  Promise!Return \/ Promise!Refuse
<1>1. pc = "final" /\ pc' = "done" /\ UNCHANGED <<world, mid, first, offered>>
  BY DEF SelectLast, pcVars, readVars
<1>2. CASE ~validateSelection
  BY <1>1, <1>2, Refuses DEF SelectLast
<1>3. CASE validateSelection
  <2> DEFINE S == (Cells \ Promise!Serials) \union {SerialCell(l) : l \in offered}
  <2>1. mid # <<>> /\ first[SelectionCell] = selected /\ SelectionCell \in DOMAIN first
    BY <1>1 DEF IInv, Order, FirstLooks, Answered
  <2>2. first[SelectionCell] = mid[SelectionCell]
    BY <1>3, <2>1, SeenTwice DEF IInv, validateSelection
  <2>3. /\ \A c \in RootSet \union Rows : first[c] = mid[c]
        /\ \A l \in offered : first[SerialCell(l)] = mid[SerialCell(l)]
    BY <1>1 DEF IInv, SecondLooks, PassedTwice, Answered
  <2>4. \A c \in S : first[c] = mid[c]
    BY <2>2, <2>3, CellFacts
  <2>5. result' = [c \in S |-> first[c]]
    BY <1>3 DEF SelectLast
  <2>6. result' = [c \in S |-> mid[c]]
    BY <2>4, <2>5
  <2>7. offered \in SUBSET {l \in Letters : mid[RowCell(l)].val = "plain"}
    BY <2>3, CellFacts DEF IInv, FirstLooks
  <2>8. SelectionCell \in S
    BY CellFacts
  <2>9. result' # <<>>
    <3>1. DOMAIN result' # {}
      BY <2>6, <2>8
    <3> QED
      BY <3>1
  <2>10. Phase = "taken" /\ Phase' = "returned"
    BY <1>1, <2>1, <2>9 DEF Phase
  <2> QED
    BY <1>1, <2>6, <2>7, <2>10 DEF Promise!Return, Cells, RowCell, SerialCell
<1> QED
  BY <1>2, <1>3

\* Every step of the observation is one of the promise, or none.
LEMMA StepsOfPromise ==
    ASSUME IInv, IInv', [Next]_vars
    PROVE  [Promise!Next]_promiseVars
<1> USE DEF pcVars, readVars, sessVars, engineUnchanged, helperUnchanged, closeUnchanged
<1>a. pc # "done" => result = <<>>
  BY DEF IInv, Order
<1>1. CASE SelectFirst \/ startNativeStorageSession \/ observeNativeStorage \/ closeStreams
  <2>1. /\ UNCHANGED <<world, mid, result>>
        /\ pc \in {"select", "start", "compare", "streams"} /\ pc' # "dead"
    BY <1>1 DEF SelectFirst, startNativeStorageSession, observeNativeStorage, closeStreams
  <2> QED
    BY <1>a, <2>1, Stutters, Refuses DEF Promise!Next
<1>2. CASE \/ queryAsk \/ queryReply \/ queryEnd \/ observeNativeNtfsSerial \/ VolumesRead
           \/ captureNativeConfigurationRoot \/ RootsRead \/ revalidateRoot \/ AskAgain
           \/ closeWait \/ closeDrain
  <2>1. /\ UNCHANGED <<world, mid, result>>
        /\ pc \notin {"done", "dead"} /\ pc' \notin {"done", "dead"}
    BY <1>2 DEF queryAsk, queryReply, queryEnd, observeNativeNtfsSerial, VolumesRead, failure,
                captureNativeConfigurationRoot, RootsRead, revalidateRoot, AskAgain, closeWait,
                closeDrain
  <2> QED
    BY <2>1, Stutters
<1>3. CASE readNativeConfiguration
  BY <1>3, BindIsTake DEF Promise!Next
<1>4. CASE SelectLast
  BY <1>4, SelectLastReturns DEF Promise!Next
<1>5. CASE Cancel \/ Helper \/ Expire
  <2>1. UNCHANGED <<world, mid, result, pc>>
    BY <1>5 DEF Cancel, Helper, Expire, HelperReads, HelperAnswers, HelperExits, KidExits
  <2> QED
    BY <2>1, Stutters
<1>6. CASE WorldChanges
  BY <1>6, WorldChangesIsChange DEF Promise!Next
<1>7. CASE EngineDies
  <2>1. UNCHANGED <<world, mid>> /\ result' = <<>> /\ pc \notin {"done", "dead"} /\ pc' = "dead"
    BY <1>7 DEF EngineDies
  <2> QED
    BY <2>1, Refuses DEF Promise!Next
<1>8. CASE UNCHANGED vars
  BY <1>8, Stutters DEF vars
<1> QED
  BY <1>1, <1>2, <1>3, <1>4, <1>5, <1>6, <1>7, <1>8 DEF Next, Engine

\* The answer is what the PC was at one instant of the call, or a refusal.
THEOREM AnswersOneInstant == Spec => OneInstant
<1>1. Init => Promise!Init
  BY DEF Init, Promise!Init, Phase
<1>2. IInv /\ IInv' /\ [Next]_vars => [Promise!Next]_promiseVars
  BY StepsOfPromise
<1> QED
  BY <1>1, <1>2, Invariant, PTL DEF Spec, OneInstant, Promise!Spec, promiseVars
=============================================================================
