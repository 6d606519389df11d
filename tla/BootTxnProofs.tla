---------------------------- MODULE BootTxnProofs ----------------------------
(***************************************************************************)
(* Type correctness of BootTxn and the safety properties of its runs, for  *)
(* every set of GUIDs, every choice of user operations, clone positions    *)
(* and failing calls, and every bound.                                     *)
(*                                                                         *)
(* TypeOK is not inductive: SetPath writes store at txn.guid, TryAgain     *)
(* adds the entry of armed.json to the one-shot, and only the control      *)
(* point says that these are entries.  EntryKnown adds that.  Each safety  *)
(* property then adds the facts about control points that make it          *)
(* inductive.                                                              *)
(*                                                                         *)
(* The properties of the runs recovery and live need the conditions that   *)
(* these runs state, and nothing else of their bounds (Steady, Supervised).*)
(***************************************************************************)
EXTENDS BootTxnHistory, TLAPS

-----------------------------------------------------------------------------
(* The one-shot list: bcdedit bootsequence /remove and /addfirst *)

\* bootsequence /remove of any identifier leaves a list of entries.
LEMMA WithoutType ==
    ASSUME NEW S, NEW s \in Seq(S), NEW id
    PROVE  Without(s, id) \in Seq(S)
<1>1. CASE id \notin Elems(s)
  BY <1>1 DEF Without
<1>2. CASE id \in Elems(s)
  <2> DEFINE i == CHOOSE k \in DOMAIN s : s[k] = id
  <2>1. i \in DOMAIN s
    BY <1>2 DEF Elems
  <2>2. i \in 1..Len(s) /\ Len(s) \in Nat
    BY <2>1
  <2>3. SubSeq(s, 1, i - 1) \in Seq(S)
    <3> HIDE DEF i
    <3> QED BY <2>2
  <2>4. SubSeq(s, i + 1, Len(s)) \in Seq(S)
    <3> HIDE DEF i
    <3> QED BY <2>2
  <2>5. Without(s, id) = SubSeq(s, 1, i - 1) \o SubSeq(s, i + 1, Len(s))
    BY <1>2 DEF Without
  <2> HIDE DEF i
  <2> QED BY <2>3, <2>4, <2>5
<1> QED BY <1>1, <1>2

\* bootsequence /remove keeps every other element: what a sweep takes out of
\* the one-shot is its own entry and nothing of another product.
LEMMA WithoutKeeps ==
    ASSUME NEW S, NEW s \in Seq(S), NEW id, NEW x \in Elems(s), x # id
    PROVE  x \in Elems(Without(s, id))
<1>1. CASE id \notin Elems(s)
  BY <1>1 DEF Without
<1>2. CASE id \in Elems(s)
  <2> DEFINE i == CHOOSE k \in DOMAIN s : s[k] = id
             front == SubSeq(s, 1, i - 1)
             back == SubSeq(s, i + 1, Len(s))
  <2>1. i \in DOMAIN s /\ s[i] = id
    BY <1>2 DEF Elems
  <2>2. Without(s, id) = front \o back
    BY <1>2 DEF Without
  <2>3. PICK k \in DOMAIN s : s[k] = x
    BY DEF Elems
  <2> HIDE DEF i
  <2>4. i \in 1..Len(s) /\ k \in 1..Len(s) /\ Len(s) \in Nat /\ k # i
    BY <2>1, <2>3
  <2>5. /\ front \in Seq(S) /\ Len(front) = i - 1
        /\ \A j \in 1..(i - 1) : front[j] = s[j]
    BY <2>4
  <2>6. /\ back \in Seq(S) /\ Len(back) = Len(s) - i
        /\ \A j \in 1..(Len(s) - i) : back[j] = s[i + j]
    BY <2>4
  <2> HIDE DEF front, back
  <2>7. CASE k < i
    <3>1. k \in DOMAIN (front \o back) /\ (front \o back)[k] = front[k]
      BY <2>4, <2>5, <2>6, <2>7
    <3>2. front[k] = x
      BY <2>3, <2>4, <2>5, <2>7
    <3> QED BY <3>1, <3>2, <2>2 DEF Elems
  <2>8. CASE k > i
    <3>1. /\ k - 1 \in DOMAIN (front \o back)
          /\ (front \o back)[k - 1] = back[k - i]
      BY <2>4, <2>5, <2>6, <2>8
    <3>2. back[k - i] = x
      BY <2>3, <2>4, <2>6, <2>8
    <3> QED BY <3>1, <3>2, <2>2 DEF Elems
  <2> QED BY <2>4, <2>7, <2>8
<1> QED BY <1>1, <1>2

\* bootsequence /remove adds nothing to the list.
LEMMA WithoutDrops ==
    ASSUME NEW S, NEW s \in Seq(S), NEW id
    PROVE  Elems(Without(s, id)) \subseteq Elems(s)
<1>1. CASE id \notin Elems(s)
  BY <1>1 DEF Without
<1>2. CASE id \in Elems(s)
  <2> DEFINE i == CHOOSE k \in DOMAIN s : s[k] = id
             front == SubSeq(s, 1, i - 1)
             back == SubSeq(s, i + 1, Len(s))
  <2>1. i \in 1..Len(s) /\ Len(s) \in Nat
    BY <1>2 DEF Elems
  <2>2. Without(s, id) = front \o back
    BY <1>2 DEF Without
  <2> HIDE DEF i
  <2>3. /\ front \in Seq(S) /\ Len(front) = i - 1
        /\ \A j \in 1..(i - 1) : front[j] = s[j]
    BY <2>1
  <2>4. /\ back \in Seq(S) /\ Len(back) = Len(s) - i
        /\ \A j \in 1..(Len(s) - i) : back[j] = s[i + j]
    BY <2>1
  <2> HIDE DEF front, back
  <2>5. ASSUME NEW k \in DOMAIN (front \o back)
        PROVE  (front \o back)[k] \in Elems(s)
    <3>1. k \in 1..(Len(s) - 1)
      BY <2>1, <2>3, <2>4
    <3>2. CASE k < i
      <4>1. k \in DOMAIN s /\ (front \o back)[k] = s[k]
        BY <2>1, <2>3, <2>4, <3>1, <3>2
      <4> QED BY <4>1 DEF Elems
    <3>3. CASE k >= i
      <4>1. k + 1 \in DOMAIN s /\ (front \o back)[k] = back[k - (i - 1)]
        BY <2>1, <2>3, <2>4, <3>1, <3>3
      <4>2. back[k - (i - 1)] = s[k + 1]
        BY <2>1, <2>4, <3>1, <3>3
      <4> QED BY <4>1, <4>2 DEF Elems
    <3> QED BY <2>1, <3>1, <3>2, <3>3
  <2> QED BY <2>2, <2>5 DEF Elems
<1> QED BY <1>1, <1>2

\* bootsequence /addfirst of an entry leaves a list of entries.
LEMMA AddFirstType ==
    ASSUME NEW S, NEW s \in Seq(S), NEW id \in S
    PROVE  AddFirst(s, id) \in Seq(S)
BY WithoutType DEF AddFirst

\* bootsequence /addfirst keeps every element: arming wootc's entry does not
\* drop a one-shot that another product has set.
LEMMA AddFirstKeeps ==
    ASSUME NEW S, NEW s \in Seq(S), NEW id \in S, NEW x \in Elems(s)
    PROVE  x \in Elems(AddFirst(s, id))
<1> DEFINE w == Without(s, id)
<1>1. w \in Seq(S)
  BY WithoutType
<1>2. AddFirst(s, id) = <<id>> \o w
  BY DEF AddFirst
<1>3. CASE x = id
  <2> HIDE DEF w
  <2>1. 1 \in DOMAIN (<<id>> \o w) /\ (<<id>> \o w)[1] = id
    BY <1>1
  <2> QED BY <2>1, <1>2, <1>3 DEF Elems
<1>4. CASE x # id
  <2>1. x \in Elems(w)
    BY <1>4, WithoutKeeps
  <2>2. PICK k \in DOMAIN w : w[k] = x
    BY <2>1 DEF Elems
  <2> HIDE DEF w
  <2>3. k + 1 \in DOMAIN (<<id>> \o w) /\ (<<id>> \o w)[k + 1] = x
    BY <1>1, <2>2
  <2> QED BY <2>3, <1>2 DEF Elems
<1> QED BY <1>3, <1>4

-----------------------------------------------------------------------------
(* The command lists a sweep and a restore work off *)

\* sweepWootcEntries with a listing runs well-formed commands.
LEMMA SweepPlanType ==
    ASSUME TypeOK, NEW guid \in GuidOrNone
    PROVE  SweepPlan(guid) \subseteq Cmd
BY DEF SweepPlan, WootcEntryIDs, Cmd, GuidOrNone, TypeOK

\* Without a listing it goes by the journaled GUID alone, if there is one.
LEMMA BlindPlanType ==
    ASSUME NEW guid \in GuidOrNone
    PROVE  BlindPlan(guid) \subseteq Cmd
BY DEF BlindPlan, Cmd, GuidOrNone

\* So does restoreWindowsCommands.
LEMMA RestorePlanType == RestorePlan \subseteq Cmd
<1>1. [do |-> "clear", id |-> NoGuid] \in Cmd
  BY DEF Cmd, GuidOrNone
<1>2. [do: {"unorder"}, id: {g \in Guid : Live(g) /\ order[g] # "out"}]
        \subseteq Cmd
  BY DEF Cmd, GuidOrNone
<1> QED BY <1>1, <1>2, Zenon DEF RestorePlan

\* Where a rollback goes when it has written its last phase.
RollbackEnds ==
    {"opFailed", "dropGuid", "cleanEsp", "endState", "dropTasks", "return"}

\* Every caller of rollbackBootChainTxn continues at one of them.
LEMMA AfterRollbackType ==
    \A ok \in BOOLEAN : AfterRollback(ok) \in RollbackEnds
BY DEF AfterRollback, DisarmEnd, RollbackEnds

-----------------------------------------------------------------------------
(* The inductive type invariant *)

\* buildBootEntry and armBootChainTxn have the GUID of the entry in hand.
Holding == {"created", "setpath", "unorder", "guidfile", "armedfile", "verify",
            "prepared", "arming", "addfirst", "verifyArmed", "commit"}

\* Where the code uses a GUID as an entry it has one: of the transaction in
\* memory, of the journal armBootChain reads back, of armed.json in TryAgain.
EntryKnown ==
    /\ pc \in Holding => txn.guid \in Guid
    /\ pc = "pipeline" => journal.guid \in Guid
    /\ pc \in {"retry", "rearm"} => armedFile \in Guid

TypeInv == TypeOK /\ EntryKnown

\* Every step of every actor preserves types and known entries.
LEMMA TypeStep == TypeInv /\ [Next]_vars => TypeInv'
<1> SUFFICES ASSUME TypeInv, [Next]_vars PROVE TypeInv'
  OBVIOUS
<1> USE ConstantsAssumption
    DEF TypeInv, TypeOK, EntryKnown, Holding, GuidOrNone, Txn, Phases, States,
        Verdicts, PCs, Places, MaxAttempts, MaxSweeps
<1>1. CASE RegisterTasks
  <2>1. tasks' \in BOOLEAN /\ pc' \in {"begun", "opFailed"}
    BY <1>1, Zenon DEF RegisterTasks
  <2>2. faults' \in 0..MaxFaults
    BY <1>1 DEF RegisterTasks, Works
  <2> QED BY <1>1, <2>1, <2>2 DEF RegisterTasks, At, NoTxn, fwVars
<1>2. CASE SaveBegun
  BY <1>2 DEF SaveBegun, At, Works, Goto, Save, fwVars, recVars, procVars
<1>3. CASE SweepLook
  BY <1>3, SweepPlanType, BlindPlanType DEF SweepLook, At, Works, fwVars,
         recVars
<1>4. CASE SweepCommand
  <2>1. PICK c \in cmds, ok \in BOOLEAN : SweepCommand!2!(c, ok)
    BY <1>4 DEF SweepCommand
  <2>2. bootseq' \in Seq(Guid \union {Foreign})
    BY <2>1, WithoutType
  <2>3. /\ order' \in [Guid -> Places]
        /\ store' \in [Guid -> {"absent", "copied", "pathed"}]
    BY <2>1
  <2>4. cmds' \subseteq Cmd /\ faults' \in 0..MaxFaults
    BY <2>1 DEF Works
  <2> QED BY <1>4, <2>2, <2>3, <2>4 DEF SweepCommand, At, recVars
<1>5. CASE SaveCreatingEntry
  BY <1>5 DEF SaveCreatingEntry, At, Works, GotoIf, fwVars, recVars, Goto,
         NextAttempt, procVars
<1>6. CASE CopyEntry
  <2>1. CASE CopyEntry!2!1
    <3>0. PICK g \in FreshGuid, p \in CopyPlaces, err \in BOOLEAN :
                CopyEntry!2!1!(g, p, err)
      BY <2>1
    <3>1. g \in Guid
      BY DEF FreshGuid
    <3>2. txn' \in Txn /\ order' \in [Guid -> Places]
      BY <3>0, <3>1
    <3>3. store' \in [Guid -> {"absent", "copied", "pathed"}]
      BY <3>0, <3>1
    <3>4. faults' \in 0..MaxFaults
      BY <3>0 DEF BcdWrites
    <3>5. CASE err
      BY <1>6, <3>0, <3>2, <3>3, <3>4, <3>5
         DEF CopyEntry, At, GotoIf, NextAttempt, recVars
    <3>6. CASE ~err
      <4>1. txn'.guid = g
        BY <3>0, <3>6
      <4> QED BY <1>6, <3>0, <3>1, <3>2, <3>3, <3>4, <3>6, <4>1
              DEF CopyEntry, At, GotoIf, Goto, recVars, procVars
    <3> QED BY <3>5, <3>6
  <2>2. CASE CopyEntry!2!2
    BY <1>6, <2>2 DEF CopyEntry, At, BcdWrites, NextAttempt, recVars
  <2> QED BY <1>6, <2>1, <2>2 DEF CopyEntry
<1>7. CASE SaveEntryCreated
  BY <1>7 DEF SaveEntryCreated, At, Works, Save, GotoIf, fwVars, recVars,
         Goto, NextAttempt, procVars
<1>8. CASE SetPath
  BY <1>8 DEF SetPath, At, BcdWrites, GotoIf, recVars, Goto, NextAttempt,
         procVars
<1>9. CASE LeaveOrder
  BY <1>9 DEF LeaveOrder, At, Works, Goto, recVars, procVars
<1>10. CASE WriteGuidFile
  BY <1>10 DEF WriteGuidFile, At, Works, GotoIf, fwVars, Goto, NextAttempt,
         procVars
<1>11. CASE WriteArmedFile
  BY <1>11 DEF WriteArmedFile, At, Works, GotoIf, fwVars, Goto, NextAttempt,
         procVars
<1>12. CASE VerifyEntry
  <2>1. Goto("prepared") \/ Goto("arming") \/ NextAttempt
    BY <1>12, Zenon DEF VerifyEntry, GotoIf
  <2>2. faults' \in 0..MaxFaults
    BY <1>12 DEF VerifyEntry, Works
  <2> QED BY <1>12, <2>1, <2>2
          DEF VerifyEntry, At, Goto, NextAttempt, fwVars, recVars, procVars
<1>13. CASE SavePrepared
  BY <1>13 DEF SavePrepared, At, Works, Save, GotoIf, fwVars, recVars, Goto,
         NextAttempt, procVars
<1>14. CASE ArmBootChain
  BY <1>14 DEF ArmBootChain, At, Works, fwVars, recVars
<1>15. CASE SaveArming
  BY <1>15 DEF SaveArming, At, Works, Save, GotoIf, fwVars, recVars, Goto,
         NextAttempt, procVars
<1>16. CASE SetOneShot
  <2>1. bootseq' \in Seq(Guid \union {Foreign})
    BY <1>16, AddFirstType DEF SetOneShot, At
  <2>2. Goto("verifyArmed") \/ NextAttempt
    BY <1>16, Zenon DEF SetOneShot, GotoIf
  <2>3. faults' \in 0..MaxFaults
    BY <1>16 DEF SetOneShot, BcdWrites
  <2> QED BY <1>16, <2>1, <2>2, <2>3
          DEF SetOneShot, At, Goto, NextAttempt, recVars, procVars
<1>17. CASE VerifyArmed
  <2>1. Goto("commit") \/ NextAttempt
    BY <1>17, Zenon DEF VerifyArmed, GotoIf
  <2>2. faults' \in 0..MaxFaults
    BY <1>17 DEF VerifyArmed, Works
  <2> QED BY <1>17, <2>1, <2>2
          DEF VerifyArmed, At, Goto, NextAttempt, fwVars, recVars, procVars
<1>18. CASE SaveCommitted
  BY <1>18 DEF SaveCommitted, At, Works, Save, GotoIf, fwVars, recVars, Goto,
         NextAttempt, procVars
<1>19. CASE FinishArmed
  BY <1>19 DEF FinishArmed, At, Return, Goto, fwVars, NoTxn, procVars
<1>20. CASE DropStarted
  <2>1. started' \in BOOLEAN
    BY <1>20, Zenon DEF DropStarted
  <2> QED BY <1>20, <2>1 DEF DropStarted, At, Return, NoTxn, fwVars
<1>21. CASE VerifyRepair
  BY <1>21, RestorePlanType DEF VerifyRepair, At, Works, Goto, RunRestore,
         Return, fwVars, recVars, procVars, NoTxn
<1>22. CASE RestoreEnds
  BY <1>22 DEF RestoreEnds, At, Works, Return, fwVars, recVars, NoTxn
<1>23. CASE RetryTasks
  <2>1. tasks' \in BOOLEAN
    BY <1>23, Zenon DEF RetryTasks
  <2>2. Goto("return") \/ Goto("rearm")
    BY <1>23, Zenon DEF RetryTasks
  <2>3. faults' \in 0..MaxFaults
    BY <1>23 DEF RetryTasks, Works
  <2>4. At("retry") /\ RetryTasks!3
    BY <1>23 DEF RetryTasks
  <2> QED BY <2>1, <2>2, <2>3, <2>4 DEF At, Goto, fwVars, procVars
<1>24. CASE RetryOneShot
  <2>1. bootseq' \in Seq(Guid \union {Foreign})
    BY <1>24, AddFirstType DEF RetryOneShot, At
  <2>2. Goto("return") \/ Goto("finish")
    BY <1>24, Zenon DEF RetryOneShot
  <2>3. faults' \in 0..MaxFaults
    BY <1>24 DEF RetryOneShot, BcdWrites
  <2> QED BY <1>24, <2>1, <2>2, <2>3
          DEF RetryOneShot, At, Goto, recVars, procVars
<1>25. CASE OperationFailed
  BY <1>25 DEF OperationFailed, At, EnterRollback, Return, fwVars, recVars,
         JournaledTxn, NoTxn
<1>26. CASE SaveRollingBack
  BY <1>26 DEF SaveRollingBack, At, Works, Save, fwVars, recVars
<1>27. CASE RollbackLook
  BY <1>27 DEF RollbackLook, At, Works, fwVars, recVars
<1>28. CASE SaveRolledBack
  <2>1. PICK ok \in BOOLEAN : Goto(AfterRollback(ok))
    BY <1>28 DEF SaveRolledBack
  <2>2. pc' \in RollbackEnds /\ UNCHANGED procVars
    BY <2>1, AfterRollbackType, Zenon DEF Goto
  <2>3. txn' \in Txn /\ journal' \in Txn
    BY <1>28 DEF SaveRolledBack, Save
  <2>4. faults' \in 0..MaxFaults
    BY <1>28 DEF SaveRolledBack, Works
  <2> QED BY <1>28, <2>2, <2>3, <2>4
          DEF SaveRolledBack, RollbackEnds, fwVars, recVars, procVars
<1>29. CASE SaveUnconfirmed
  <2>1. Goto(AfterRollback(FALSE))
    BY <1>29 DEF SaveUnconfirmed
  <2>2. pc' \in RollbackEnds /\ UNCHANGED procVars
    BY <2>1, AfterRollbackType, Zenon DEF Goto
  <2>3. txn' \in Txn /\ journal' \in Txn
    BY <1>29 DEF SaveUnconfirmed, Save
  <2>4. faults' \in 0..MaxFaults
    BY <1>29 DEF SaveUnconfirmed, Works
  <2> QED BY <1>29, <2>2, <2>3, <2>4
          DEF SaveUnconfirmed, RollbackEnds, fwVars, recVars, procVars
<1>30. CASE DropGuidFile
  BY <1>30 DEF DropGuidFile, At, Goto, fwVars, procVars
<1>31. CASE DropTasks
  <2>1. tasks' \in BOOLEAN
    BY <1>31, Zenon DEF DropTasks
  <2>2. pc' \in {"dropArmed", "dropGuid", "return"} /\ UNCHANGED procVars
    BY <1>31, Zenon DEF DropTasks, Goto
  <2>3. faults' \in 0..MaxFaults
    BY <1>31 DEF DropTasks, Works
  <2> QED BY <1>31, <2>1, <2>2, <2>3 DEF DropTasks, fwVars, procVars
<1>32. CASE DropArmedFile
  BY <1>32 DEF DropArmedFile, At, Goto, DisarmEnd, fwVars, procVars
<1>33. CASE WriteEndState
  BY <1>33 DEF WriteEndState, At, Return, fwVars, NoTxn
<1>34. CASE ReturnToIdle
  BY <1>34 DEF ReturnToIdle, At, Return, fwVars, recVars, NoTxn
<1>35. CASE UninstallTasks
  <2>1. tasks' \in BOOLEAN
    BY <1>35, Zenon DEF UninstallTasks
  <2>2. pc' \in {"sweepLook", "return"}
    BY <1>35, Zenon DEF UninstallTasks
  <2>3. faults' \in 0..MaxFaults /\ txn' \in Txn
    BY <1>35 DEF UninstallTasks, Works, NoTxn
  <2> QED BY <1>35, <2>1, <2>2, <2>3 DEF UninstallTasks, At, fwVars
<1>36. CASE UninstallDisarms
  BY <1>36 DEF UninstallDisarms, At, EnterRollback, fwVars, recVars,
         JournaledTxn
<1>37. CASE CleanupESP
  BY <1>37 DEF CleanupESP, At, Works, Goto, recVars, procVars
<1>38. CASE RemoveInstallDir
  <2>1. started' \in BOOLEAN
    BY <1>38, Zenon DEF RemoveInstallDir
  <2> QED BY <1>38, <2>1 DEF RemoveInstallDir, At, Goto, NoTxn, fwVars, procVars
<1>39. CASE RemoveState
  <2>1. disk' \in BOOLEAN
    BY <1>39, Zenon DEF RemoveState
  <2> QED BY <1>39, <2>1 DEF RemoveState, Return, NoTxn, fwVars
<1>40. CASE StartupUnreadable
  BY <1>40 DEF StartupUnreadable, At, Goto, fwVars, recVars, procVars
<1>41. CASE StartupKeep
  BY <1>41 DEF StartupKeep, At, Goto, StartupNext, fwVars, recVars, procVars
<1>42. CASE StartupMarkCommitted
  BY <1>42 DEF StartupMarkCommitted, At, Works, Goto, StartupNext, fwVars,
         recVars, procVars
<1>43. CASE StartupRollback
  BY <1>43 DEF StartupRollback, At, EnterRollback, fwVars, recVars,
         JournaledTxn
<1>44. CASE StartupJudge
  <2>1. /\ tasks' \in BOOLEAN /\ armedFile' \in {armedFile, NoGuid}
        /\ verdict' \in Verdicts
    BY <1>44 DEF StartupJudge, EvaluateRecovery, VerifiedStates
  <2>2. bootseq' \in Seq(Guid \union {Foreign})
    <3>1. bootseq' \in {bootseq, <<>>}
      BY <1>44, Zenon DEF StartupJudge
    <3>2. bootseq \in Seq(Guid \union {Foreign})
      OBVIOUS
    <3>3. <<>> \in Seq(Guid \union {Foreign})
      OBVIOUS
    <3> HIDE DEF TypeInv
    <3> QED BY <3>1, <3>2, <3>3, Zenon
  <2>3. faults' \in 0..MaxFaults
    BY <1>44 DEF StartupJudge, Works
  <2> QED BY <1>44, <2>1, <2>2, <2>3 DEF StartupJudge, At, Goto, procVars
<1>45. CASE DeployerMarksStart
  BY <1>45 DEF DeployerMarksStart, Deployer, Goto, fwVars, procVars
<1>46. CASE DeployerWritesState("d1", "d2", "deploying")
  BY <1>46 DEF DeployerWritesState, Deployer, Goto, fwVars, procVars
<1>47. CASE DeployerStagesPhase2
  BY <1>47 DEF DeployerStagesPhase2, Deployer, Goto, recVars, procVars
<1>48. CASE DeployerWritesState("d3", "d4", "deployed")
  BY <1>48 DEF DeployerWritesState, Deployer, Goto, fwVars, procVars
<1>49. CASE DeployerFails
  BY <1>49 DEF DeployerFails, PowerOff, fwVars, Return, NoTxn
<1>50. CASE DeployerRearms
  <2>1. bootseq' \in Seq(Guid \union {Foreign})
    <3>1. bootseq' = bootseq \/ \E g \in Guid : bootseq' = <<g>>
      BY <1>50, Zenon DEF DeployerRearms
    <3>2. \A g \in Guid : <<g>> \in Seq(Guid \union {Foreign})
      OBVIOUS
    <3>3. bootseq \in Seq(Guid \union {Foreign})
      OBVIOUS
    <3> HIDE DEF TypeInv
    <3> QED BY <3>1, <3>2, <3>3, Zenon
  <2> QED BY <1>50, <2>1 DEF DeployerRearms, PowerOff, Return, NoTxn, recVars
<1>51. CASE LinuxRuns
  BY <1>51 DEF LinuxRuns, PowerOff, fwVars, Return, NoTxn
<1>52. CASE StartInstall
  BY <1>52 DEF StartInstall, At
<1>53. CASE StartRepair
  BY <1>53 DEF StartRepair, At, recVars
<1>54. CASE StartTryAgain
  BY <1>54 DEF StartTryAgain, At, fwVars, recVars
<1>55. CASE ArmPersistedGuid
  BY <1>55, AddFirstType DEF ArmPersistedGuid, At, BcdWrites, recVars,
         procVars
<1>56. CASE StopPipeline
  BY <1>56 DEF StopPipeline, At, EnterRollback, fwVars, recVars, JournaledTxn
<1>57. CASE FinishCancelled
  BY <1>57 DEF FinishCancelled, At, EnterRollback, fwVars, recVars,
         JournaledTxn
<1>58. CASE StartUninstall
  BY <1>58 DEF StartUninstall, At, fwVars, recVars
<1>59. CASE StartRestore
  BY <1>59, RestorePlanType DEF StartRestore, At, RunRestore, fwVars, recVars,
         NoTxn
<1>60. CASE FirmwareStartsLoader
  BY <1>60 DEF FirmwareStartsLoader, NextBoot, recVars, procVars
<1>61. CASE FirmwareStartsWindows
  BY <1>61 DEF FirmwareStartsWindows, recVars
<1>62. CASE ForeignOneShot
  BY <1>62, AddFirstType DEF ForeignOneShot, At, recVars, procVars
<1>63. CASE EspRewritten
  BY <1>63 DEF EspRewritten, At, Works, recVars, procVars
<1>64. CASE PowerCut
  BY <1>64 DEF PowerCut, PowerOff, fwVars, Return, NoTxn
<1>65. CASE Restart
  BY <1>65 DEF Restart, At, PowerOff, fwVars, recVars, Return, NoTxn
<1>66. CASE UNCHANGED vars
  BY <1>66 DEF vars, fwVars, recVars, procVars
<1> QED BY <1>1, <1>2, <1>3, <1>4, <1>5, <1>6, <1>7, <1>8, <1>9, <1>10, <1>11,
         <1>12, <1>13, <1>14, <1>15, <1>16, <1>17, <1>18, <1>19, <1>20, <1>21,
         <1>22, <1>23, <1>24, <1>25, <1>26, <1>27, <1>28, <1>29, <1>30, <1>31,
         <1>32, <1>33, <1>34, <1>35, <1>36, <1>37, <1>38, <1>39, <1>40, <1>41,
         <1>42, <1>43, <1>44, <1>45, <1>46, <1>47, <1>48, <1>49, <1>50, <1>51,
         <1>52, <1>53, <1>54, <1>55, <1>56, <1>57, <1>58, <1>59, <1>60, <1>61,
         <1>62, <1>63, <1>64, <1>65, <1>66, Zenon
    DEF Next, Program, BuildStep, ArmStep, RollbackStep, UninstallStep,
        StartupStep, LinuxStep, UserStep, Boot, World

\* The strengthened type invariant holds in every reachable state.
LEMMA TypeInvariant == Spec => []TypeInv
<1>1. ASSUME Init PROVE TypeInv
  <2> USE <1>1 DEF Init
  <2>1. bootseq \in Seq(Guid \union {Foreign})
    <3>1. \A S : \A x \in S : <<>> \in Seq(S) /\ <<x>> \in Seq(S)
      OBVIOUS
    <3> QED BY <3>1, Zenon
  <2>2. started \in BOOLEAN /\ tasks \in BOOLEAN /\ disk \in BOOLEAN
    OBVIOUS
  <2>3. journal \in Txn /\ txn \in Txn
    BY DEF NoTxn, Txn, Phases, GuidOrNone
  <2>4. /\ store \in [Guid -> {"absent", "copied", "pathed"}]
        /\ order \in [Guid -> Places]
    BY DEF Places
  <2> QED BY <2>1, <2>2, <2>3, <2>4, ConstantsAssumption
          DEF TypeInv, TypeOK, EntryKnown, Holding, GuidOrNone, States,
              Verdicts, PCs, MaxAttempts, MaxSweeps
<1> QED BY <1>1, TypeStep, PTL DEF Spec

\* Every variable keeps its type in every behaviour: the attempt loops of
\* begin, arm and rollback stay within their bounds, the journal and the
\* records only ever hold phases and GUIDs the code writes.
THEOREM TypeCorrect == Spec => []TypeOK
BY TypeInvariant, PTL DEF TypeInv

-----------------------------------------------------------------------------
(* RolledBackIsClean *)

NoneLive == \A g \in Guid : ~Live(g)

\* "rolled-back" is journaled only after a listing without wootc entries, and
\* an entry is made or changed only under a later phase of the journal.
CleanInv ==
    /\ journal.phase = "rolled-back" => NoneLive
    /\ pc = "rbDone" => NoneLive
    /\ pc \in {"copy", "created"} => journal.phase = "creating-entry"
    /\ pc = "setpath" => journal.phase = "entry-created"

\* Every step preserves it; only the sweep, /copy and /set path change the
\* entries.
LEMMA CleanStep == TypeInv /\ CleanInv /\ [Next]_vars => CleanInv'
<1> SUFFICES ASSUME TypeInv, CleanInv, [Next]_vars PROVE CleanInv'
  OBVIOUS
<1>0. /\ store \in [Guid -> {"absent", "copied", "pathed"}]
      /\ journal \in Txn /\ txn \in Txn
  BY DEF TypeInv, TypeOK
<1> USE <1>0 DEF CleanInv, NoneLive, Live, Txn
<1>1. CASE RegisterTasks
  BY <1>1 DEF RegisterTasks, At, Works, NoTxn, fwVars
<1>2. CASE SaveBegun
  BY <1>2 DEF SaveBegun, At, Works, Goto, Save, fwVars, recVars, procVars
<1>3. CASE SweepLook
  BY <1>3 DEF SweepLook, At, Works, fwVars, recVars
<1>4. CASE SweepCommand
  <2>1. \A g \in Guid : store'[g] \in {store[g], "absent"}
    BY <1>4 DEF SweepCommand
  <2> QED BY <1>4, <2>1 DEF SweepCommand, At
<1>5. CASE SaveCreatingEntry
  BY <1>5 DEF SaveCreatingEntry, At, Works, GotoIf, fwVars, recVars, Goto,
         NextAttempt, procVars
<1>6. CASE CopyEntry
  BY <1>6 DEF CopyEntry, At, BcdWrites, GotoIf, NextAttempt, recVars, Goto,
         procVars
<1>7. CASE SaveEntryCreated
  BY <1>7 DEF SaveEntryCreated, At, Works, Save, GotoIf, fwVars, recVars,
         Goto, NextAttempt, procVars
<1>8. CASE SetPath
  BY <1>8 DEF SetPath, At, BcdWrites, GotoIf, recVars, Goto, NextAttempt,
         procVars
<1>9. CASE LeaveOrder
  BY <1>9 DEF LeaveOrder, At, Works, Goto, recVars, procVars
<1>10. CASE WriteGuidFile
  BY <1>10 DEF WriteGuidFile, At, Works, GotoIf, fwVars, Goto, NextAttempt,
         procVars
<1>11. CASE WriteArmedFile
  BY <1>11 DEF WriteArmedFile, At, Works, GotoIf, fwVars, Goto, NextAttempt,
         procVars
<1>12. CASE VerifyEntry
  BY <1>12 DEF VerifyEntry, At, Works, GotoIf, fwVars, recVars, Goto,
         NextAttempt, procVars
<1>13. CASE SavePrepared
  BY <1>13 DEF SavePrepared, At, Works, Save, GotoIf, fwVars, recVars, Goto,
         NextAttempt, procVars
<1>14. CASE ArmBootChain
  BY <1>14 DEF ArmBootChain, At, Works, fwVars, recVars
<1>15. CASE SaveArming
  BY <1>15 DEF SaveArming, At, Works, Save, GotoIf, fwVars, recVars, Goto,
         NextAttempt, procVars
<1>16. CASE SetOneShot
  BY <1>16 DEF SetOneShot, At, BcdWrites, GotoIf, recVars, Goto, NextAttempt,
         procVars
<1>17. CASE VerifyArmed
  BY <1>17 DEF VerifyArmed, At, Works, GotoIf, fwVars, recVars, Goto,
         NextAttempt, procVars
<1>18. CASE SaveCommitted
  BY <1>18 DEF SaveCommitted, At, Works, Save, GotoIf, fwVars, recVars, Goto,
         NextAttempt, procVars
<1>19. CASE FinishArmed
  BY <1>19 DEF FinishArmed, At, Return, Goto, fwVars, NoTxn, procVars
<1>20. CASE DropStarted
  BY <1>20 DEF DropStarted, At, Return, fwVars, NoTxn
<1>21. CASE VerifyRepair
  BY <1>21 DEF VerifyRepair, At, Works, Goto, RunRestore, Return, fwVars,
         recVars, procVars, NoTxn
<1>22. CASE RestoreEnds
  BY <1>22 DEF RestoreEnds, At, Works, Return, fwVars, recVars, NoTxn
<1>23. CASE RetryTasks
  BY <1>23 DEF RetryTasks, At, Works, Goto, fwVars, procVars
<1>24. CASE RetryOneShot
  BY <1>24 DEF RetryOneShot, At, BcdWrites, Goto, recVars, procVars
<1>25. CASE OperationFailed
  BY <1>25 DEF OperationFailed, At, EnterRollback, Return, fwVars, recVars,
         JournaledTxn, NoTxn
<1>26. CASE SaveRollingBack
  BY <1>26 DEF SaveRollingBack, At, Works, Save, fwVars, recVars
<1>27. CASE RollbackLook
  <2>1. ~Residue(txn.guid) => NoneLive
    BY DEF Residue, WootcEntryIDs
  <2> QED BY <1>27, <2>1 DEF RollbackLook, At, fwVars, recVars
<1>28. CASE SaveRolledBack
  BY <1>28 DEF SaveRolledBack, At, Works, Save, Goto, AfterRollback, fwVars,
         recVars, procVars, DisarmEnd
<1>29. CASE SaveUnconfirmed
  BY <1>29 DEF SaveUnconfirmed, At, Works, Save, Goto, AfterRollback, fwVars,
         recVars, procVars, DisarmEnd
<1>30. CASE DropGuidFile
  BY <1>30 DEF DropGuidFile, At, Goto, fwVars, procVars
<1>31. CASE DropTasks
  BY <1>31 DEF DropTasks, At, Works, Goto, fwVars, procVars
<1>32. CASE DropArmedFile
  BY <1>32 DEF DropArmedFile, At, Goto, DisarmEnd, fwVars, procVars
<1>33. CASE WriteEndState
  BY <1>33 DEF WriteEndState, At, Return, fwVars, NoTxn
<1>34. CASE ReturnToIdle
  BY <1>34 DEF ReturnToIdle, At, Return, fwVars, recVars, NoTxn
<1>35. CASE UninstallTasks
  BY <1>35 DEF UninstallTasks, At, Works, NoTxn, fwVars
<1>36. CASE UninstallDisarms
  BY <1>36 DEF UninstallDisarms, At, EnterRollback, fwVars, recVars,
         JournaledTxn
<1>37. CASE CleanupESP
  BY <1>37 DEF CleanupESP, At, Works, Goto, recVars, procVars
<1>38. CASE RemoveInstallDir
  BY <1>38 DEF RemoveInstallDir, At, NoTxn, Goto, fwVars, procVars
<1>39. CASE RemoveState
  BY <1>39 DEF RemoveState, At, Return, fwVars, NoTxn
<1>40. CASE StartupUnreadable
  BY <1>40 DEF StartupUnreadable, At, Goto, fwVars, recVars, procVars
<1>41. CASE StartupKeep
  BY <1>41 DEF StartupKeep, At, Goto, StartupNext, fwVars, recVars, procVars
<1>42. CASE StartupMarkCommitted
  BY <1>42 DEF StartupMarkCommitted, At, Works, Goto, StartupNext, fwVars,
         recVars, procVars
<1>43. CASE StartupRollback
  BY <1>43 DEF StartupRollback, At, EnterRollback, fwVars, recVars,
         JournaledTxn
<1>44. CASE StartupJudge
  BY <1>44 DEF StartupJudge, At, Works, Goto, procVars
<1>45. CASE DeployerMarksStart
  BY <1>45 DEF DeployerMarksStart, Deployer, Goto, fwVars, procVars
<1>46. CASE DeployerWritesState("d1", "d2", "deploying")
  BY <1>46 DEF DeployerWritesState, Deployer, Goto, fwVars, procVars
<1>47. CASE DeployerStagesPhase2
  BY <1>47 DEF DeployerStagesPhase2, Deployer, Goto, recVars, procVars
<1>48. CASE DeployerWritesState("d3", "d4", "deployed")
  BY <1>48 DEF DeployerWritesState, Deployer, Goto, fwVars, procVars
<1>49. CASE DeployerFails
  BY <1>49 DEF DeployerFails, PowerOff, fwVars, Return, NoTxn
<1>50. CASE DeployerRearms
  BY <1>50 DEF DeployerRearms, Deployer, PowerOff, recVars, Return, NoTxn
<1>51. CASE LinuxRuns
  BY <1>51 DEF LinuxRuns, PowerOff, fwVars, Return, NoTxn
<1>52. CASE StartInstall
  BY <1>52 DEF StartInstall, At
<1>53. CASE StartRepair
  BY <1>53 DEF StartRepair, At, recVars
<1>54. CASE StartTryAgain
  BY <1>54 DEF StartTryAgain, At, fwVars, recVars
<1>55. CASE ArmPersistedGuid
  BY <1>55 DEF ArmPersistedGuid, At, BcdWrites, recVars, procVars
<1>56. CASE StopPipeline
  BY <1>56 DEF StopPipeline, At, EnterRollback, fwVars, recVars, JournaledTxn
<1>57. CASE FinishCancelled
  BY <1>57 DEF FinishCancelled, At, EnterRollback, fwVars, recVars,
         JournaledTxn
<1>58. CASE StartUninstall
  BY <1>58 DEF StartUninstall, At, fwVars, recVars
<1>59. CASE StartRestore
  BY <1>59 DEF StartRestore, At, RunRestore, fwVars, recVars, NoTxn
<1>60. CASE FirmwareStartsLoader
  BY <1>60 DEF FirmwareStartsLoader, recVars, procVars
<1>61. CASE FirmwareStartsWindows
  BY <1>61 DEF FirmwareStartsWindows, recVars
<1>62. CASE ForeignOneShot
  BY <1>62 DEF ForeignOneShot, At, recVars, procVars
<1>63. CASE EspRewritten
  BY <1>63 DEF EspRewritten, At, Works, recVars, procVars
<1>64. CASE PowerCut
  BY <1>64 DEF PowerCut, PowerOff, fwVars, Return, NoTxn
<1>65. CASE Restart
  BY <1>65 DEF Restart, At, PowerOff, fwVars, recVars, Return, NoTxn
<1>66. CASE UNCHANGED vars
  BY <1>66 DEF vars, fwVars, recVars, procVars
<1> QED BY <1>1, <1>2, <1>3, <1>4, <1>5, <1>6, <1>7, <1>8, <1>9, <1>10, <1>11,
         <1>12, <1>13, <1>14, <1>15, <1>16, <1>17, <1>18, <1>19, <1>20, <1>21,
         <1>22, <1>23, <1>24, <1>25, <1>26, <1>27, <1>28, <1>29, <1>30, <1>31,
         <1>32, <1>33, <1>34, <1>35, <1>36, <1>37, <1>38, <1>39, <1>40, <1>41,
         <1>42, <1>43, <1>44, <1>45, <1>46, <1>47, <1>48, <1>49, <1>50, <1>51,
         <1>52, <1>53, <1>54, <1>55, <1>56, <1>57, <1>58, <1>59, <1>60, <1>61,
         <1>62, <1>63, <1>64, <1>65, <1>66
    DEF Next, Program, BuildStep, ArmStep, RollbackStep, UninstallStep,
        StartupStep, LinuxStep, UserStep, Boot, World

\* boot_txn.go:34: whenever the journal says rolled-back, the firmware holds
\* no wootc entry and no start can go to the loader, whatever calls failed
\* and wherever the power was cut.
THEOREM RollbackCleans == Spec => []RolledBackIsClean
<1>1. Init => CleanInv
  BY DEF Init, NoTxn, CleanInv
<1>2. CleanInv => RolledBackIsClean
  BY DEF CleanInv, NoneLive, RolledBackIsClean, NextBoot, Boots, Live
<1> QED BY <1>1, <1>2, TypeInvariant, CleanStep, PTL DEF Spec

-----------------------------------------------------------------------------
(* CommitIsProven *)

GuidFiled == {"armedfile", "verify", "prepared", "arming", "addfirst",
              "verifyArmed", "commit"}
ArmedFiled == GuidFiled \ {"armedfile"}
Building == Holding \union
    {"begun", "sweepLook", "sweep", "copy", "pipeline", "rbSave", "rbDone",
     "rbUnconf", "finish", "repairVerify", "dropStarted"}

\* After onEntry the two records name the entry of the transaction.
RecordsNamed ==
    /\ pc \in GuidFiled => guidFile = txn.guid
    /\ pc \in ArmedFiled => armedFile = txn.guid
    /\ pc = "pipeline" => guidFile = journal.guid /\ armedFile = journal.guid

\* Inside beginBootChainTxn and armBootChainTxn the recovery tasks are
\* registered; an operation that is not running has no stage.
BuildGuarded ==
    /\ machine # "windows" \/ pc = "idle" => stage = "none"
    /\ stage \in {"begin", "arm"} =>
          pc \in Building \union {"opFailed"} /\ (pc # "opFailed" => tasks)
    /\ pc \in Holding \union {"copy", "pipeline"} => stage \in {"begin", "arm"}

\* The commit point is reached under "arming" and right after a verification.
CommitReady ==
    /\ pc \in {"addfirst", "verifyArmed", "commit"} => journal.phase = "arming"
    /\ pc = "commit" => ChainVerified(txn, TRUE)

CommitInv == RecordsNamed /\ BuildGuarded /\ CommitReady

\* Every step preserves the commit invariant.
LEMMA CommitStep == TypeInv /\ CommitInv /\ [Next]_vars => CommitInv'
<1> SUFFICES ASSUME TypeInv, CommitInv, [Next]_vars PROVE CommitInv'
  OBVIOUS
<1>0. /\ store \in [Guid -> {"absent", "copied", "pathed"}]
      /\ journal \in Txn /\ txn \in Txn /\ tasks \in BOOLEAN
      /\ pc \in Holding => txn.guid \in Guid
  BY DEF TypeInv, TypeOK, EntryKnown
<1> USE <1>0 DEF CommitInv, RecordsNamed, BuildGuarded, CommitReady, Building,
                 Holding, GuidFiled, ArmedFiled, Txn
<1>1. CASE RegisterTasks
  BY <1>1 DEF RegisterTasks, At, Works, NoTxn, fwVars
<1>2. CASE SaveBegun
  BY <1>2 DEF SaveBegun, At, Works, Goto, Save, fwVars, recVars, procVars
<1>3. CASE SweepLook
  BY <1>3 DEF SweepLook, At, Works, fwVars, recVars
<1>4. CASE SweepCommand
  BY <1>4 DEF SweepCommand, At, Works, recVars
<1>5. CASE SaveCreatingEntry
  BY <1>5 DEF SaveCreatingEntry, At, Works, GotoIf, fwVars, recVars, Goto,
         NextAttempt, procVars
<1>6. CASE CopyEntry
  <2>1. pc' \in {"created", "sweepLook", "rbSave"} /\ UNCHANGED stage
    BY <1>6, Zenon DEF CopyEntry, GotoIf, Goto, NextAttempt, procVars
  <2>2. At("copy") /\ CopyEntry!3
    BY <1>6 DEF CopyEntry
  <2> QED BY <2>1, <2>2 DEF At, recVars
<1>7. CASE SaveEntryCreated
  BY <1>7 DEF SaveEntryCreated, At, Works, Save, GotoIf, fwVars, recVars,
         Goto, NextAttempt, procVars
<1>8. CASE SetPath
  BY <1>8 DEF SetPath, At, BcdWrites, GotoIf, recVars, Goto, NextAttempt,
         procVars
<1>9. CASE LeaveOrder
  BY <1>9 DEF LeaveOrder, At, Works, Goto, recVars, procVars
<1>10. CASE WriteGuidFile
  BY <1>10 DEF WriteGuidFile, At, Works, GotoIf, fwVars, Goto, NextAttempt,
         procVars
<1>11. CASE WriteArmedFile
  BY <1>11 DEF WriteArmedFile, At, Works, GotoIf, fwVars, Goto, NextAttempt,
         procVars
<1>12. CASE VerifyEntry
  BY <1>12 DEF VerifyEntry, At, Works, GotoIf, fwVars, recVars, Goto,
         NextAttempt, procVars
<1>13. CASE SavePrepared
  BY <1>13 DEF SavePrepared, At, Works, Save, GotoIf, fwVars, recVars, Goto,
         NextAttempt, procVars
<1>14. CASE ArmBootChain
  BY <1>14 DEF ArmBootChain, At, Works, fwVars, recVars
<1>15. CASE SaveArming
  BY <1>15 DEF SaveArming, At, Works, Save, GotoIf, fwVars, recVars, Goto,
         NextAttempt, procVars
<1>16. CASE SetOneShot
  BY <1>16 DEF SetOneShot, At, BcdWrites, GotoIf, recVars, Goto, NextAttempt,
         procVars
<1>17. CASE VerifyArmed
  <2>1. (Goto("commit") /\ ChainVerified(txn, TRUE)) \/ NextAttempt
    BY <1>17, Zenon DEF VerifyArmed, GotoIf
  <2>2. ChainVerified(txn, TRUE) => ChainVerified(txn, TRUE)'
    BY <1>17 DEF VerifyArmed, ChainVerified, Live, fwVars
  <2> QED BY <1>17, <2>1, <2>2
          DEF VerifyArmed, At, Goto, NextAttempt, fwVars, recVars, procVars
<1>18. CASE SaveCommitted
  BY <1>18 DEF SaveCommitted, At, Works, Save, GotoIf, fwVars, recVars, Goto,
         NextAttempt, procVars
<1>19. CASE FinishArmed
  BY <1>19 DEF FinishArmed, At, Return, Goto, fwVars, NoTxn, procVars
<1>20. CASE DropStarted
  BY <1>20 DEF DropStarted, At, Return, fwVars, NoTxn
<1>21. CASE VerifyRepair
  BY <1>21 DEF VerifyRepair, At, Works, Goto, RunRestore, Return, fwVars,
         recVars, procVars, NoTxn
<1>22. CASE RestoreEnds
  BY <1>22 DEF RestoreEnds, At, Works, Return, fwVars, recVars, NoTxn
<1>23. CASE RetryTasks
  BY <1>23 DEF RetryTasks, At, Works, Goto, fwVars, procVars
<1>24. CASE RetryOneShot
  BY <1>24 DEF RetryOneShot, At, BcdWrites, Goto, recVars, procVars
<1>25. CASE OperationFailed
  BY <1>25 DEF OperationFailed, At, EnterRollback, Return, fwVars, recVars,
         JournaledTxn, NoTxn
<1>26. CASE SaveRollingBack
  BY <1>26 DEF SaveRollingBack, At, Works, Save, fwVars, recVars
<1>27. CASE RollbackLook
  BY <1>27 DEF RollbackLook, At, Works, fwVars, recVars
<1>28. CASE SaveRolledBack
  BY <1>28 DEF SaveRolledBack, At, Works, Save, Goto, AfterRollback, fwVars,
         recVars, procVars, DisarmEnd
<1>29. CASE SaveUnconfirmed
  BY <1>29 DEF SaveUnconfirmed, At, Works, Save, Goto, AfterRollback, fwVars,
         recVars, procVars, DisarmEnd
<1>30. CASE DropGuidFile
  BY <1>30 DEF DropGuidFile, At, Goto, fwVars, procVars
<1>31. CASE DropTasks
  BY <1>31 DEF DropTasks, At, Works, Goto, fwVars, procVars
<1>32. CASE DropArmedFile
  BY <1>32 DEF DropArmedFile, At, Goto, DisarmEnd, fwVars, procVars
<1>33. CASE WriteEndState
  BY <1>33 DEF WriteEndState, At, Return, fwVars, NoTxn
<1>34. CASE ReturnToIdle
  BY <1>34 DEF ReturnToIdle, At, Return, fwVars, recVars, NoTxn
<1>35. CASE UninstallTasks
  BY <1>35 DEF UninstallTasks, At, Works, NoTxn, fwVars
<1>36. CASE UninstallDisarms
  BY <1>36 DEF UninstallDisarms, At, EnterRollback, fwVars, recVars,
         JournaledTxn
<1>37. CASE CleanupESP
  BY <1>37 DEF CleanupESP, At, Works, Goto, recVars, procVars
<1>38. CASE RemoveInstallDir
  BY <1>38 DEF RemoveInstallDir, At, NoTxn, Goto, fwVars, procVars
<1>39. CASE RemoveState
  BY <1>39 DEF RemoveState, At, Return, fwVars, NoTxn
<1>40. CASE StartupUnreadable
  BY <1>40 DEF StartupUnreadable, At, Goto, fwVars, recVars, procVars
<1>41. CASE StartupKeep
  BY <1>41 DEF StartupKeep, At, Goto, StartupNext, fwVars, recVars, procVars
<1>42. CASE StartupMarkCommitted
  BY <1>42 DEF StartupMarkCommitted, At, Works, Goto, StartupNext, fwVars,
         recVars, procVars
<1>43. CASE StartupRollback
  BY <1>43 DEF StartupRollback, At, EnterRollback, fwVars, recVars,
         JournaledTxn
<1>44. CASE StartupJudge
  BY <1>44 DEF StartupJudge, At, Works, Goto, procVars
<1>45. CASE DeployerMarksStart
  BY <1>45 DEF DeployerMarksStart, Deployer, Goto, fwVars, procVars
<1>46. CASE DeployerWritesState("d1", "d2", "deploying")
  BY <1>46 DEF DeployerWritesState, Deployer, Goto, fwVars, procVars
<1>47. CASE DeployerStagesPhase2
  BY <1>47 DEF DeployerStagesPhase2, Deployer, Goto, recVars, procVars
<1>48. CASE DeployerWritesState("d3", "d4", "deployed")
  BY <1>48 DEF DeployerWritesState, Deployer, Goto, fwVars, procVars
<1>49. CASE DeployerFails
  BY <1>49 DEF DeployerFails, PowerOff, fwVars, Return, NoTxn
<1>50. CASE DeployerRearms
  BY <1>50 DEF DeployerRearms, Deployer, PowerOff, recVars, Return, NoTxn
<1>51. CASE LinuxRuns
  BY <1>51 DEF LinuxRuns, PowerOff, fwVars, Return, NoTxn
<1>52. CASE StartInstall
  BY <1>52 DEF StartInstall, At
<1>53. CASE StartRepair
  BY <1>53 DEF StartRepair, At, recVars
<1>54. CASE StartTryAgain
  BY <1>54 DEF StartTryAgain, At, fwVars, recVars
<1>55. CASE ArmPersistedGuid
  BY <1>55 DEF ArmPersistedGuid, At, BcdWrites, recVars, procVars
<1>56. CASE StopPipeline
  BY <1>56 DEF StopPipeline, At, EnterRollback, fwVars, recVars, JournaledTxn
<1>57. CASE FinishCancelled
  BY <1>57 DEF FinishCancelled, At, EnterRollback, fwVars, recVars,
         JournaledTxn
<1>58. CASE StartUninstall
  BY <1>58 DEF StartUninstall, At, fwVars, recVars
<1>59. CASE StartRestore
  BY <1>59 DEF StartRestore, At, RunRestore, fwVars, recVars, NoTxn
<1>60. CASE FirmwareStartsLoader
  BY <1>60 DEF FirmwareStartsLoader, recVars, procVars
<1>61. CASE FirmwareStartsWindows
  BY <1>61 DEF FirmwareStartsWindows, recVars
<1>62. CASE ForeignOneShot
  BY <1>62 DEF ForeignOneShot, At, recVars, procVars
<1>63. CASE EspRewritten
  BY <1>63 DEF EspRewritten, At, Works, recVars, procVars
<1>64. CASE PowerCut
  BY <1>64 DEF PowerCut, PowerOff, fwVars, Return, NoTxn
<1>65. CASE Restart
  BY <1>65 DEF Restart, At, PowerOff, fwVars, recVars, Return, NoTxn
<1>66. CASE UNCHANGED vars
  BY <1>66 DEF vars, fwVars, recVars, procVars, ChainVerified, Live
<1> QED BY <1>1, <1>2, <1>3, <1>4, <1>5, <1>6, <1>7, <1>8, <1>9, <1>10, <1>11,
         <1>12, <1>13, <1>14, <1>15, <1>16, <1>17, <1>18, <1>19, <1>20, <1>21,
         <1>22, <1>23, <1>24, <1>25, <1>26, <1>27, <1>28, <1>29, <1>30, <1>31,
         <1>32, <1>33, <1>34, <1>35, <1>36, <1>37, <1>38, <1>39, <1>40, <1>41,
         <1>42, <1>43, <1>44, <1>45, <1>46, <1>47, <1>48, <1>49, <1>50, <1>51,
         <1>52, <1>53, <1>54, <1>55, <1>56, <1>57, <1>58, <1>59, <1>60, <1>61,
         <1>62, <1>63, <1>64, <1>65, <1>66
    DEF Next, Program, BuildStep, ArmStep, RollbackStep, UninstallStep,
        StartupStep, LinuxStep, UserStep, Boot, World

\* At the commit point only armBootChainTxn writes the journal: the only
\* other step there is a power cut.
LEMMA AtCommit ==
    ASSUME At("commit"), [Next]_vars
    PROVE  SaveCommitted \/ UNCHANGED journal
<1> USE DEF At
<1>1. ~BuildStep
  BY DEF BuildStep, RegisterTasks, SaveBegun, SweepLook, SweepCommand,
         SaveCreatingEntry, CopyEntry, SaveEntryCreated, SetPath, LeaveOrder,
         WriteGuidFile, WriteArmedFile, VerifyEntry, SavePrepared
<1>2. ArmStep => SaveCommitted
  BY DEF ArmStep, ArmBootChain, SaveArming, SetOneShot, VerifyArmed,
         FinishArmed, DropStarted, VerifyRepair, RestoreEnds, RetryTasks,
         RetryOneShot
<1>3. ~RollbackStep
  BY DEF RollbackStep, OperationFailed, SaveRollingBack, RollbackLook,
         SaveRolledBack, SaveUnconfirmed, DropGuidFile, DropTasks,
         DropArmedFile, WriteEndState, ReturnToIdle
<1>4. ~UninstallStep
  BY DEF UninstallStep, UninstallTasks, UninstallDisarms, CleanupESP,
         RemoveInstallDir, RemoveState
<1>5. ~StartupStep
  BY DEF StartupStep, StartupUnreadable, StartupKeep, StartupMarkCommitted,
         StartupRollback, StartupJudge
<1>6. ~LinuxStep
  BY DEF LinuxStep, DeployerMarksStart, DeployerWritesState,
         DeployerStagesPhase2, DeployerFails, DeployerRearms, LinuxRuns,
         Deployer
<1>7. ~UserStep
  BY DEF UserStep, StartInstall, StartRepair, StartTryAgain, ArmPersistedGuid,
         StopPipeline, FinishCancelled, StartUninstall, StartRestore
<1>8. ~Boot
  BY DEF Boot, FirmwareStartsLoader, FirmwareStartsWindows
<1>9. World => UNCHANGED journal
  BY DEF World, ForeignOneShot, EspRewritten, PowerCut
<1>10. ~Restart
  BY DEF Restart
<1> QED BY <1>1, <1>2, <1>3, <1>4, <1>5, <1>6, <1>7, <1>8, <1>9, <1>10
    DEF Next, Program, vars

\* boot_txn.go:32 and 119-122: whenever armBootChainTxn journals "committed",
\* the next start goes to the journaled entry and its staged files, it is the
\* only wootc entry, and bcd-guid.txt, armed.json and the tasks back it.
THEOREM CommitProven == Spec => CommitIsProven
<1>1. Init => CommitInv
  BY DEF Init, NoTxn, CommitInv, RecordsNamed, BuildGuarded, CommitReady,
         Building, Holding, GuidFiled, ArmedFiled
<1>2. ASSUME TypeInv, CommitInv, [Next]_vars,
             At("commit"), journal'.phase = "committed"
      PROVE  /\ NextBoot = {journal'.guid} /\ esp = "deployer"
             /\ \A g \in Guid : Live(g) => g = journal'.guid /\ order[g] = "out"
             /\ guidFile = journal'.guid /\ armedFile = journal'.guid
             /\ tasks
  <2>1. journal.phase = "arming" /\ ChainVerified(txn, TRUE)
    BY <1>2 DEF CommitInv, CommitReady, At
  <2>2. guidFile = txn.guid /\ armedFile = txn.guid /\ tasks
    BY <1>2 DEF CommitInv, RecordsNamed, BuildGuarded, GuidFiled, ArmedFiled,
                Holding, Building, At
  <2>3. journal'.guid = txn.guid
    <3>1. SaveCommitted
      BY <1>2, <2>1, AtCommit
    <3>2. txn \in Txn
      BY <1>2 DEF TypeInv, TypeOK
    <3> QED BY <1>2, <2>1, <3>1, <3>2 DEF SaveCommitted, Save, Txn
  <2>4. NextBoot = {txn.guid} /\ esp = "deployer"
    BY <2>1 DEF ChainVerified, NextBoot, Boots
  <2>5. \A g \in Guid : Live(g) => g = txn.guid /\ order[g] = "out"
    BY <2>1 DEF ChainVerified
  <2> QED BY <2>2, <2>3, <2>4, <2>5
<1>3. TypeInv /\ CommitInv /\ [Next]_vars =>
        [ (At("commit") /\ journal'.phase = "committed") =>
          /\ NextBoot = {journal'.guid} /\ esp = "deployer"
          /\ \A g \in Guid : Live(g) => g = journal'.guid /\ order[g] = "out"
          /\ guidFile = journal'.guid /\ armedFile = journal'.guid
          /\ tasks ]_vars
  BY <1>2
<1> QED BY <1>1, <1>3, TypeInvariant, CommitStep, PTL DEF Spec, CommitIsProven

-----------------------------------------------------------------------------
(* ForeignOneShotKept *)

\* A sweep that still has to clear the whole one-shot was planned when every
\* element of it was wootc's, and nothing but the sweep runs meanwhile.
ClearSparesForeign ==
    /\ cmds # {} => machine = "windows" /\ pc = "sweep"
    /\ \A c \in cmds : c.do = "clear" => Foreign \notin Elems(bootseq)

\* Every step preserves it.
LEMMA ClearStep ==
    TypeInv /\ ClearSparesForeign /\ [Next]_vars => ClearSparesForeign'
<1> SUFFICES ASSUME TypeInv, ClearSparesForeign, [Next]_vars
             PROVE  ClearSparesForeign'
  OBVIOUS
<1>0. bootseq \in Seq(Guid \union {Foreign})
  BY DEF TypeInv, TypeOK
<1> USE <1>0 DEF ClearSparesForeign
<1>1. CASE RegisterTasks
  BY <1>1 DEF RegisterTasks, At, Works, NoTxn, fwVars
<1>2. CASE SaveBegun
  BY <1>2 DEF SaveBegun, At, Works, Goto, Save, fwVars, recVars, procVars
<1>3. CASE SweepLook
  <2>1. \A c \in BlindPlan(txn.guid) : c.do # "clear"
    BY DEF BlindPlan
  <2>2. \A c \in SweepPlan(txn.guid) :
           c.do = "clear" => Foreign \notin Elems(bootseq)
    BY ConstantsAssumption DEF SweepPlan, WootcEntryIDs
  <2> QED BY <1>3, <2>1, <2>2 DEF SweepLook, At, fwVars
<1>4. CASE SweepCommand
  <2>1. PICK c \in cmds, ok \in BOOLEAN : SweepCommand!2!(c, ok)
    BY <1>4 DEF SweepCommand
  <2>2. Elems(bootseq') \subseteq Elems(bootseq)
    <3>1. bootseq' \in {bootseq, <<>>, Without(bootseq, c.id)}
      BY <2>1, Zenon
    <3>2. Elems(<<>>) = {}
      BY DEF Elems
    <3> QED BY <3>1, <3>2, WithoutDrops, Zenon
  <2>3. cmds' \subseteq cmds
    BY <2>1
  <2> QED BY <1>4, <2>2, <2>3 DEF SweepCommand, At
<1>5. CASE SaveCreatingEntry
  BY <1>5 DEF SaveCreatingEntry, At, Works, GotoIf, fwVars, recVars, Goto,
         NextAttempt, procVars
<1>6. CASE CopyEntry
  BY <1>6 DEF CopyEntry, At, BcdWrites, GotoIf, NextAttempt, recVars, Goto,
         procVars
<1>7. CASE SaveEntryCreated
  BY <1>7 DEF SaveEntryCreated, At, Works, Save, GotoIf, fwVars, recVars,
         Goto, NextAttempt, procVars
<1>8. CASE SetPath
  BY <1>8 DEF SetPath, At, BcdWrites, GotoIf, recVars, Goto, NextAttempt,
         procVars
<1>9. CASE LeaveOrder
  BY <1>9 DEF LeaveOrder, At, Works, Goto, recVars, procVars
<1>10. CASE WriteGuidFile
  BY <1>10 DEF WriteGuidFile, At, Works, GotoIf, fwVars, Goto, NextAttempt,
         procVars
<1>11. CASE WriteArmedFile
  BY <1>11 DEF WriteArmedFile, At, Works, GotoIf, fwVars, Goto, NextAttempt,
         procVars
<1>12. CASE VerifyEntry
  BY <1>12 DEF VerifyEntry, At, Works, GotoIf, fwVars, recVars, Goto,
         NextAttempt, procVars
<1>13. CASE SavePrepared
  BY <1>13 DEF SavePrepared, At, Works, Save, GotoIf, fwVars, recVars, Goto,
         NextAttempt, procVars
<1>14. CASE ArmBootChain
  BY <1>14 DEF ArmBootChain, At, Works, fwVars, recVars
<1>15. CASE SaveArming
  BY <1>15 DEF SaveArming, At, Works, Save, GotoIf, fwVars, recVars, Goto,
         NextAttempt, procVars
<1>16. CASE SetOneShot
  BY <1>16 DEF SetOneShot, At, BcdWrites, GotoIf, recVars, Goto, NextAttempt,
         procVars
<1>17. CASE VerifyArmed
  BY <1>17 DEF VerifyArmed, At, Works, GotoIf, fwVars, recVars, Goto,
         NextAttempt, procVars
<1>18. CASE SaveCommitted
  BY <1>18 DEF SaveCommitted, At, Works, Save, GotoIf, fwVars, recVars, Goto,
         NextAttempt, procVars
<1>19. CASE FinishArmed
  BY <1>19 DEF FinishArmed, At, Return, Goto, fwVars, NoTxn, procVars
<1>20. CASE DropStarted
  BY <1>20 DEF DropStarted, At, Return, fwVars, NoTxn
<1>21. CASE VerifyRepair
  <2>1. CanRestoreWindows => Foreign \notin Elems(bootseq)
    BY ConstantsAssumption DEF CanRestoreWindows, ForeignNext
  <2> QED BY <1>21, <2>1
          DEF VerifyRepair, At, RunRestore, Return, Goto, procVars, fwVars
<1>22. CASE RestoreEnds
  BY <1>22 DEF RestoreEnds, At, Works, Return, fwVars, recVars, NoTxn
<1>23. CASE RetryTasks
  BY <1>23 DEF RetryTasks, At, Works, Goto, fwVars, procVars
<1>24. CASE RetryOneShot
  BY <1>24 DEF RetryOneShot, At, BcdWrites, Goto, recVars, procVars
<1>25. CASE OperationFailed
  BY <1>25 DEF OperationFailed, At, EnterRollback, Return, fwVars, recVars,
         JournaledTxn, NoTxn
<1>26. CASE SaveRollingBack
  BY <1>26 DEF SaveRollingBack, At, Works, Save, fwVars, recVars
<1>27. CASE RollbackLook
  BY <1>27 DEF RollbackLook, At, Works, fwVars, recVars
<1>28. CASE SaveRolledBack
  BY <1>28 DEF SaveRolledBack, At, Works, Save, Goto, AfterRollback, fwVars,
         recVars, procVars, DisarmEnd
<1>29. CASE SaveUnconfirmed
  BY <1>29 DEF SaveUnconfirmed, At, Works, Save, Goto, AfterRollback, fwVars,
         recVars, procVars, DisarmEnd
<1>30. CASE DropGuidFile
  BY <1>30 DEF DropGuidFile, At, Goto, fwVars, procVars
<1>31. CASE DropTasks
  BY <1>31 DEF DropTasks, At, Works, Goto, fwVars, procVars
<1>32. CASE DropArmedFile
  BY <1>32 DEF DropArmedFile, At, Goto, DisarmEnd, fwVars, procVars
<1>33. CASE WriteEndState
  BY <1>33 DEF WriteEndState, At, Return, fwVars, NoTxn
<1>34. CASE ReturnToIdle
  BY <1>34 DEF ReturnToIdle, At, Return, fwVars, recVars, NoTxn
<1>35. CASE UninstallTasks
  BY <1>35 DEF UninstallTasks, At, Works, NoTxn, fwVars
<1>36. CASE UninstallDisarms
  BY <1>36 DEF UninstallDisarms, At, EnterRollback, fwVars, recVars,
         JournaledTxn
<1>37. CASE CleanupESP
  BY <1>37 DEF CleanupESP, At, Works, Goto, recVars, procVars
<1>38. CASE RemoveInstallDir
  BY <1>38 DEF RemoveInstallDir, At, NoTxn, Goto, fwVars, procVars
<1>39. CASE RemoveState
  BY <1>39 DEF RemoveState, At, Return, fwVars, NoTxn
<1>40. CASE StartupUnreadable
  BY <1>40 DEF StartupUnreadable, At, Goto, fwVars, recVars, procVars
<1>41. CASE StartupKeep
  BY <1>41 DEF StartupKeep, At, Goto, StartupNext, fwVars, recVars, procVars
<1>42. CASE StartupMarkCommitted
  BY <1>42 DEF StartupMarkCommitted, At, Works, Goto, StartupNext, fwVars,
         recVars, procVars
<1>43. CASE StartupRollback
  BY <1>43 DEF StartupRollback, At, EnterRollback, fwVars, recVars,
         JournaledTxn
<1>44. CASE StartupJudge
  BY <1>44 DEF StartupJudge, At, Works, Goto, procVars
<1>45. CASE DeployerMarksStart
  BY <1>45 DEF DeployerMarksStart, Deployer, Goto, fwVars, procVars
<1>46. CASE DeployerWritesState("d1", "d2", "deploying")
  BY <1>46 DEF DeployerWritesState, Deployer, Goto, fwVars, procVars
<1>47. CASE DeployerStagesPhase2
  BY <1>47 DEF DeployerStagesPhase2, Deployer, Goto, recVars, procVars
<1>48. CASE DeployerWritesState("d3", "d4", "deployed")
  BY <1>48 DEF DeployerWritesState, Deployer, Goto, fwVars, procVars
<1>49. CASE DeployerFails
  BY <1>49 DEF DeployerFails, PowerOff, fwVars, Return, NoTxn
<1>50. CASE DeployerRearms
  BY <1>50 DEF DeployerRearms, Deployer, PowerOff, recVars, Return, NoTxn
<1>51. CASE LinuxRuns
  BY <1>51 DEF LinuxRuns, PowerOff, fwVars, Return, NoTxn
<1>52. CASE StartInstall
  BY <1>52 DEF StartInstall, At
<1>53. CASE StartRepair
  BY <1>53 DEF StartRepair, At, recVars
<1>54. CASE StartTryAgain
  BY <1>54 DEF StartTryAgain, At, fwVars, recVars
<1>55. CASE ArmPersistedGuid
  BY <1>55 DEF ArmPersistedGuid, At, BcdWrites, recVars, procVars
<1>56. CASE StopPipeline
  BY <1>56 DEF StopPipeline, At, EnterRollback, fwVars, recVars, JournaledTxn
<1>57. CASE FinishCancelled
  BY <1>57 DEF FinishCancelled, At, EnterRollback, fwVars, recVars,
         JournaledTxn
<1>58. CASE StartUninstall
  BY <1>58 DEF StartUninstall, At, fwVars, recVars
<1>59. CASE StartRestore
  <2>1. CanRestoreWindows => Foreign \notin Elems(bootseq)
    BY ConstantsAssumption DEF CanRestoreWindows, ForeignNext
  <2> QED BY <1>59, <2>1
          DEF StartRestore, At, RunRestore, Return, Goto, procVars, fwVars
<1>60. CASE FirmwareStartsLoader
  BY <1>60 DEF FirmwareStartsLoader, recVars, procVars
<1>61. CASE FirmwareStartsWindows
  BY <1>61 DEF FirmwareStartsWindows, recVars
<1>62. CASE ForeignOneShot
  BY <1>62 DEF ForeignOneShot, At, recVars, procVars
<1>63. CASE EspRewritten
  BY <1>63 DEF EspRewritten, At, Works, recVars, procVars
<1>64. CASE PowerCut
  BY <1>64 DEF PowerCut, PowerOff, fwVars, Return, NoTxn
<1>65. CASE Restart
  BY <1>65 DEF Restart, At, PowerOff, fwVars, recVars, Return, NoTxn
<1>66. CASE UNCHANGED vars
  BY <1>66 DEF vars, fwVars, recVars, procVars
<1> QED BY <1>1, <1>2, <1>3, <1>4, <1>5, <1>6, <1>7, <1>8, <1>9, <1>10, <1>11,
         <1>12, <1>13, <1>14, <1>15, <1>16, <1>17, <1>18, <1>19, <1>20, <1>21,
         <1>22, <1>23, <1>24, <1>25, <1>26, <1>27, <1>28, <1>29, <1>30, <1>31,
         <1>32, <1>33, <1>34, <1>35, <1>36, <1>37, <1>38, <1>39, <1>40, <1>41,
         <1>42, <1>43, <1>44, <1>45, <1>46, <1>47, <1>48, <1>49, <1>50, <1>51,
         <1>52, <1>53, <1>54, <1>55, <1>56, <1>57, <1>58, <1>59, <1>60, <1>61,
         <1>62, <1>63, <1>64, <1>65, <1>66
    DEF Next, Program, BuildStep, ArmStep, RollbackStep, UninstallStep,
        StartupStep, LinuxStep, UserStep, Boot, World

\* The steps that can lose another product's one-shot.
LEMMA KeepsForeign ==
    ASSUME TypeInv, ClearSparesForeign, [Next]_vars,
           Foreign \in Elems(bootseq), Foreign \notin Elems(bootseq')
    PROVE  machine = "off" \/ At("judge") \/ machine = "deployer"
<1>0. /\ bootseq \in Seq(Guid \union {Foreign}) /\ guidFile \in GuidOrNone
      /\ cmds \subseteq Cmd
  BY DEF TypeInv, TypeOK
<1>1. bootseq' # bootseq
  OBVIOUS
<1>2. ASSUME NEW id \in Guid \union {Foreign}
      PROVE  bootseq' # AddFirst(bootseq, id)
  BY <1>0, AddFirstKeeps
<1>3. CASE SweepCommand
  <2>1. PICK c \in cmds, ok \in BOOLEAN : SweepCommand!2!(c, ok)
    BY <1>3 DEF SweepCommand
  <2>2. c.do # "clear"
    BY DEF ClearSparesForeign
  <2>3. bootseq' = Without(bootseq, c.id)
    BY <1>1, <2>1, <2>2
  <2>4. c.id # Foreign
    BY <1>0, ConstantsAssumption DEF Cmd, GuidOrNone
  <2> QED BY <1>0, <2>3, <2>4, WithoutKeeps
<1>4. CASE SetOneShot
  BY <1>1, <1>2, <1>4 DEF SetOneShot, At, TypeInv, EntryKnown, Holding
<1>5. CASE RetryOneShot
  BY <1>1, <1>2, <1>5 DEF RetryOneShot, At, TypeInv, EntryKnown
<1>6. CASE ArmPersistedGuid
  BY <1>0, <1>1, <1>2, <1>6 DEF ArmPersistedGuid, GuidOrNone
<1>7. CASE ForeignOneShot
  BY <1>7 DEF ForeignOneShot
<1>8. CASE StartupJudge \/ DeployerRearms \/ Boot
  BY <1>8 DEF StartupJudge, DeployerRearms, Deployer, Boot,
          FirmwareStartsLoader, FirmwareStartsWindows
<1>9. BuildStep => SweepCommand \/ UNCHANGED bootseq
  BY DEF BuildStep, RegisterTasks, SaveBegun, SweepLook, SaveCreatingEntry,
         CopyEntry, SaveEntryCreated, SetPath, LeaveOrder, WriteGuidFile,
         WriteArmedFile, VerifyEntry, SavePrepared, fwVars
<1>10. ArmStep => SetOneShot \/ RetryOneShot \/ UNCHANGED bootseq
  BY DEF ArmStep, ArmBootChain, SaveArming, VerifyArmed, SaveCommitted,
         FinishArmed, DropStarted, VerifyRepair, RestoreEnds, RetryTasks,
         fwVars
<1>11. RollbackStep => UNCHANGED bootseq
  BY DEF RollbackStep, OperationFailed, SaveRollingBack, RollbackLook,
         SaveRolledBack, SaveUnconfirmed, DropGuidFile, DropTasks,
         DropArmedFile, WriteEndState, ReturnToIdle, fwVars
<1>12. UninstallStep => UNCHANGED bootseq
  BY DEF UninstallStep, UninstallTasks, UninstallDisarms, CleanupESP,
         RemoveInstallDir, RemoveState, fwVars
<1>13. StartupStep => StartupJudge \/ UNCHANGED bootseq
  BY DEF StartupStep, StartupUnreadable, StartupKeep, StartupMarkCommitted,
         StartupRollback, fwVars
<1>14. LinuxStep => DeployerRearms \/ UNCHANGED bootseq
  BY DEF LinuxStep, DeployerMarksStart, DeployerWritesState,
         DeployerStagesPhase2, DeployerFails, LinuxRuns, fwVars
<1>15. UserStep => ArmPersistedGuid \/ UNCHANGED bootseq
  BY DEF UserStep, StartInstall, StartRepair, StartTryAgain, StopPipeline,
         FinishCancelled, StartUninstall, StartRestore, fwVars
<1>16. World => ForeignOneShot \/ UNCHANGED bootseq
  BY DEF World, EspRewritten, PowerCut, fwVars
<1>17. Restart => UNCHANGED bootseq
  BY DEF Restart, fwVars
<1> QED BY <1>1, <1>3, <1>4, <1>5, <1>6, <1>7, <1>8, <1>9, <1>10, <1>11,
         <1>12, <1>13, <1>14, <1>15, <1>16, <1>17
    DEF Next, Program, vars, fwVars

\* boot_txn.go:369-372: no sweep, arming, restore, TryAgain or uninstall step
\* takes another product's one-shot away; only the firmware's own boot, the
\* deployer and the startup verdict do.
THEOREM ForeignKept == Spec => ForeignOneShotKept
<1>1. Init => ClearSparesForeign
  BY DEF Init, ClearSparesForeign
<1>2. TypeInv /\ ClearSparesForeign /\ [Next]_vars =>
        [ (Foreign \in Elems(bootseq) /\ Foreign \notin Elems(bootseq')) =>
          machine = "off" \/ At("judge") \/ machine = "deployer" ]_vars
  BY KeepsForeign
<1> QED BY <1>1, <1>2, TypeInvariant, ClearStep, PTL
    DEF Spec, ForeignOneShotKept

-----------------------------------------------------------------------------
(* InertUntilArming, StartedDeploymentKept and MarkedBecauseBooted *)

\* The recovery run: bcdedit writes work, no record is torn, the firmware
\* does not put a clone ahead of Windows, and the user does not ask for a
\* repair, which begins over an armed entry.
Steady ==
    /\ {"cmd", "torn"} \intersect Faults = {}
    /\ "ahead" \notin CopyPlaces /\ "repair" \notin Ops

Inert == journal.phase \in {"begun", "creating-entry", "entry-created", "prepared"}

\* Where no entry has the loader's path, and where txn is that entry's.
Bare == {"register", "begun", "copy", "created", "setpath", "rbDone", "rbUnconf",
         "dropGuid", "dropTasks", "dropArmed", "endState", "cleanEsp", "wipe",
         "wipeRest"}
Built == {"unorder", "guidfile", "armedfile", "verify", "prepared"}
Ours == stage \notin {"uninstall", "restore"}

\* Who runs when; only an install gets as far as the opFailed branch.
Setting ==
    /\ \A g \in Guid : order[g] # "ahead"
    /\ armedFile # Torn
    /\ machine # "windows" => op = "none"
    /\ machine = "off" => pc = "idle"
    /\ pc = "startup" => stage = "none"
    /\ pc \in {"idle", "unregister"} \/ stage \in {"uninstall", "restore"} => sweeps = 0
    /\ pc \in {"register", "begun", "opFailed"} \/ stage \in {"begin", "arm"}
          => op = "install"
    /\ pc = "rbSave" => Ours
    /\ pc \in Built \union {"setpath"} => journal.phase = "entry-created"

\* What a deployer that started leaves behind.
Reached == {"deploying", "deployed", "healthy"}
Evident ==
    started \/ state \in Reached \/ esp = "phase2" \/ machine \in {"deployer", "linux"}

\* An install starts without any of it: a root.disk that is left refuses it.
Unused ==
    /\ op = "install" \/ machine \in {"deployer", "linux"} => disk
    /\ ~disk \/ pc = "wipeRest" => ~started
    /\ ~disk => state \notin Reached
    /\ op = "install" \/ Inert => ~Evident

\* Somebody is about to roll the entry back, or to go on with it.
Handled ==
    \/ machine # "windows"
    \/ pc \in Built \union {"startup", "arming", "pipeline", "opFailed", "rbSave"}
    \/ pc \in {"sweepLook", "sweep"} /\ Ours

\* The entry with the loader's path is the journaled one; a sweep removes it;
\* while it is inert it is not in the one-shot, and the tasks are registered.
Entry(g) ==
    /\ disk /\ journal.guid = g
    /\ journal.phase \notin {"none", "begun", "creating-entry"}
    /\ pc \notin Bare
    /\ pc \in (Holding \ {"created", "setpath"}) \union {"rbSave"} => txn.guid = g
    /\ pc = "sweepLook" /\ Ours => txn.guid = g
    /\ pc = "sweep" /\ Ours => [do |-> "delete", id |-> g] \in cmds
    /\ Inert => g \notin Elems(bootseq) /\ tasks /\ Handled

Entries ==
    /\ \A g \in Guid : store[g] = "pathed" => Entry(g)
    /\ pc \in {"created", "setpath"} => txn.guid \notin Elems(bootseq)
    /\ pc = "setpath" => journal.guid = txn.guid

InertInv == Setting /\ Unused /\ Entries

\* The invariants of the safety run together.
LEMMA StandingInvariant == Spec => [](TypeInv /\ CleanInv /\ CommitInv)
<1>1. Init => CleanInv /\ CommitInv
  BY DEF Init, NoTxn, CleanInv, CommitInv, RecordsNamed, BuildGuarded, CommitReady,
         Building, Holding, GuidFiled, ArmedFiled
<1> QED BY <1>1, TypeInvariant, CleanStep, CommitStep, PTL DEF Spec

\* Every step preserves the setting.
LEMMA SettingStep ==
    ASSUME Steady, TypeInv, CommitInv, Setting, [Next]_vars
    PROVE  Setting'
<1>0. /\ order \in [Guid -> Places] /\ journal \in Txn /\ txn \in Txn
      /\ CopyPlaces \subseteq {"out", "behind"} /\ "torn" \notin Faults
      /\ guidFile # Torn /\ txn.guid # Torn /\ NoGuid # Torn
      /\ pc = "pipeline" => stage \in {"begin", "arm"}
      /\ pc \in Holding \union {"copy"} => stage \in {"begin", "arm"}
      /\ machine # "windows" \/ pc = "idle" => stage = "none"
  BY ConstantsAssumption
     DEF Steady, TypeInv, TypeOK, Places, Txn, GuidOrNone, CommitInv, BuildGuarded
<1> USE <1>0 DEF Holding, Setting, Built, Ours, Txn
<1>1. CASE RegisterTasks
  BY <1>1 DEF RegisterTasks, At, Works, NoTxn, fwVars
<1>2. CASE SaveBegun
  BY <1>2 DEF SaveBegun, At, Works, Goto, Save, fwVars, recVars, procVars
<1>3. CASE SweepLook
  BY <1>3 DEF SweepLook, At, Works, fwVars, recVars
<1>4. CASE SweepCommand
  <2>1. \A g \in Guid : order'[g] \in {order[g], "out"}
    BY <1>4 DEF SweepCommand
  <2> QED BY <1>4, <2>1 DEF SweepCommand, At, recVars
<1>5. CASE SaveCreatingEntry
  BY <1>5 DEF SaveCreatingEntry, At, Works, GotoIf, fwVars, recVars, Goto,
         NextAttempt, procVars
<1>6. CASE CopyEntry
  BY <1>6 DEF CopyEntry, At, BcdWrites, GotoIf, NextAttempt, recVars, Goto, procVars
<1>7. CASE SaveEntryCreated
  BY <1>7 DEF SaveEntryCreated, At, Works, Save, GotoIf, fwVars, recVars, Goto,
         NextAttempt, procVars
<1>8. CASE SetPath
  BY <1>8 DEF SetPath, At, BcdWrites, GotoIf, recVars, Goto, NextAttempt, procVars
<1>9. CASE LeaveOrder
  BY <1>9 DEF LeaveOrder, At, Works, Goto, recVars, procVars
<1>10. CASE WriteGuidFile
  BY <1>10 DEF WriteGuidFile, At, Works, GotoIf, fwVars, Goto, NextAttempt, procVars
<1>11. CASE WriteArmedFile
  BY <1>11 DEF WriteArmedFile, At, Works, GotoIf, fwVars, Goto, NextAttempt,
         procVars
<1>12. CASE VerifyEntry
  BY <1>12 DEF VerifyEntry, At, Works, GotoIf, fwVars, recVars, Goto, NextAttempt,
         procVars
<1>13. CASE SavePrepared
  BY <1>13 DEF SavePrepared, At, Works, Save, GotoIf, fwVars, recVars, Goto,
         NextAttempt, procVars
<1>14. CASE ArmBootChain
  BY <1>14 DEF ArmBootChain, At, Works, fwVars, recVars
<1>15. CASE SaveArming
  BY <1>15 DEF SaveArming, At, Works, Save, GotoIf, fwVars, recVars, Goto,
         NextAttempt, procVars
<1>16. CASE SetOneShot
  BY <1>16 DEF SetOneShot, At, BcdWrites, GotoIf, recVars, Goto, NextAttempt,
         procVars
<1>17. CASE VerifyArmed
  BY <1>17 DEF VerifyArmed, At, Works, GotoIf, fwVars, recVars, Goto, NextAttempt,
         procVars
<1>18. CASE SaveCommitted
  BY <1>18 DEF SaveCommitted, At, Works, Save, GotoIf, fwVars, recVars, Goto,
         NextAttempt, procVars
<1>19. CASE FinishArmed
  BY <1>19 DEF FinishArmed, At, Return, Goto, fwVars, NoTxn, procVars
<1>20. CASE DropStarted
  BY <1>20 DEF DropStarted, At, Return, fwVars, NoTxn
<1>21. CASE VerifyRepair
  BY <1>21 DEF VerifyRepair, At, Works, Goto, RunRestore, Return, fwVars, recVars,
         procVars, NoTxn
<1>22. CASE RestoreEnds
  BY <1>22 DEF RestoreEnds, At, Works, Return, fwVars, recVars, NoTxn
<1>23. CASE RetryTasks
  BY <1>23 DEF RetryTasks, At, Works, Goto, fwVars, procVars
<1>24. CASE RetryOneShot
  BY <1>24 DEF RetryOneShot, At, BcdWrites, Goto, recVars, procVars
<1>25. CASE OperationFailed
  BY <1>25 DEF OperationFailed, At, EnterRollback, Return, fwVars, recVars,
         JournaledTxn, NoTxn
<1>26. CASE SaveRollingBack
  BY <1>26 DEF SaveRollingBack, At, Works, Save, fwVars, recVars
<1>27. CASE RollbackLook
  BY <1>27 DEF RollbackLook, At, Works, fwVars, recVars
<1>28. CASE SaveRolledBack
  BY <1>28 DEF SaveRolledBack, At, Works, Save, Goto, AfterRollback, fwVars,
         recVars, procVars, DisarmEnd
<1>29. CASE SaveUnconfirmed
  BY <1>29 DEF SaveUnconfirmed, At, Works, Save, Goto, AfterRollback, fwVars,
         recVars, procVars, DisarmEnd
<1>30. CASE DropGuidFile
  BY <1>30 DEF DropGuidFile, At, Goto, fwVars, procVars
<1>31. CASE DropTasks
  BY <1>31 DEF DropTasks, At, Works, Goto, fwVars, procVars
<1>32. CASE DropArmedFile
  BY <1>32 DEF DropArmedFile, At, Goto, DisarmEnd, fwVars, procVars
<1>33. CASE WriteEndState
  BY <1>33 DEF WriteEndState, At, Return, fwVars, NoTxn
<1>34. CASE ReturnToIdle
  BY <1>34 DEF ReturnToIdle, At, Return, fwVars, recVars, NoTxn
<1>35. CASE UninstallTasks
  BY <1>35 DEF UninstallTasks, At, Works, NoTxn, fwVars
<1>36. CASE UninstallDisarms
  BY <1>36 DEF UninstallDisarms, At, EnterRollback, fwVars, recVars, JournaledTxn
<1>37. CASE CleanupESP
  BY <1>37 DEF CleanupESP, At, Works, Goto, recVars, procVars
<1>38. CASE RemoveInstallDir
  BY <1>38 DEF RemoveInstallDir, At, NoTxn, Goto, fwVars, procVars
<1>39. CASE RemoveState
  BY <1>39 DEF RemoveState, At, Return, fwVars, NoTxn
<1>40. CASE StartupUnreadable
  BY <1>40 DEF StartupUnreadable, At, Goto, fwVars, recVars, procVars
<1>41. CASE StartupKeep
  BY <1>41 DEF StartupKeep, At, Goto, StartupNext, fwVars, recVars, procVars
<1>42. CASE StartupMarkCommitted
  BY <1>42 DEF StartupMarkCommitted, At, Works, Goto, StartupNext, fwVars, recVars,
         procVars
<1>43. CASE StartupRollback
  BY <1>43 DEF StartupRollback, At, EnterRollback, fwVars, recVars, JournaledTxn
<1>44. CASE StartupJudge
  BY <1>44 DEF StartupJudge, At, Works, Goto, procVars
<1>45. CASE DeployerMarksStart
  BY <1>45 DEF DeployerMarksStart, Deployer, Goto, fwVars, procVars
<1>46. CASE DeployerWritesState("d1", "d2", "deploying")
  BY <1>46 DEF DeployerWritesState, Deployer, Goto, fwVars, procVars
<1>47. CASE DeployerStagesPhase2
  BY <1>47 DEF DeployerStagesPhase2, Deployer, Goto, recVars, procVars
<1>48. CASE DeployerWritesState("d3", "d4", "deployed")
  BY <1>48 DEF DeployerWritesState, Deployer, Goto, fwVars, procVars
<1>49. CASE DeployerFails
  BY <1>49 DEF DeployerFails, PowerOff, fwVars, Return, NoTxn
<1>50. CASE DeployerRearms
  BY <1>50 DEF DeployerRearms, Deployer, PowerOff, recVars, Return, NoTxn
<1>51. CASE LinuxRuns
  BY <1>51 DEF LinuxRuns, PowerOff, fwVars, Return, NoTxn
<1>52. CASE StartInstall
  BY <1>52 DEF StartInstall, At
<1>53. CASE StartRepair
  BY <1>53 DEF StartRepair, Steady
<1>54. CASE StartTryAgain
  BY <1>54 DEF StartTryAgain, At, fwVars, recVars
<1>55. CASE ArmPersistedGuid
  BY <1>55 DEF ArmPersistedGuid, At, BcdWrites, recVars, procVars
<1>56. CASE StopPipeline
  BY <1>56 DEF StopPipeline, At, EnterRollback, fwVars, recVars, JournaledTxn
<1>57. CASE FinishCancelled
  BY <1>57 DEF FinishCancelled, At, EnterRollback, fwVars, recVars, JournaledTxn
<1>58. CASE StartUninstall
  BY <1>58 DEF StartUninstall, At, fwVars, recVars
<1>59. CASE StartRestore
  BY <1>59 DEF StartRestore, At, RunRestore, fwVars, recVars, NoTxn
<1>60. CASE FirmwareStartsLoader
  BY <1>60 DEF FirmwareStartsLoader, recVars, procVars
<1>61. CASE FirmwareStartsWindows
  BY <1>61 DEF FirmwareStartsWindows, recVars
<1>62. CASE ForeignOneShot
  BY <1>62 DEF ForeignOneShot, At, recVars, procVars
<1>63. CASE EspRewritten
  BY <1>63 DEF EspRewritten, At, Works, recVars, procVars
<1>64. CASE PowerCut
  BY <1>64 DEF PowerCut, PowerOff, TornAt, fwVars, Return, NoTxn
<1>65. CASE Restart
  BY <1>65 DEF Restart, At, PowerOff, fwVars, recVars, Return, NoTxn
<1>66. CASE UNCHANGED vars
  BY <1>66 DEF vars, fwVars, recVars, procVars
<1> QED BY <1>1, <1>2, <1>3, <1>4, <1>5, <1>6, <1>7, <1>8, <1>9, <1>10, <1>11,
         <1>12, <1>13, <1>14, <1>15, <1>16, <1>17, <1>18, <1>19, <1>20, <1>21,
         <1>22, <1>23, <1>24, <1>25, <1>26, <1>27, <1>28, <1>29, <1>30, <1>31,
         <1>32, <1>33, <1>34, <1>35, <1>36, <1>37, <1>38, <1>39, <1>40, <1>41,
         <1>42, <1>43, <1>44, <1>45, <1>46, <1>47, <1>48, <1>49, <1>50, <1>51,
         <1>52, <1>53, <1>54, <1>55, <1>56, <1>57, <1>58, <1>59, <1>60, <1>61,
         <1>62, <1>63, <1>64, <1>65, <1>66
    DEF Next, Program, BuildStep, ArmStep, RollbackStep, UninstallStep,
        StartupStep, LinuxStep, UserStep, Boot, World

\* The firmware starts a loader only from the journaled entry, once it is armed.
LEMMA OnlyArmedBoots ==
    ASSUME TypeInv, Setting, Entries, NEW g \in NextBoot
    PROVE  g \in Guid /\ g = journal.guid /\ disk /\ ~Inert
<1>1. g \in Guid /\ Boots(g) /\ 1 \in DOMAIN bootseq /\ g = bootseq[1]
  BY DEF NextBoot, Boots, Setting, TypeInv, TypeOK
<1>2. Entry(g)
  BY <1>1 DEF Entries, Boots
<1>3. g \in Elems(bootseq)
  BY <1>1 DEF Elems
<1> QED BY <1>1, <1>2, <1>3 DEF Entry

LEMMA NoneListed == Elems(<<>>) = {}
BY DEF Elems

\* Every sweep is going to delete the entry it knows, with a listing and without.
LEMMA PlansDelete ==
    ASSUME NEW g \in Guid, NEW guid \in GuidOrNone
    PROVE  /\ Live(g) => [do |-> "delete", id |-> g] \in SweepPlan(guid)
           /\ g = guid => [do |-> "delete", id |-> g] \in BlindPlan(guid)
BY ConstantsAssumption DEF SweepPlan, BlindPlan, WootcEntryIDs, GuidOrNone

\* Every step preserves Entries.
LEMMA EntriesStep ==
    ASSUME Steady, TypeInv, CleanInv, CommitInv, Setting, Unused, Entries, [Next]_vars
    PROVE  Entries'
<1>0. /\ journal \in Txn /\ txn \in Txn /\ tasks \in BOOLEAN
      /\ store \in [Guid -> {"absent", "copied", "pathed"}]
      /\ bootseq \in Seq(Guid \union {Foreign})
      /\ pc \in Holding => txn.guid \in Guid
      /\ pc \in Holding \union {"copy", "pipeline"} => stage \in {"begin", "arm"}
      /\ stage \in {"begin", "arm"} /\ pc # "opFailed" => tasks
      /\ machine # "windows" \/ pc = "idle" => stage = "none"
      /\ pc \in {"addfirst", "verifyArmed", "commit"} => journal.phase = "arming"
      /\ pc \in {"copy", "created"} => journal.phase = "creating-entry"
      /\ pc = "setpath" => journal.phase = "entry-created"
  BY DEF TypeInv, TypeOK, EntryKnown, CleanInv, CommitInv, BuildGuarded, CommitReady,
         Building
<1>00. "cmd" \notin Faults /\ "repair" \notin Ops /\ "torn" \notin Faults
  BY DEF Steady
<1>01. /\ op = "install" => disk /\ esp # "phase2"
       /\ machine \in {"deployer", "linux"} => ~Inert
       /\ ~disk => machine \notin {"deployer", "linux"}
  BY DEF Unused, Evident
<1> USE <1>0, <1>00, <1>01
    DEF Setting, Holding, Entries, Entry, Bare, Built, Ours, Handled, Inert, Txn
<1>1. CASE RegisterTasks
  BY <1>1 DEF RegisterTasks, At, Works, NoTxn, fwVars
<1>2. CASE SaveBegun
  BY <1>2 DEF SaveBegun, At, Works, Goto, Save, fwVars, recVars, procVars
<1>3. CASE SweepLook
  <2>1. ASSUME NEW g \in Guid, store[g] = "pathed", Ours
        PROVE  [do |-> "delete", id |-> g] \in cmds'
    <3>1. Live(g) /\ g = txn.guid /\ txn.guid \in GuidOrNone
      BY <1>3, <2>1 DEF SweepLook, At, Live
    <3> QED BY <1>3, <2>1, <3>1, PlansDelete DEF SweepLook
  <2> QED BY <1>3, <2>1 DEF SweepLook, At, Works, fwVars, recVars
<1>4. CASE SweepCommand
  <2>1. PICK c \in cmds : SweepCommand!2!(c, TRUE)
    BY <1>4 DEF SweepCommand, Works
  <2>2. Elems(bootseq') \subseteq Elems(bootseq)
    <3>1. bootseq' \in {bootseq, <<>>, Without(bootseq, c.id)}
      BY <2>1, Zenon
    <3> QED BY <3>1, NoneListed, WithoutDrops, Zenon
  <2>3. \A g \in Guid : store'[g] = "pathed" =>
           store[g] = "pathed" /\ c # [do |-> "delete", id |-> g]
    BY <2>1
  <2> QED BY <1>4, <2>1, <2>2, <2>3 DEF SweepCommand, At, recVars
<1>5. CASE SaveCreatingEntry
  BY <1>5 DEF SaveCreatingEntry, At, Works, GotoIf, fwVars, recVars, Goto,
         NextAttempt, procVars
<1>6. CASE CopyEntry
  <2>1. CASE CopyEntry!2!1
    <3>1. PICK h \in FreshGuid, p \in CopyPlaces : CopyEntry!2!1!(h, p, FALSE)
      BY <2>1 DEF BcdWrites
    <3>2. h \in Guid /\ h \notin Elems(bootseq) /\ pc' = "created" /\ txn'.guid = h
      BY <3>1 DEF FreshGuid, GotoIf, Goto
    <3>3. \A g \in Guid : store'[g] # "pathed"
      BY <1>6, <3>1, <3>2 DEF CopyEntry, At
    <3> QED BY <1>6, <3>2, <3>3 DEF CopyEntry
  <2>2. CASE CopyEntry!2!2
    BY <1>6, <2>2 DEF CopyEntry, At, NextAttempt, recVars
  <2> QED BY <1>6, <2>1, <2>2 DEF CopyEntry
<1>7. CASE SaveEntryCreated
  BY <1>7 DEF SaveEntryCreated, At, Works, Save, GotoIf, fwVars, recVars, Goto,
         NextAttempt, procVars
<1>8. CASE SetPath
  BY <1>8 DEF SetPath, At, BcdWrites, GotoIf, recVars, Goto, NextAttempt, procVars
<1>9. CASE LeaveOrder
  BY <1>9 DEF LeaveOrder, At, Works, Goto, recVars, procVars
<1>10. CASE WriteGuidFile
  BY <1>10 DEF WriteGuidFile, At, Works, GotoIf, fwVars, Goto, NextAttempt, procVars
<1>11. CASE WriteArmedFile
  BY <1>11 DEF WriteArmedFile, At, Works, GotoIf, fwVars, Goto, NextAttempt,
         procVars
<1>12. CASE VerifyEntry
  BY <1>12 DEF VerifyEntry, At, Works, GotoIf, fwVars, recVars, Goto, NextAttempt,
         procVars
<1>13. CASE SavePrepared
  BY <1>13 DEF SavePrepared, At, Works, Save, GotoIf, fwVars, recVars, Goto,
         NextAttempt, procVars
<1>14. CASE ArmBootChain
  BY <1>14 DEF ArmBootChain, At, Works, fwVars, recVars
<1>15. CASE SaveArming
  BY <1>15 DEF SaveArming, At, Works, Save, GotoIf, fwVars, recVars, Goto,
         NextAttempt, procVars
<1>16. CASE SetOneShot
  BY <1>16 DEF SetOneShot, At, BcdWrites, GotoIf, recVars, Goto, NextAttempt,
         procVars
<1>17. CASE VerifyArmed
  BY <1>17 DEF VerifyArmed, At, Works, GotoIf, fwVars, recVars, Goto, NextAttempt,
         procVars
<1>18. CASE SaveCommitted
  BY <1>18 DEF SaveCommitted, At, Works, Save, GotoIf, fwVars, recVars, Goto,
         NextAttempt, procVars
<1>19. CASE FinishArmed
  BY <1>19 DEF FinishArmed, At, Return, Goto, fwVars, NoTxn, procVars
<1>20. CASE DropStarted
  BY <1>20 DEF DropStarted, At, Return, fwVars, NoTxn
<1>21. CASE VerifyRepair
  BY <1>21 DEF VerifyRepair, At, Works, Goto, RunRestore, Return, fwVars, recVars,
         procVars, NoTxn
<1>22. CASE RestoreEnds
  BY <1>22 DEF RestoreEnds, At, Works, Return, fwVars, recVars, NoTxn
<1>23. CASE RetryTasks
  BY <1>23 DEF RetryTasks, At, Works, Goto, fwVars, procVars
<1>24. CASE RetryOneShot
  BY <1>24 DEF RetryOneShot, At, BcdWrites, Goto, recVars, procVars
<1>25. CASE OperationFailed
  BY <1>25 DEF OperationFailed, At, EnterRollback, Return, fwVars, recVars,
         JournaledTxn, NoTxn
<1>26. CASE SaveRollingBack
  BY <1>26 DEF SaveRollingBack, At, Works, Save, fwVars, recVars
<1>27. CASE RollbackLook
  <2>1. \A g \in Guid : store[g] # "pathed"
    BY <1>27 DEF RollbackLook, At
  <2> QED BY <1>27, <2>1 DEF RollbackLook, At, fwVars, recVars
<1>28. CASE SaveRolledBack
  BY <1>28 DEF SaveRolledBack, At, Works, Save, Goto, AfterRollback, fwVars,
         recVars, procVars, DisarmEnd
<1>29. CASE SaveUnconfirmed
  BY <1>29 DEF SaveUnconfirmed, At, Works, Save, Goto, AfterRollback, fwVars,
         recVars, procVars, DisarmEnd
<1>30. CASE DropGuidFile
  BY <1>30 DEF DropGuidFile, At, Goto, fwVars, procVars
<1>31. CASE DropTasks
  BY <1>31 DEF DropTasks, At, Works, Goto, fwVars, procVars
<1>32. CASE DropArmedFile
  BY <1>32 DEF DropArmedFile, At, Goto, DisarmEnd, fwVars, procVars
<1>33. CASE WriteEndState
  BY <1>33 DEF WriteEndState, At, Return, fwVars, NoTxn
<1>34. CASE ReturnToIdle
  BY <1>34 DEF ReturnToIdle, At, Return, fwVars, recVars, NoTxn
<1>35. CASE UninstallTasks
  BY <1>35 DEF UninstallTasks, At, Works, NoTxn, fwVars
<1>36. CASE UninstallDisarms
  BY <1>36 DEF UninstallDisarms, At, EnterRollback, fwVars, recVars, JournaledTxn
<1>37. CASE CleanupESP
  BY <1>37 DEF CleanupESP, At, Works, Goto, recVars, procVars
<1>38. CASE RemoveInstallDir
  BY <1>38 DEF RemoveInstallDir, At, NoTxn, Goto, fwVars, procVars
<1>39. CASE RemoveState
  BY <1>39 DEF RemoveState, At, Return, fwVars, NoTxn
<1>40. CASE StartupUnreadable
  BY <1>40 DEF StartupUnreadable, At, Goto, fwVars, recVars, procVars
<1>41. CASE StartupKeep
  <2>1. journal.phase = "none" \/ ~Inert
    BY <1>41 DEF StartupKeep, StartupAction
  <2> QED BY <1>41, <2>1 DEF StartupKeep, At, Goto, StartupNext, fwVars, recVars, procVars
<1>42. CASE StartupMarkCommitted
  <2>1. journal.phase = "arming"
    BY <1>42 DEF StartupMarkCommitted, StartupAction
  <2>2. /\ journal'.guid = journal.guid
        /\ journal'.phase \in {"arming", "committed"}
    BY <1>42, <2>1 DEF StartupMarkCommitted
  <2> QED BY <1>42, <2>2
          DEF StartupMarkCommitted, At, Goto, StartupNext, fwVars, recVars, procVars
<1>43. CASE StartupRollback
  BY <1>43 DEF StartupRollback, At, EnterRollback, fwVars, recVars, JournaledTxn
<1>44. CASE StartupJudge
  BY <1>44 DEF StartupJudge, At, Works, Goto, procVars
<1>45. CASE DeployerMarksStart
  BY <1>45 DEF DeployerMarksStart, Deployer, Goto, fwVars, procVars
<1>46. CASE DeployerWritesState("d1", "d2", "deploying")
  BY <1>46 DEF DeployerWritesState, Deployer, Goto, fwVars, procVars
<1>47. CASE DeployerStagesPhase2
  BY <1>47 DEF DeployerStagesPhase2, Deployer, Goto, recVars, procVars
<1>48. CASE DeployerWritesState("d3", "d4", "deployed")
  BY <1>48 DEF DeployerWritesState, Deployer, Goto, fwVars, procVars
<1>49. CASE DeployerFails
  BY <1>49 DEF DeployerFails, PowerOff, fwVars, Return, NoTxn
<1>50. CASE DeployerRearms
  BY <1>50 DEF DeployerRearms, Deployer, PowerOff, recVars, Return, NoTxn
<1>51. CASE LinuxRuns
  BY <1>51 DEF LinuxRuns, PowerOff, fwVars, Return, NoTxn
<1>52. CASE StartInstall
  BY <1>52 DEF StartInstall, At
<1>53. CASE StartRepair
  BY <1>53 DEF StartRepair, At, recVars
<1>54. CASE StartTryAgain
  BY <1>54 DEF StartTryAgain, At, fwVars, recVars
<1>55. CASE ArmPersistedGuid
  BY <1>55 DEF ArmPersistedGuid, At, BcdWrites, recVars, procVars
<1>56. CASE StopPipeline
  BY <1>56 DEF StopPipeline, At, EnterRollback, fwVars, recVars, JournaledTxn
<1>57. CASE FinishCancelled
  BY <1>57 DEF FinishCancelled, At, EnterRollback, fwVars, recVars, JournaledTxn
<1>58. CASE StartUninstall
  BY <1>58 DEF StartUninstall, At, fwVars, recVars
<1>59. CASE StartRestore
  BY <1>59 DEF StartRestore, At, RunRestore, fwVars, recVars, NoTxn
<1>60. CASE FirmwareStartsLoader
  BY <1>60, NoneListed DEF FirmwareStartsLoader, recVars, procVars
<1>61. CASE FirmwareStartsWindows
  BY <1>61, NoneListed DEF FirmwareStartsWindows, recVars
<1>62. CASE ForeignOneShot
  BY <1>62 DEF ForeignOneShot, At, recVars, procVars
<1>63. CASE EspRewritten
  BY <1>63 DEF EspRewritten, At, Works, recVars, procVars
<1>64. CASE PowerCut
  BY <1>64 DEF PowerCut, PowerOff, fwVars, Return, NoTxn
<1>65. CASE Restart
  BY <1>65 DEF Restart, At, PowerOff, fwVars, recVars, Return, NoTxn
<1>66. CASE UNCHANGED vars
  BY <1>66 DEF vars, fwVars, recVars, procVars
<1> QED BY <1>1, <1>2, <1>3, <1>4, <1>5, <1>6, <1>7, <1>8, <1>9, <1>10, <1>11,
         <1>12, <1>13, <1>14, <1>15, <1>16, <1>17, <1>18, <1>19, <1>20, <1>21,
         <1>22, <1>23, <1>24, <1>25, <1>26, <1>27, <1>28, <1>29, <1>30, <1>31,
         <1>32, <1>33, <1>34, <1>35, <1>36, <1>37, <1>38, <1>39, <1>40, <1>41,
         <1>42, <1>43, <1>44, <1>45, <1>46, <1>47, <1>48, <1>49, <1>50, <1>51,
         <1>52, <1>53, <1>54, <1>55, <1>56, <1>57, <1>58, <1>59, <1>60, <1>61,
         <1>62, <1>63, <1>64, <1>65, <1>66
    DEF Next, Program, BuildStep, ArmStep, RollbackStep, UninstallStep,
        StartupStep, LinuxStep, UserStep, Boot, World
\* Every step preserves Unused.
LEMMA UnusedStep ==
    ASSUME Steady, TypeInv, CommitInv, Setting, Entries, Unused, [Next]_vars
    PROVE  Unused'
<1>0. /\ journal \in Txn /\ txn \in Txn
      /\ pc \in Holding \union {"copy"} => stage \in {"begin", "arm"}
      /\ stage \in {"begin", "arm"} => op = "install"
      /\ pc \in {"register", "begun", "opFailed"} => op = "install"
      /\ machine # "windows" => op = "none"
      /\ machine = "off" => pc = "idle"
  BY DEF TypeInv, TypeOK, CommitInv, BuildGuarded, Setting
<1> USE <1>0 DEF Holding, Unused, Evident, Reached, Inert, Txn
<1>1. CASE RegisterTasks
  BY <1>1 DEF RegisterTasks, At, Works, NoTxn, fwVars
<1>2. CASE SaveBegun
  BY <1>2 DEF SaveBegun, At, Works, Goto, Save, fwVars, recVars, procVars
<1>3. CASE SweepLook
  BY <1>3 DEF SweepLook, At, Works, fwVars, recVars
<1>4. CASE SweepCommand
  BY <1>4 DEF SweepCommand, At, Works, recVars
<1>5. CASE SaveCreatingEntry
  BY <1>5 DEF SaveCreatingEntry, At, Works, GotoIf, fwVars, recVars, Goto,
         NextAttempt, procVars
<1>6. CASE CopyEntry
  BY <1>6 DEF CopyEntry, At, BcdWrites, GotoIf, NextAttempt, recVars, Goto, procVars
<1>7. CASE SaveEntryCreated
  BY <1>7 DEF SaveEntryCreated, At, Works, Save, GotoIf, fwVars, recVars, Goto,
         NextAttempt, procVars
<1>8. CASE SetPath
  BY <1>8 DEF SetPath, At, BcdWrites, GotoIf, recVars, Goto, NextAttempt, procVars
<1>9. CASE LeaveOrder
  BY <1>9 DEF LeaveOrder, At, Works, Goto, recVars, procVars
<1>10. CASE WriteGuidFile
  BY <1>10 DEF WriteGuidFile, At, Works, GotoIf, fwVars, Goto, NextAttempt, procVars
<1>11. CASE WriteArmedFile
  BY <1>11 DEF WriteArmedFile, At, Works, GotoIf, fwVars, Goto, NextAttempt,
         procVars
<1>12. CASE VerifyEntry
  BY <1>12 DEF VerifyEntry, At, Works, GotoIf, fwVars, recVars, Goto, NextAttempt,
         procVars
<1>13. CASE SavePrepared
  BY <1>13 DEF SavePrepared, At, Works, Save, GotoIf, fwVars, recVars, Goto,
         NextAttempt, procVars
<1>14. CASE ArmBootChain
  BY <1>14 DEF ArmBootChain, At, Works, fwVars, recVars
<1>15. CASE SaveArming
  BY <1>15 DEF SaveArming, At, Works, Save, GotoIf, fwVars, recVars, Goto,
         NextAttempt, procVars
<1>16. CASE SetOneShot
  BY <1>16 DEF SetOneShot, At, BcdWrites, GotoIf, recVars, Goto, NextAttempt,
         procVars
<1>17. CASE VerifyArmed
  BY <1>17 DEF VerifyArmed, At, Works, GotoIf, fwVars, recVars, Goto, NextAttempt,
         procVars
<1>18. CASE SaveCommitted
  BY <1>18 DEF SaveCommitted, At, Works, Save, GotoIf, fwVars, recVars, Goto,
         NextAttempt, procVars
<1>19. CASE FinishArmed
  BY <1>19 DEF FinishArmed, At, Return, Goto, fwVars, NoTxn, procVars
<1>20. CASE DropStarted
  BY <1>20 DEF DropStarted, At, Return, fwVars, NoTxn
<1>21. CASE VerifyRepair
  BY <1>21 DEF VerifyRepair, At, Works, Goto, RunRestore, Return, fwVars, recVars,
         procVars, NoTxn
<1>22. CASE RestoreEnds
  BY <1>22 DEF RestoreEnds, At, Works, Return, fwVars, recVars, NoTxn
<1>23. CASE RetryTasks
  BY <1>23 DEF RetryTasks, At, Works, Goto, fwVars, procVars
<1>24. CASE RetryOneShot
  BY <1>24 DEF RetryOneShot, At, BcdWrites, Goto, recVars, procVars
<1>25. CASE OperationFailed
  BY <1>25 DEF OperationFailed, At, EnterRollback, Return, fwVars, recVars,
         JournaledTxn, NoTxn
<1>26. CASE SaveRollingBack
  BY <1>26 DEF SaveRollingBack, At, Works, Save, fwVars, recVars
<1>27. CASE RollbackLook
  BY <1>27 DEF RollbackLook, At, Works, fwVars, recVars
<1>28. CASE SaveRolledBack
  BY <1>28 DEF SaveRolledBack, At, Works, Save, Goto, AfterRollback, fwVars,
         recVars, procVars, DisarmEnd
<1>29. CASE SaveUnconfirmed
  BY <1>29 DEF SaveUnconfirmed, At, Works, Save, Goto, AfterRollback, fwVars,
         recVars, procVars, DisarmEnd
<1>30. CASE DropGuidFile
  BY <1>30 DEF DropGuidFile, At, Goto, fwVars, procVars
<1>31. CASE DropTasks
  BY <1>31 DEF DropTasks, At, Works, Goto, fwVars, procVars
<1>32. CASE DropArmedFile
  BY <1>32 DEF DropArmedFile, At, Goto, DisarmEnd, fwVars, procVars
<1>33. CASE WriteEndState
  BY <1>33 DEF WriteEndState, At, Return, fwVars, NoTxn
<1>34. CASE ReturnToIdle
  BY <1>34 DEF ReturnToIdle, At, Return, fwVars, recVars, NoTxn
<1>35. CASE UninstallTasks
  BY <1>35 DEF UninstallTasks, At, Works, NoTxn, fwVars
<1>36. CASE UninstallDisarms
  BY <1>36 DEF UninstallDisarms, At, EnterRollback, fwVars, recVars, JournaledTxn
<1>37. CASE CleanupESP
  BY <1>37 DEF CleanupESP, At, Works, Goto, recVars, procVars
<1>38. CASE RemoveInstallDir
  BY <1>38 DEF RemoveInstallDir, At, NoTxn, Goto, fwVars, procVars
<1>39. CASE RemoveState
  BY <1>39 DEF RemoveState, At, Return, fwVars, NoTxn
<1>40. CASE StartupUnreadable
  BY <1>40 DEF StartupUnreadable, At, Goto, fwVars, recVars, procVars
<1>41. CASE StartupKeep
  BY <1>41 DEF StartupKeep, At, Goto, StartupNext, fwVars, recVars, procVars
<1>42. CASE StartupMarkCommitted
  BY <1>42 DEF StartupMarkCommitted, At, Works, Goto, StartupNext, fwVars, recVars,
         procVars
<1>43. CASE StartupRollback
  BY <1>43 DEF StartupRollback, At, EnterRollback, fwVars, recVars, JournaledTxn
<1>44. CASE StartupJudge
  BY <1>44 DEF StartupJudge, At, Works, Goto, procVars
<1>45. CASE DeployerMarksStart
  BY <1>45 DEF DeployerMarksStart, Deployer, Goto, fwVars, procVars
<1>46. CASE DeployerWritesState("d1", "d2", "deploying")
  BY <1>46 DEF DeployerWritesState, Deployer, Goto, fwVars, procVars
<1>47. CASE DeployerStagesPhase2
  BY <1>47 DEF DeployerStagesPhase2, Deployer, Goto, recVars, procVars
<1>48. CASE DeployerWritesState("d3", "d4", "deployed")
  BY <1>48 DEF DeployerWritesState, Deployer, Goto, fwVars, procVars
<1>49. CASE DeployerFails
  BY <1>49 DEF DeployerFails, PowerOff, fwVars, Return, NoTxn
<1>50. CASE DeployerRearms
  BY <1>50 DEF DeployerRearms, Deployer, PowerOff, recVars, Return, NoTxn
<1>51. CASE LinuxRuns
  BY <1>51 DEF LinuxRuns, PowerOff, fwVars, Return, NoTxn
<1>52. CASE StartInstall
  BY <1>52 DEF StartInstall, At
<1>53. CASE StartRepair
  BY <1>53 DEF StartRepair, Steady
<1>54. CASE StartTryAgain
  BY <1>54 DEF StartTryAgain, At, fwVars, recVars
<1>55. CASE ArmPersistedGuid
  BY <1>55 DEF ArmPersistedGuid, At, BcdWrites, recVars, procVars
<1>56. CASE StopPipeline
  BY <1>56 DEF StopPipeline, At, EnterRollback, fwVars, recVars, JournaledTxn
<1>57. CASE FinishCancelled
  BY <1>57 DEF FinishCancelled, At, EnterRollback, fwVars, recVars, JournaledTxn
<1>58. CASE StartUninstall
  BY <1>58 DEF StartUninstall, At, fwVars, recVars
<1>59. CASE StartRestore
  BY <1>59 DEF StartRestore, At, RunRestore, fwVars, recVars, NoTxn
<1>60. CASE FirmwareStartsLoader
  <2>1. NextBoot # {} /\ FirmwareStartsLoader!2 /\ FirmwareStartsLoader!4
    BY <1>60 DEF FirmwareStartsLoader
  <2>2. disk /\ ~Inert
    BY <2>1, OnlyArmedBoots
  <2> QED BY <1>60, <2>2 DEF FirmwareStartsLoader, recVars, procVars
<1>61. CASE FirmwareStartsWindows
  BY <1>61 DEF FirmwareStartsWindows, recVars
<1>62. CASE ForeignOneShot
  BY <1>62 DEF ForeignOneShot, At, recVars, procVars
<1>63. CASE EspRewritten
  BY <1>63 DEF EspRewritten, At, Works, recVars, procVars
<1>64. CASE PowerCut
  BY <1>64 DEF PowerCut, PowerOff, fwVars, Return, NoTxn
<1>65. CASE Restart
  BY <1>65 DEF Restart, At, PowerOff, fwVars, recVars, Return, NoTxn
<1>66. CASE UNCHANGED vars
  BY <1>66 DEF vars, fwVars, recVars, procVars
<1> QED BY <1>1, <1>2, <1>3, <1>4, <1>5, <1>6, <1>7, <1>8, <1>9, <1>10, <1>11,
         <1>12, <1>13, <1>14, <1>15, <1>16, <1>17, <1>18, <1>19, <1>20, <1>21,
         <1>22, <1>23, <1>24, <1>25, <1>26, <1>27, <1>28, <1>29, <1>30, <1>31,
         <1>32, <1>33, <1>34, <1>35, <1>36, <1>37, <1>38, <1>39, <1>40, <1>41,
         <1>42, <1>43, <1>44, <1>45, <1>46, <1>47, <1>48, <1>49, <1>50, <1>51,
         <1>52, <1>53, <1>54, <1>55, <1>56, <1>57, <1>58, <1>59, <1>60, <1>61,
         <1>62, <1>63, <1>64, <1>65, <1>66
    DEF Next, Program, BuildStep, ArmStep, RollbackStep, UninstallStep,
        StartupStep, LinuxStep, UserStep, Boot, World

\* At its beginning the startup task takes one of its own steps.
LEMMA AtStartup ==
    ASSUME [Next]_vars, At("startup")
    PROVE  StartupStep \/ PowerCut \/ UNCHANGED vars
<1>1. ~BuildStep /\ ~ArmStep /\ ~RollbackStep
  BY DEF At, BuildStep, RegisterTasks, SaveBegun, SweepLook, SweepCommand,
         SaveCreatingEntry, CopyEntry, SaveEntryCreated, SetPath, LeaveOrder,
         WriteGuidFile, WriteArmedFile, VerifyEntry, SavePrepared, ArmStep,
         ArmBootChain, SaveArming, SetOneShot, VerifyArmed, SaveCommitted,
         FinishArmed, DropStarted, VerifyRepair, RestoreEnds, RetryTasks,
         RetryOneShot, RollbackStep, OperationFailed, SaveRollingBack,
         RollbackLook, SaveRolledBack, SaveUnconfirmed, DropGuidFile, DropTasks,
         DropArmedFile, WriteEndState, ReturnToIdle
<1>2. ~UninstallStep /\ ~LinuxStep /\ ~UserStep /\ ~Restart /\ ~Boot
  BY DEF At, UninstallStep, UninstallTasks, UninstallDisarms, CleanupESP,
         RemoveInstallDir, RemoveState, LinuxStep, DeployerMarksStart, Deployer,
         DeployerWritesState, DeployerStagesPhase2, DeployerFails, DeployerRearms,
         LinuxRuns, UserStep, StartInstall, StartRepair, StartTryAgain,
         ArmPersistedGuid, StopPipeline, FinishCancelled, StartUninstall,
         StartRestore, Restart, Boot, FirmwareStartsLoader, FirmwareStartsWindows
<1>3. ~ForeignOneShot /\ ~EspRewritten
  BY DEF ForeignOneShot, EspRewritten, At
<1> QED BY <1>1, <1>2, <1>3 DEF Next, Program, World

\* Only recoverBootTxnAtStartup's rollback takes the stage "startup", and only
\* its mark-committed journals a commit there.
LEMMA OnlyRollbackEnters ==
    ASSUME [Next]_vars, At("startup"), stage = "none", stage' = "startup"
    PROVE  StartupRollback
BY AtStartup DEF StartupStep, StartupUnreadable, StartupKeep, StartupMarkCommitted,
   StartupJudge, Goto, procVars, PowerCut, PowerOff, Return, vars

LEMMA OnlyMarkCommits ==
    ASSUME [Next]_vars, At("startup"),
           journal.phase = "arming", journal'.phase = "committed"
    PROVE  StartupMarkCommitted
BY AtStartup DEF StartupStep, StartupUnreadable, StartupKeep, StartupRollback,
   StartupJudge, PowerCut, vars

\* While it is inert the entry is out of reach: the invariant of the theorems below.
LEMMA InertInvariant ==
    ASSUME Steady
    PROVE  Spec => [](TypeInv /\ CleanInv /\ CommitInv /\ InertInv)
<1>1. Init => InertInv
  BY ConstantsAssumption
     DEF Init, NoTxn, InertInv, Setting, Unused, Entries, Evident, Reached, Inert, Built
<1>2. TypeInv /\ CleanInv /\ CommitInv /\ InertInv /\ [Next]_vars => InertInv'
  BY SettingStep, UnusedStep, EntriesStep DEF InertInv
<1> QED BY <1>1, <1>2, StandingInvariant, PTL DEF Spec

\* boot_txn.go:36-38: until the journal says arming no start can go to the
\* loader, wherever the power is cut, whatever reads, journal writes and task
\* registrations fail, and whatever the user asks for in between.
THEOREM InertBeforeArming == ASSUME Steady PROVE Spec => []InertUntilArming
<1>1. TypeInv /\ InertInv => InertUntilArming
  BY OnlyArmedBoots DEF InertInv, InertUntilArming, Inert
<1> QED BY <1>1, InertInvariant, PTL

\* boot_txn.go:569-574: startup recovery never rolls back as interrupted what
\* a deployer has begun to use.
THEOREM StartedIsKept == ASSUME Steady PROVE Spec => StartedDeploymentKept
<1>1. ASSUME TypeInv, InertInv, [Next]_vars, At("startup"), stage' = "startup",
             journal.phase \notin {"rolling-back", "rollback-unconfirmed"}
      PROVE  state \notin {"deploying", "deployed", "healthy"}
  <2>1. stage = "none"
    BY <1>1 DEF InertInv, Setting, At
  <2>2. StartupRollback
    BY <1>1, <2>1, OnlyRollbackEnters
  <2>3. journal \in Txn
    BY <1>1 DEF TypeInv, TypeOK
  <2>4. Inert \/ (journal.phase = "arming" /\ state \notin Reached)
    BY <1>1, <2>2, <2>3 DEF StartupRollback, StartupAction, Inert, Txn, Phases, Reached
  <2> QED BY <1>1, <2>4 DEF InertInv, Unused, Evident, Reached
<1>2. TypeInv /\ InertInv /\ [Next]_vars =>
        [ (/\ At("startup") /\ stage' = "startup"
           /\ journal.phase \notin {"rolling-back", "rollback-unconfirmed"}) =>
            state \notin {"deploying", "deployed", "healthy"} ]_vars
  BY <1>1
<1> QED BY <1>2, InertInvariant, PTL DEF Spec, StartedDeploymentKept

\* Only armBootChainTxn journals "arming".
LEMMA OnlyInstallArms ==
    ASSUME TypeInv, CommitInv, Setting, [Next]_vars,
           journal' # journal, journal'.phase = "arming"
    PROVE  op = "install" /\ UNCHANGED <<started, state, esp, machine>>
<1>0. /\ journal \in Txn /\ txn \in Txn
      /\ pc = "arming" => op = "install"
  BY DEF TypeInv, TypeOK, CommitInv, BuildGuarded, Setting, Holding
<1> USE <1>0 DEF Txn
<1>1. BuildStep => journal'.phase # "arming" \/ UNCHANGED journal
  <2>1. SaveBegun => journal'.phase # "arming" \/ UNCHANGED journal
    BY DEF SaveBegun, Save
  <2>2. SaveCreatingEntry => journal'.phase # "arming" \/ UNCHANGED journal
    BY DEF SaveCreatingEntry
  <2>3. SaveEntryCreated \/ SavePrepared => journal'.phase # "arming" \/ UNCHANGED journal
    BY DEF SaveEntryCreated, SavePrepared, Save
  <2>4. RegisterTasks \/ SweepLook \/ SweepCommand \/ CopyEntry \/ SetPath \/ LeaveOrder
          \/ WriteGuidFile \/ WriteArmedFile \/ VerifyEntry => UNCHANGED journal
    BY DEF RegisterTasks, SweepLook, SweepCommand, CopyEntry, SetPath, LeaveOrder,
           WriteGuidFile, WriteArmedFile, VerifyEntry
  <2> QED BY <2>1, <2>2, <2>3, <2>4 DEF BuildStep
<1>2. ArmStep => SaveArming \/ journal'.phase # "arming" \/ UNCHANGED journal
  BY DEF ArmStep, ArmBootChain, SetOneShot, VerifyArmed, SaveCommitted,
         FinishArmed, DropStarted, VerifyRepair, RestoreEnds, RetryTasks,
         RetryOneShot, Save
<1>3. RollbackStep => journal'.phase # "arming" \/ UNCHANGED journal
  BY DEF RollbackStep, OperationFailed, SaveRollingBack, RollbackLook,
         SaveRolledBack, SaveUnconfirmed, DropGuidFile, DropTasks,
         DropArmedFile, WriteEndState, ReturnToIdle, Save
<1>4. UninstallStep => journal'.phase # "arming" \/ UNCHANGED journal
  <2>1. RemoveInstallDir => journal'.phase = "none"
    BY DEF RemoveInstallDir, NoTxn
  <2>2. UninstallTasks \/ UninstallDisarms \/ CleanupESP \/ RemoveState => UNCHANGED journal
    BY DEF UninstallTasks, UninstallDisarms, CleanupESP, RemoveState
  <2> QED BY <2>1, <2>2 DEF UninstallStep
<1>5. StartupStep => journal'.phase # "arming" \/ UNCHANGED journal
  BY DEF StartupStep, StartupUnreadable, StartupKeep, StartupMarkCommitted,
         StartupRollback, StartupJudge
<1>6. LinuxStep => UNCHANGED journal
  BY DEF LinuxStep, DeployerMarksStart, DeployerWritesState,
         DeployerStagesPhase2, DeployerFails, DeployerRearms, LinuxRuns
<1>7. UserStep \/ Restart \/ Boot \/ World => UNCHANGED journal
  BY DEF UserStep, StartInstall, StartRepair, StartTryAgain, ArmPersistedGuid,
         StopPipeline, FinishCancelled, StartUninstall, StartRestore, Restart,
         Boot, FirmwareStartsLoader, FirmwareStartsWindows, World,
         ForeignOneShot, EspRewritten, PowerCut
<1>8. SaveArming
  BY <1>1, <1>2, <1>3, <1>4, <1>5, <1>6, <1>7 DEF Next, Program, vars
<1> QED BY <1>8 DEF SaveArming, At, fwVars, recVars

\* Only a loader that starts leaves evidence of it.
LEMMA OnlyLoaderTestifies ==
    ASSUME [Next]_vars, Evident', ~Evident
    PROVE  FirmwareStartsLoader
<1> USE DEF Evident, Reached
<1>1. ~BuildStep /\ ~ArmStep
  BY DEF At, BuildStep, RegisterTasks, SaveBegun, SweepLook, SweepCommand,
         SaveCreatingEntry, CopyEntry, SaveEntryCreated, SetPath, LeaveOrder,
         WriteGuidFile, WriteArmedFile, VerifyEntry, SavePrepared, ArmStep,
         ArmBootChain, SaveArming, SetOneShot, VerifyArmed, SaveCommitted,
         FinishArmed, DropStarted, VerifyRepair, RestoreEnds, RetryTasks,
         RetryOneShot, fwVars, recVars
<1>2. ~RollbackStep /\ ~UninstallStep /\ ~StartupStep
  BY DEF At, RollbackStep, OperationFailed, SaveRollingBack, RollbackLook,
         SaveRolledBack, SaveUnconfirmed, DropGuidFile, DropTasks,
         DropArmedFile, WriteEndState, ReturnToIdle, UninstallStep,
         UninstallTasks, UninstallDisarms, CleanupESP, RemoveInstallDir,
         RemoveState, StartupStep, StartupUnreadable, StartupKeep,
         StartupMarkCommitted, StartupRollback, StartupJudge, fwVars, recVars
<1>3. ~LinuxStep
  BY DEF LinuxStep, DeployerMarksStart, Deployer, DeployerWritesState,
         DeployerStagesPhase2, DeployerFails, DeployerRearms, LinuxRuns
<1>4. ~UserStep /\ ~Restart /\ ~World /\ ~FirmwareStartsWindows
  BY DEF UserStep, StartInstall, StartRepair, StartTryAgain, ArmPersistedGuid,
         StopPipeline, FinishCancelled, StartUninstall, StartRestore, Restart,
         FirmwareStartsWindows, World, ForeignOneShot, EspRewritten, PowerCut,
         PowerOff, At, fwVars, recVars
<1> QED BY <1>1, <1>2, <1>3, <1>4 DEF Next, Program, Boot, vars, fwVars, recVars

\* Evidence in the records of an interrupted arming is of the journaled entry.
MarkInv == journal.phase = "arming" /\ Evident => journal.guid \in booted

\* Every step preserves it: an install begins without evidence, and what
\* starts a loader is the journaled entry.
LEMMA MarkStep ==
    ASSUME TypeInv, CommitInv, InertInv, MarkInv, [HNext]_<<vars, booted>>
    PROVE  MarkInv'
<1> SUFFICES ASSUME journal'.phase = "arming", Evident'
             PROVE  journal'.guid \in booted'
  BY DEF MarkInv
<1>1. [Next]_vars /\ booted \subseteq booted'
  BY DEF HNext
<1>2. CASE journal' # journal
  <2>1. op = "install" /\ UNCHANGED <<started, state, esp, machine>>
    BY <1>1, <1>2, OnlyInstallArms DEF InertInv
  <2> QED BY <2>1 DEF InertInv, Unused, Evident
<1>3. CASE UNCHANGED journal /\ Evident
  BY <1>1, <1>3 DEF MarkInv
<1>4. CASE UNCHANGED journal /\ ~Evident
  <2>1. FirmwareStartsLoader
    BY <1>1, <1>4, OnlyLoaderTestifies
  <2>2. machine = "off" /\ machine' = "deployer" /\ NextBoot # {}
    BY <1>4, <2>1 DEF FirmwareStartsLoader, Evident
  <2>3. booted' = booted \union NextBoot
    BY <2>2 DEF HNext, vars
  <2>4. PICK g \in NextBoot : TRUE
    BY <2>2
  <2>5. g = journal.guid
    BY OnlyArmedBoots DEF InertInv
  <2> QED BY <1>4, <2>3, <2>5
<1> QED BY <1>2, <1>3, <1>4

\* boot_txn.go:569-574: startup recovery turns an interrupted arming into
\* "committed" only for an entry from which a deployer really started.
THEOREM MarksOnlyBooted == ASSUME Steady PROVE HSpec => MarkedBecauseBooted
<1>1. HInit => Init /\ MarkInv
  BY DEF HInit, Init, NoTxn, MarkInv
<1>2. [HNext]_<<vars, booted>> => [Next]_vars
  BY DEF HNext
<1>3. HSpec => Spec
  BY <1>1, <1>2, PTL DEF HSpec, Spec
<1>4. TypeInv /\ CommitInv /\ InertInv /\ MarkInv /\ [HNext]_<<vars, booted>> => MarkInv'
  BY MarkStep
<1>5. ASSUME TypeInv, InertInv, MarkInv, [Next]_vars,
             At("startup"), journal.phase = "arming", journal'.phase = "committed"
      PROVE  journal.guid \in booted
  <2>1. StartupMarkCommitted
    BY <1>5, OnlyMarkCommits
  <2>2. Evident
    BY <1>5, <2>1 DEF StartupMarkCommitted, StartupAction, Evident, Reached
  <2> QED BY <1>5, <2>2 DEF MarkInv
<1>6. TypeInv /\ InertInv /\ MarkInv /\ [Next]_vars =>
        [ (At("startup") /\ journal.phase = "arming" /\ journal'.phase = "committed")
            => journal.guid \in booted ]_<<vars, booted>>
  BY <1>5
<1> QED BY <1>1, <1>2, <1>3, <1>4, <1>6, InertInvariant, PTL
        DEF HSpec, MarkedBecauseBooted

-----------------------------------------------------------------------------
(* OpenTxnIsGuarded *)

\* The live run: whoever unregisters the tasks has seen the rollback.
Supervised == {"repair", "uninstall"} \intersect Ops = {}

Open == journal.phase \notin {"none", "rolled-back", "committed"}
SomeLive == \E g \in Guid : Live(g)

GuardInv ==
    /\ op = "install" => disk
    /\ machine # "windows" => op = "none"
    /\ machine = "off" => pc = "idle"
    /\ op # "uninstall" /\ stage # "uninstall"
    /\ pc \notin {"unregister", "cleanEsp", "wipe", "wipeRest"}
    /\ pc # "repairVerify" /\ (pc \in {"retry", "rearm"} => op = "tryagain")
    /\ pc = "idle" \/ stage = "restore" => sweeps = 0
    /\ pc = "rbSave" => stage # "restore"
    /\ pc \in {"register", "begun", "opFailed"} \/ stage \in {"begin", "arm"} => op = "install"
    /\ ~disk \/ pc = "register" => NoneLive
    /\ \/ pc \in {"begun", "opFailed", "rbSave", "rbDone", "rbUnconf", "sweepLook"}
       \/ op = "install" /\ pc = "finish"
       \/ pc = "sweep" /\ stage # "restore"
       => (SomeLive => tasks)
    /\ pc \in {"dropGuid", "dropTasks", "dropArmed"} => journal.phase = "rolled-back"
    /\ pc = "judge" => ~Open
    /\ Open /\ SomeLive => tasks

\* Every step preserves it.
LEMMA GuardStep ==
    ASSUME Supervised, TypeInv, CleanInv, CommitInv, GuardInv, [Next]_vars
    PROVE  GuardInv'
<1>0. /\ journal \in Txn /\ txn \in Txn /\ tasks \in BOOLEAN
      /\ store \in [Guid -> {"absent", "copied", "pathed"}]
      /\ pc \in Holding \union {"copy", "pipeline"} => stage \in {"begin", "arm"}
      /\ stage \in {"begin", "arm"} /\ pc # "opFailed" => tasks
      /\ machine # "windows" \/ pc = "idle" => stage = "none"
      /\ journal.phase = "rolled-back" => NoneLive
      /\ pc = "rbDone" => NoneLive
  BY ConstantsAssumption
     DEF TypeInv, TypeOK, Txn, GuidOrNone, CleanInv, CommitInv, BuildGuarded, Building
<1>00. "repair" \notin Ops /\ "uninstall" \notin Ops
  BY DEF Supervised
<1> USE <1>0, <1>00 DEF GuardInv, Holding, Open, SomeLive, NoneLive, Live, Txn
<1>1. CASE RegisterTasks
  BY <1>1 DEF RegisterTasks, At, Works, NoTxn, fwVars
<1>2. CASE SaveBegun
  BY <1>2 DEF SaveBegun, At, Works, Goto, Save, fwVars, recVars, procVars
<1>3. CASE SweepLook
  BY <1>3 DEF SweepLook, At, Works, fwVars, recVars
<1>4. CASE SweepCommand
  <2>1. \A g \in Guid : store'[g] \in {store[g], "absent"}
    BY <1>4 DEF SweepCommand
  <2> QED BY <1>4, <2>1 DEF SweepCommand, At, recVars
<1>5. CASE SaveCreatingEntry
  BY <1>5 DEF SaveCreatingEntry, At, Works, GotoIf, fwVars, recVars, Goto,
         NextAttempt, procVars
<1>6. CASE CopyEntry
  BY <1>6 DEF CopyEntry, At, BcdWrites, GotoIf, NextAttempt, recVars, Goto, procVars
<1>7. CASE SaveEntryCreated
  BY <1>7 DEF SaveEntryCreated, At, Works, Save, GotoIf, fwVars, recVars, Goto,
         NextAttempt, procVars
<1>8. CASE SetPath
  BY <1>8 DEF SetPath, At, BcdWrites, GotoIf, recVars, Goto, NextAttempt, procVars
<1>9. CASE LeaveOrder
  BY <1>9 DEF LeaveOrder, At, Works, Goto, recVars, procVars
<1>10. CASE WriteGuidFile
  BY <1>10 DEF WriteGuidFile, At, Works, GotoIf, fwVars, Goto, NextAttempt, procVars
<1>11. CASE WriteArmedFile
  BY <1>11 DEF WriteArmedFile, At, Works, GotoIf, fwVars, Goto, NextAttempt,
         procVars
<1>12. CASE VerifyEntry
  BY <1>12 DEF VerifyEntry, At, Works, GotoIf, fwVars, recVars, Goto, NextAttempt,
         procVars
<1>13. CASE SavePrepared
  BY <1>13 DEF SavePrepared, At, Works, Save, GotoIf, fwVars, recVars, Goto,
         NextAttempt, procVars
<1>14. CASE ArmBootChain
  BY <1>14 DEF ArmBootChain, At, Works, fwVars, recVars
<1>15. CASE SaveArming
  BY <1>15 DEF SaveArming, At, Works, Save, GotoIf, fwVars, recVars, Goto,
         NextAttempt, procVars
<1>16. CASE SetOneShot
  BY <1>16 DEF SetOneShot, At, BcdWrites, GotoIf, recVars, Goto, NextAttempt,
         procVars
<1>17. CASE VerifyArmed
  BY <1>17 DEF VerifyArmed, At, Works, GotoIf, fwVars, recVars, Goto, NextAttempt,
         procVars
<1>18. CASE SaveCommitted
  BY <1>18 DEF SaveCommitted, At, Works, Save, GotoIf, fwVars, recVars, Goto,
         NextAttempt, procVars
<1>19. CASE FinishArmed
  BY <1>19 DEF FinishArmed, At, Return, Goto, fwVars, NoTxn, procVars
<1>20. CASE DropStarted
  BY <1>20 DEF DropStarted, At, Return, fwVars, NoTxn
<1>21. CASE VerifyRepair
  BY <1>21 DEF VerifyRepair, At, Works, Goto, RunRestore, Return, fwVars, recVars,
         procVars, NoTxn
<1>22. CASE RestoreEnds
  BY <1>22 DEF RestoreEnds, At, Works, Return, fwVars, recVars, NoTxn
<1>23. CASE RetryTasks
  BY <1>23 DEF RetryTasks, At, Works, Goto, fwVars, procVars
<1>24. CASE RetryOneShot
  BY <1>24 DEF RetryOneShot, At, BcdWrites, Goto, recVars, procVars
<1>25. CASE OperationFailed
  BY <1>25 DEF OperationFailed, At, EnterRollback, Return, fwVars, recVars,
         JournaledTxn, NoTxn
<1>26. CASE SaveRollingBack
  BY <1>26 DEF SaveRollingBack, At, Works, Save, fwVars, recVars
<1>27. CASE RollbackLook
  BY <1>27 DEF RollbackLook, At, Works, fwVars, recVars
<1>28. CASE SaveRolledBack
  BY <1>28 DEF SaveRolledBack, At, Works, Save, Goto, AfterRollback, fwVars,
         recVars, procVars, DisarmEnd
<1>29. CASE SaveUnconfirmed
  BY <1>29 DEF SaveUnconfirmed, At, Works, Save, Goto, AfterRollback, fwVars,
         recVars, procVars, DisarmEnd
<1>30. CASE DropGuidFile
  BY <1>30 DEF DropGuidFile, At, Goto, fwVars, procVars
<1>31. CASE DropTasks
  BY <1>31 DEF DropTasks, At, Works, Goto, fwVars, procVars
<1>32. CASE DropArmedFile
  BY <1>32 DEF DropArmedFile, At, Goto, DisarmEnd, fwVars, procVars
<1>33. CASE WriteEndState
  BY <1>33 DEF WriteEndState, At, Return, fwVars, NoTxn
<1>34. CASE ReturnToIdle
  BY <1>34 DEF ReturnToIdle, At, Return, fwVars, recVars, NoTxn
<1>35. CASE UninstallTasks
  BY <1>35 DEF UninstallTasks, At, Works, NoTxn, fwVars
<1>36. CASE UninstallDisarms
  BY <1>36 DEF UninstallDisarms, At, EnterRollback, fwVars, recVars, JournaledTxn
<1>37. CASE CleanupESP
  BY <1>37 DEF CleanupESP, At, Works, Goto, recVars, procVars
<1>38. CASE RemoveInstallDir
  BY <1>38 DEF RemoveInstallDir, At, NoTxn, Goto, fwVars, procVars
<1>39. CASE RemoveState
  BY <1>39 DEF RemoveState, At, Return, fwVars, NoTxn
<1>40. CASE StartupUnreadable
  BY <1>40 DEF StartupUnreadable, At, Goto, fwVars, recVars, procVars
<1>41. CASE StartupKeep
  <2>1. ~Open
    BY <1>41 DEF StartupKeep, StartupAction
  <2> QED BY <1>41, <2>1 DEF StartupKeep, At, Goto, StartupNext, fwVars, recVars, procVars
<1>42. CASE StartupMarkCommitted
  BY <1>42 DEF StartupMarkCommitted, At, Works, Goto, StartupNext, fwVars, recVars,
         procVars
<1>43. CASE StartupRollback
  <2>1. Open
    BY <1>43 DEF StartupRollback, StartupAction
  <2> QED BY <1>43, <2>1 DEF StartupRollback, At, EnterRollback, fwVars, recVars, JournaledTxn
<1>44. CASE StartupJudge
  BY <1>44 DEF StartupJudge, At, Works, Goto, procVars
<1>45. CASE DeployerMarksStart
  BY <1>45 DEF DeployerMarksStart, Deployer, Goto, fwVars, procVars
<1>46. CASE DeployerWritesState("d1", "d2", "deploying")
  BY <1>46 DEF DeployerWritesState, Deployer, Goto, fwVars, procVars
<1>47. CASE DeployerStagesPhase2
  BY <1>47 DEF DeployerStagesPhase2, Deployer, Goto, recVars, procVars
<1>48. CASE DeployerWritesState("d3", "d4", "deployed")
  BY <1>48 DEF DeployerWritesState, Deployer, Goto, fwVars, procVars
<1>49. CASE DeployerFails
  BY <1>49 DEF DeployerFails, PowerOff, fwVars, Return, NoTxn
<1>50. CASE DeployerRearms
  BY <1>50 DEF DeployerRearms, Deployer, PowerOff, recVars, Return, NoTxn
<1>51. CASE LinuxRuns
  BY <1>51 DEF LinuxRuns, PowerOff, fwVars, Return, NoTxn
<1>52. CASE StartInstall
  BY <1>52 DEF StartInstall, At
<1>53. CASE StartRepair
  BY <1>53 DEF StartRepair, At, recVars
<1>54. CASE StartTryAgain
  BY <1>54 DEF StartTryAgain, At, fwVars, recVars
<1>55. CASE ArmPersistedGuid
  BY <1>55 DEF ArmPersistedGuid, At, BcdWrites, recVars, procVars
<1>56. CASE StopPipeline
  BY <1>56 DEF StopPipeline, At, EnterRollback, fwVars, recVars, JournaledTxn
<1>57. CASE FinishCancelled
  BY <1>57 DEF FinishCancelled, At, EnterRollback, fwVars, recVars, JournaledTxn
<1>58. CASE StartUninstall
  BY <1>58 DEF StartUninstall, At, fwVars, recVars
<1>59. CASE StartRestore
  BY <1>59 DEF StartRestore, At, RunRestore, fwVars, recVars, NoTxn
<1>60. CASE FirmwareStartsLoader
  BY <1>60 DEF FirmwareStartsLoader, recVars, procVars
<1>61. CASE FirmwareStartsWindows
  BY <1>61 DEF FirmwareStartsWindows, recVars
<1>62. CASE ForeignOneShot
  BY <1>62 DEF ForeignOneShot, At, recVars, procVars
<1>63. CASE EspRewritten
  BY <1>63 DEF EspRewritten, At, Works, recVars, procVars
<1>64. CASE PowerCut
  BY <1>64 DEF PowerCut, PowerOff, TornAt, fwVars, Return, NoTxn
<1>65. CASE Restart
  BY <1>65 DEF Restart, At, PowerOff, fwVars, recVars, Return, NoTxn
<1>66. CASE UNCHANGED vars
  BY <1>66 DEF vars, fwVars, recVars, procVars
<1> QED BY <1>1, <1>2, <1>3, <1>4, <1>5, <1>6, <1>7, <1>8, <1>9, <1>10, <1>11,
         <1>12, <1>13, <1>14, <1>15, <1>16, <1>17, <1>18, <1>19, <1>20, <1>21,
         <1>22, <1>23, <1>24, <1>25, <1>26, <1>27, <1>28, <1>29, <1>30, <1>31,
         <1>32, <1>33, <1>34, <1>35, <1>36, <1>37, <1>38, <1>39, <1>40, <1>41,
         <1>42, <1>43, <1>44, <1>45, <1>46, <1>47, <1>48, <1>49, <1>50, <1>51,
         <1>52, <1>53, <1>54, <1>55, <1>56, <1>57, <1>58, <1>59, <1>60, <1>61,
         <1>62, <1>63, <1>64, <1>65, <1>66
    DEF Next, Program, BuildStep, ArmStep, RollbackStep, UninstallStep,
        StartupStep, LinuxStep, UserStep, Boot, World

\* installer_esp.go:552-560: whatever is interrupted and whatever bcdedit calls,
\* writes or task registrations fail, an entry of a transaction that is still open
\* has the startup task registered that rolls it back.
THEOREM OpenIsGuarded == ASSUME Supervised PROVE Spec => []OpenTxnIsGuarded
<1>1. Init => GuardInv
  BY ConstantsAssumption DEF Init, NoTxn, GuardInv, Open, NoneLive, SomeLive, Live
<1>2. TypeInv /\ CleanInv /\ CommitInv /\ GuardInv /\ [Next]_vars => GuardInv'
  BY GuardStep
<1>3. GuardInv => OpenTxnIsGuarded
  BY DEF GuardInv, OpenTxnIsGuarded, Open, SomeLive
<1> QED BY <1>1, <1>2, <1>3, StandingInvariant, PTL DEF Spec
=============================================================================
