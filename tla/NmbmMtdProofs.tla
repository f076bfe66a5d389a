--------------------------- MODULE NmbmMtdProofs ---------------------------
(***************************************************************************)
(* Theorems about NmbmMtd for any number of tasks and any length of their  *)
(* requests: the device lock excludes, what a read returns belongs to one  *)
(* moment, and a suspended device is left alone.                           *)
(***************************************************************************)
EXTENDS NmbmMtd, TLAPS

\* Where a task is and the call it is in go together.
CallInv ==
  \A t \in Tasks :
    /\ pc[t] = "copy" => op[t] = "read"
    /\ pc[t] = "program" => op[t] = "write"
    /\ pc[t] \in {"copy", "program"} => page[t] \in Pages
    /\ pc[t] \in Holding => op[t] # "shutdown"
    /\ pc[t] \notin Holding => page[t] = 1

IndInv == TypeOK /\ CallInv /\ Exclusive /\ ReadIsSnapshot /\ WritesOwnData

\* What the tasks put into pages is page content.
LEMMA ContentsValues ==
  /\ Erased \in Contents /\ Torn \in Contents
  /\ \A t \in Tasks : DataOf(t) \in Contents
BY DEF Contents, Erased, Torn, DataOf

\* The invariant holds before the first call.
LEMMA IndInvInit == Init => IndInv
<1> SUFFICES ASSUME Init PROVE IndInv
  OBVIOUS
<1>1. TypeOK
  BY ContentsValues, TasksAssumption DEF Init, TypeOK, States, Ops, Pages
<1>2. CallInv /\ Exclusive /\ ReadIsSnapshot /\ WritesOwnData
  BY DEF Init, CallInv, Exclusive, ReadIsSnapshot, WritesOwnData, Holding
<1> QED BY <1>1, <1>2 DEF IndInv

\* A task outside the critical section that stays outside, with the lock in
\* the same state, disturbs nobody: Call, and a task that sleeps or wakes.
LEMMA OutsideStep ==
  ASSUME IndInv, NEW t \in Tasks, pc[t] \notin Holding, pc'[t] \notin Holding,
         TypeOK', page' = page, UNCHANGED <<state, cache, flash, buf>>,
         \A u \in Tasks \ {t} : pc'[u] = pc[u] /\ op'[u] = op[u]
  PROVE  IndInv'
<1>1. CallInv'
  BY DEF IndInv, CallInv, Holding
<1>2. Exclusive'
  BY DEF IndInv, Exclusive
<1>3. ReadIsSnapshot' /\ WritesOwnData'
  BY DEF IndInv, ReadIsSnapshot, WritesOwnData, Holding
<1> QED BY <1>1, <1>2, <1>3 DEF IndInv

\* Call preserves the invariant.
LEMMA CallStep == ASSUME NEW t \in Tasks PROVE IndInv /\ Call(t) => IndInv'
<1> SUFFICES ASSUME IndInv, Call(t) PROVE IndInv'
  OBVIOUS
<1>1. PICK o \in Ops : op' = [op EXCEPT ![t] = o]
  BY DEF Call
<1>2. /\ pc[t] = "idle" /\ pc' = [pc EXCEPT ![t] = "get"]
      /\ UNCHANGED <<state, wq, asleep, page, cache, buf, flash>>
  BY DEF Call, Goto, lock, data
<1>3. TypeOK
  BY DEF IndInv
<1>4. TypeOK'
  BY <1>1, <1>2, <1>3 DEF TypeOK
<1>5. pc'[t] = "get" /\ \A u \in Tasks \ {t} : pc'[u] = pc[u] /\ op'[u] = op[u]
  BY <1>1, <1>2, <1>3 DEF TypeOK
<1> QED BY <1>2, <1>4, <1>5, OutsideStep DEF Holding

\* Woken preserves the invariant.
LEMMA WokenStep == ASSUME NEW t \in Tasks PROVE IndInv /\ Woken(t) => IndInv'
<1> SUFFICES ASSUME IndInv, Woken(t) PROVE IndInv'
  OBVIOUS
<1>1. /\ pc[t] = "wait" /\ pc' = [pc EXCEPT ![t] = "get"] /\ wq' = wq \ {t}
      /\ UNCHANGED <<state, asleep, op, page, cache, buf, flash>>
  BY DEF Woken, Goto, data
<1>2. TypeOK
  BY DEF IndInv
<1>3. TypeOK'
  BY <1>1, <1>2 DEF TypeOK
<1>4. pc'[t] = "get" /\ \A u \in Tasks \ {t} : pc'[u] = pc[u] /\ op'[u] = op[u]
  BY <1>1, <1>2 DEF TypeOK
<1> QED BY <1>1, <1>3, <1>4, OutsideStep DEF Holding

\* The return of a call that nobody else overlaps preserves the invariant.
LEMMA ReturnStep ==
  ASSUME IndInv, NEW t \in Tasks, Return(t), state' \in States,
         wq' \subseteq Tasks, asleep' \subseteq Tasks, UNCHANGED <<cache, flash>>,
         \A u \in Tasks \ {t} : pc[u] \in Holding => state' = state
  PROVE  IndInv'
<1>1. /\ pc' = [pc EXCEPT ![t] = "idle"] /\ op' = [op EXCEPT ![t] = "read"]
      /\ page' = [page EXCEPT ![t] = 1]
      /\ buf' = [buf EXCEPT ![t] = [p \in Pages |-> Erased]]
  BY DEF Return, Goto
<1>2. TypeOK
  BY DEF IndInv
<1>3. [p \in Pages |-> Erased] \in [Pages -> Contents] /\ 1 \in 1 .. PageCount + 1
  BY ContentsValues, TasksAssumption
<1>4. TypeOK'
  BY <1>1, <1>2, <1>3 DEF TypeOK, Ops
<1>5. pc'[t] = "idle" /\ op'[t] = "read" /\ page'[t] = 1
  BY <1>1, <1>2 DEF TypeOK
<1>6. \A u \in Tasks \ {t} : /\ pc'[u] = pc[u] /\ op'[u] = op[u] /\ page'[u] = page[u]
                             /\ buf'[u] = buf[u]
  BY <1>1, <1>2 DEF TypeOK
<1>7. CallInv'
  BY <1>5, <1>6 DEF IndInv, CallInv, Holding
<1>8. Exclusive'
  BY <1>5, <1>6 DEF IndInv, Exclusive, Holding
<1>9. ReadIsSnapshot' /\ WritesOwnData'
  BY <1>5, <1>6 DEF IndInv, ReadIsSnapshot, WritesOwnData, Holding
<1> QED BY <1>4, <1>7, <1>8, <1>9 DEF IndInv

\* nmbm_release_device preserves the invariant.
LEMMA ReleaseStep == ASSUME NEW t \in Tasks PROVE IndInv /\ nmbm_release_device(t) => IndInv'
<1> SUFFICES ASSUME IndInv, nmbm_release_device(t) PROVE IndInv'
  OBVIOUS
<1>1. /\ pc[t] = "release" /\ state' = "FL_READY" /\ asleep' = asleep \ wq /\ wq' = wq
      /\ Return(t) /\ UNCHANGED <<cache, flash>>
  BY DEF nmbm_release_device
<1>2. \A u \in Tasks \ {t} : pc[u] \notin Holding
  BY <1>1 DEF IndInv, Exclusive, Holding
<1>3. state' \in States /\ wq' \subseteq Tasks /\ asleep' \subseteq Tasks
  BY <1>1 DEF IndInv, TypeOK, States
<1> QED BY <1>1, <1>2, <1>3, ReturnStep

\* Nobody has a device that is ready or suspended.
LEMMA NobodyHolds ==
  ASSUME IndInv, state \in {"FL_READY", "FL_PM_SUSPENDED"}, NEW u \in Tasks
  PROVE  pc[u] \notin Holding
<1>1. op[u] \in Ops
  BY DEF IndInv, TypeOK
<1>2. op[u] # "shutdown" => NewState[op[u]] \notin {"FL_READY", "FL_PM_SUSPENDED"}
  BY <1>1 DEF NewState, Ops
<1> QED BY <1>2 DEF IndInv, Exclusive, CallInv

\* nmbm_get_device preserves the invariant: it lets a task in only when
\* nobody has the device.
LEMMA GetStep == ASSUME NEW t \in Tasks PROVE IndInv /\ nmbm_get_device(t) => IndInv'
<1> SUFFICES ASSUME IndInv, nmbm_get_device(t) PROVE IndInv'
  OBVIOUS
<1>1. pc[t] = "get" /\ UNCHANGED <<cache, flash>> /\ TypeOK /\ op[t] \in Ops /\ page[t] = 1
  BY DEF nmbm_get_device, IndInv, TypeOK, CallInv, Holding
<1>2. CASE state = "FL_READY" /\ state' = NewState[op[t]] /\ Return(t) /\ UNCHANGED <<wq, asleep>>
  <2>1. \A u \in Tasks \ {t} : pc[u] \notin Holding
    BY <1>2, NobodyHolds
  <2>2. state' \in States
    BY <1>1, <1>2 DEF Ops, NewState, States
  <2> QED BY <1>1, <1>2, <2>1, <2>2, ReturnStep DEF TypeOK
<1>3. CASE /\ state = "FL_READY" /\ state' = NewState[op[t]] /\ op[t] # "shutdown"
           /\ Goto(t, "work") /\ UNCHANGED <<wq, asleep, op, page, buf>>
  <2>1. pc' = [pc EXCEPT ![t] = "work"] /\ state' \in States
    BY <1>1, <1>3 DEF Goto, Ops, NewState, States
  <2>2. TypeOK'
    BY <1>1, <1>3, <2>1 DEF TypeOK, Holding
  <2>3. pc'[t] = "work" /\ \A u \in Tasks \ {t} : pc'[u] = pc[u] /\ pc[u] \notin Holding
    BY <1>1, <1>3, <2>1, NobodyHolds DEF TypeOK
  <2>4. CallInv' /\ Exclusive'
    BY <1>1, <1>3, <2>3 DEF IndInv, CallInv, Exclusive, Holding
  <2>5. \A p \in Pages : ~(p < 1)
    BY TasksAssumption DEF Pages
  <2>6. ReadIsSnapshot' /\ WritesOwnData'
    BY <1>1, <1>3, <2>3, <2>5 DEF ReadIsSnapshot, WritesOwnData, Holding
  <2> QED BY <2>2, <2>4, <2>6 DEF IndInv
<1>4. CASE Return(t) /\ UNCHANGED lock
  BY <1>1, <1>4, ReturnStep DEF lock, TypeOK
<1>5. CASE /\ wq' = wq \cup {t} /\ asleep' = asleep \cup {t}
           /\ Goto(t, "wait") /\ UNCHANGED <<state, op, page, buf>>
  <2>1. pc' = [pc EXCEPT ![t] = "wait"]
    BY <1>5 DEF Goto
  <2>2. TypeOK'
    BY <1>1, <1>5, <2>1 DEF TypeOK
  <2>3. pc'[t] = "wait" /\ \A u \in Tasks \ {t} : pc'[u] = pc[u] /\ op'[u] = op[u]
    BY <1>1, <1>5, <2>1 DEF TypeOK
  <2> QED BY <1>1, <1>5, <2>2, <2>3, OutsideStep DEF Holding
<1> QED BY <1>2, <1>3, <1>4, <1>5 DEF nmbm_get_device

\* A step of the task that has the device preserves the invariant if the
\* task keeps its own promises.
LEMMA HolderStep ==
  ASSUME IndInv, NEW t \in Tasks, pc[t] \in Holding, NEW l \in Holding,
         pc' = [pc EXCEPT ![t] = l], UNCHANGED <<state, op>>, TypeOK',
         \A u \in Tasks \ {t} : page'[u] = page[u],
         l = "copy" => op[t] = "read" /\ page'[t] \in Pages /\ cache' = flash'[page'[t]],
         l = "program" => op[t] = "write" /\ page'[t] \in Pages /\ cache' = DataOf(t),
         op[t] = "read" => \A p \in Pages : p < page'[t] => buf'[t][p] = flash'[p]
  PROVE  IndInv'
<1>1. TypeOK /\ pc'[t] = l
  BY DEF IndInv, TypeOK
<1>2. \A u \in Tasks \ {t} : pc'[u] = pc[u] /\ pc[u] \notin Holding
  BY <1>1 DEF IndInv, TypeOK, Exclusive
<1>3. CallInv'
  BY <1>1, <1>2 DEF IndInv, CallInv
<1>4. Exclusive'
  BY <1>1, <1>2 DEF IndInv, Exclusive
<1>5. ReadIsSnapshot' /\ WritesOwnData'
  BY <1>1, <1>2 DEF IndInv, ReadIsSnapshot, WritesOwnData, Holding
<1> QED BY <1>3, <1>4, <1>5 DEF IndInv

\* ReadPage preserves the invariant.
LEMMA ReadPageStep == ASSUME NEW t \in Tasks PROVE IndInv /\ ReadPage(t) => IndInv'
<1> SUFFICES ASSUME IndInv, ReadPage(t) PROVE IndInv'
  OBVIOUS
<1>1. /\ pc[t] = "work" /\ op[t] = "read" /\ page[t] <= PageCount /\ TypeOK
      /\ UNCHANGED <<state, wq, asleep, op, page, buf, flash>>
  BY DEF ReadPage, Working, MorePages, lock, IndInv
<1>2. page[t] \in Pages
  BY <1>1, TasksAssumption DEF TypeOK, Pages
<1>3. \A p \in Pages : p < page[t] => buf[t][p] = flash[p]
  BY <1>1 DEF IndInv, ReadIsSnapshot, Holding
<1>4. CASE cache' = flash[page[t]] /\ pc' = [pc EXCEPT ![t] = "copy"]
  <2>1. TypeOK'
    BY <1>1, <1>2, <1>4 DEF TypeOK, Holding
  <2> QED BY <1>1, <1>2, <1>3, <1>4, <2>1, HolderStep DEF Holding
<1>5. CASE pc' = [pc EXCEPT ![t] = "release"] /\ UNCHANGED cache
  <2>1. TypeOK'
    BY <1>1, <1>5 DEF TypeOK, Holding
  <2> QED BY <1>1, <1>3, <1>5, <2>1, HolderStep DEF Holding
<1> QED BY <1>4, <1>5 DEF ReadPage, Goto

\* CopyPage preserves the invariant: the page cache still holds the page.
LEMMA CopyPageStep == ASSUME NEW t \in Tasks PROVE IndInv /\ CopyPage(t) => IndInv'
<1> SUFFICES ASSUME IndInv, CopyPage(t) PROVE IndInv'
  OBVIOUS
<1>1. /\ pc[t] = "copy" /\ buf' = [buf EXCEPT ![t][page[t]] = cache]
      /\ page' = [page EXCEPT ![t] = @ + 1] /\ pc' = [pc EXCEPT ![t] = "work"]
      /\ UNCHANGED <<state, wq, asleep, op, cache, flash>> /\ TypeOK
  BY DEF CopyPage, NextPage, Goto, lock, IndInv
<1>2. op[t] = "read" /\ page[t] \in Pages /\ page[t] \in Nat
  BY <1>1, TasksAssumption DEF IndInv, CallInv, Pages
<1>3. page[t] + 1 \in 1 .. PageCount + 1
  BY <1>2, TasksAssumption DEF Pages
<1>4. TypeOK'
  <2>1. buf' \in [Tasks -> [Pages -> Contents]]
    BY <1>1, <1>2 DEF TypeOK
  <2>2. page' \in [Tasks -> 1 .. PageCount + 1]
    BY <1>1, <1>3 DEF TypeOK
  <2> QED BY <1>1, <2>1, <2>2 DEF TypeOK, Holding
<1>5. page'[t] = page[t] + 1 /\ \A u \in Tasks \ {t} : page'[u] = page[u]
  BY <1>1 DEF TypeOK
<1>6. \A p \in Pages : p < page[t] => buf[t][p] = flash[p]
  BY <1>1, <1>2 DEF IndInv, ReadIsSnapshot, Holding
<1>7. cache = flash[page[t]]
  BY <1>1, <1>2 DEF IndInv, ReadIsSnapshot, Holding
<1>8. \A p \in Pages : p < page'[t] => buf'[t][p] = flash'[p]
  <2> SUFFICES ASSUME NEW p \in Pages, p < page'[t] PROVE buf'[t][p] = flash'[p]
    OBVIOUS
  <2>1. p < page[t] \/ p = page[t]
    BY <1>2, <1>5, TasksAssumption DEF Pages
  <2>2. CASE p < page[t]
    <3>1. p # page[t]
      BY <1>2, <2>2, TasksAssumption DEF Pages
    <3> QED BY <1>1, <1>6, <2>2, <3>1 DEF TypeOK
  <2>3. CASE p = page[t]
    BY <1>1, <1>7, <2>3 DEF TypeOK
  <2> QED BY <2>1, <2>2, <2>3
<1> QED BY <1>1, <1>4, <1>5, <1>8, HolderStep DEF Holding

\* StagePage preserves the invariant.
LEMMA StagePageStep == ASSUME NEW t \in Tasks PROVE IndInv /\ StagePage(t) => IndInv'
<1> SUFFICES ASSUME IndInv, StagePage(t) PROVE IndInv'
  OBVIOUS
<1>1. /\ pc[t] = "work" /\ op[t] = "write" /\ page[t] <= PageCount /\ TypeOK
      /\ cache' = DataOf(t) /\ pc' = [pc EXCEPT ![t] = "program"]
      /\ UNCHANGED <<state, wq, asleep, op, page, buf, flash>>
  BY DEF StagePage, Working, MorePages, Goto, lock, IndInv
<1>2. page[t] \in Pages
  BY <1>1, TasksAssumption DEF TypeOK, Pages
<1>3. TypeOK'
  BY <1>1, ContentsValues DEF TypeOK, Holding
<1> QED BY <1>1, <1>2, <1>3, HolderStep DEF Holding

\* ProgramPage preserves the invariant.
LEMMA ProgramPageStep == ASSUME NEW t \in Tasks PROVE IndInv /\ ProgramPage(t) => IndInv'
<1> SUFFICES ASSUME IndInv, ProgramPage(t) PROVE IndInv'
  OBVIOUS
<1>1. pc[t] = "program" /\ UNCHANGED <<state, wq, asleep, op, cache, buf>> /\ TypeOK
  BY DEF ProgramPage, lock, IndInv
<1>2. op[t] = "write" /\ page[t] \in Pages
  BY <1>1 DEF IndInv, CallInv
<1>3. page[t] + 1 \in 1 .. PageCount + 1
  BY <1>2, TasksAssumption DEF Pages
<1>4. CASE /\ flash' = [flash EXCEPT ![page[t]] = cache]
           /\ page' = [page EXCEPT ![t] = @ + 1] /\ pc' = [pc EXCEPT ![t] = "work"]
  <2>1. TypeOK'
    BY <1>1, <1>3, <1>4 DEF TypeOK, Holding
  <2>2. \A u \in Tasks \ {t} : page'[u] = page[u]
    BY <1>1, <1>4 DEF TypeOK
  <2> QED BY <1>1, <1>2, <1>4, <2>1, <2>2, HolderStep DEF Holding
<1>5. CASE /\ flash' \in {flash, [flash EXCEPT ![page[t]] = Torn]}
           /\ page' = page /\ pc' = [pc EXCEPT ![t] = "release"]
  <2>1. TypeOK'
    BY <1>1, <1>5, ContentsValues DEF TypeOK, Holding
  <2> QED BY <1>1, <1>2, <1>5, <2>1, HolderStep DEF Holding
<1> QED BY <1>4, <1>5 DEF ProgramPage, NextPage, Goto

\* ErasePage preserves the invariant.
LEMMA ErasePageStep == ASSUME NEW t \in Tasks PROVE IndInv /\ ErasePage(t) => IndInv'
<1> SUFFICES ASSUME IndInv, ErasePage(t) PROVE IndInv'
  OBVIOUS
<1>1. /\ pc[t] = "work" /\ op[t] = "erase" /\ page[t] <= PageCount /\ TypeOK
      /\ UNCHANGED <<state, wq, asleep, op, cache, buf>>
  BY DEF ErasePage, Working, MorePages, lock, IndInv
<1>2. page[t] + 1 \in 1 .. PageCount + 1
  BY <1>1, TasksAssumption DEF TypeOK
<1>3. CASE /\ flash' = [flash EXCEPT ![page[t]] = Erased]
           /\ page' = [page EXCEPT ![t] = @ + 1] /\ pc' = pc
  <2>1. TypeOK'
    BY <1>1, <1>2, <1>3, ContentsValues DEF TypeOK
  <2>2. \A u \in Tasks \ {t} : page'[u] = page[u]
    BY <1>1, <1>3 DEF TypeOK
  <2>3. pc' = [pc EXCEPT ![t] = "work"]
    BY <1>1, <1>3 DEF TypeOK
  <2> QED BY <1>1, <2>1, <2>2, <2>3, HolderStep DEF Holding
<1>4. CASE /\ flash' \in {flash, [flash EXCEPT ![page[t]] = Torn]}
           /\ page' = page /\ pc' = [pc EXCEPT ![t] = "release"]
  <2>1. TypeOK'
    BY <1>1, <1>4, ContentsValues DEF TypeOK, Holding
  <2> QED BY <1>1, <1>4, <2>1, HolderStep DEF Holding
<1> QED BY <1>3, <1>4 DEF ErasePage, NextPage, Goto

\* WorkDone preserves the invariant.
LEMMA WorkDoneStep == ASSUME NEW t \in Tasks PROVE IndInv /\ WorkDone(t) => IndInv'
<1> SUFFICES ASSUME IndInv, WorkDone(t) PROVE IndInv'
  OBVIOUS
<1>1. /\ pc[t] = "work" /\ pc' = [pc EXCEPT ![t] = "release"] /\ TypeOK
      /\ UNCHANGED <<state, wq, asleep, op, page, cache, buf, flash>>
  BY DEF WorkDone, Goto, lock, data, IndInv
<1>2. op[t] = "read" => \A p \in Pages : p < page[t] => buf[t][p] = flash[p]
  BY <1>1 DEF IndInv, ReadIsSnapshot, Holding
<1>3. TypeOK'
  BY <1>1 DEF TypeOK, Holding
<1> QED BY <1>1, <1>2, <1>3, HolderStep DEF Holding

-----------------------------------------------------------------------------
\* Every step of every task preserves the invariant.
LEMMA IndInvNext == IndInv /\ [Next]_vars => IndInv'
<1> SUFFICES ASSUME IndInv, [Next]_vars PROVE IndInv'
  OBVIOUS
<1>1. ASSUME NEW t \in Tasks, Call(t) \/ TaskStep(t) PROVE IndInv'
  BY <1>1, CallStep, GetStep, WokenStep, ReleaseStep, ReadPageStep, CopyPageStep,
     StagePageStep, ProgramPageStep, ErasePageStep, WorkDoneStep DEF TaskStep
<1>2. CASE UNCHANGED vars
  BY <1>2 DEF vars, IndInv, TypeOK, CallInv, Exclusive, ReadIsSnapshot, WritesOwnData
<1> QED BY <1>1, <1>2 DEF Next

\* The invariant holds in every reachable state.
THEOREM Invariance == Spec => []IndInv
BY IndInvInit, IndInvNext, PTL DEF Spec

\* The device lock of nmbm_get_device excludes, for any number of tasks.
THEOREM MutualExclusion == Spec => []Exclusive
<1>1. IndInv => Exclusive
  BY DEF IndInv
<1> QED BY <1>1, Invariance, PTL

\* Every variable of the MTD layer keeps its type: no call runs past its range.
THEOREM TypeCorrect == Spec => []TypeOK
<1>1. IndInv => TypeOK
  BY DEF IndInv
<1> QED BY <1>1, Invariance, PTL

\* What nmbm_mtd_read_oob has copied belongs to one moment: the page cache
\* that all callers share is not overwritten between the read and the copy.
THEOREM ReadsAreSnapshots == Spec => []ReadIsSnapshot
<1>1. IndInv => ReadIsSnapshot
  BY DEF IndInv
<1> QED BY <1>1, Invariance, PTL

\* What nmbm_mtd_write_oob programs from the shared page cache is its
\* caller's data.
THEOREM WritesCarryOwnData == Spec => []WritesOwnData
<1>1. IndInv => WritesOwnData
  BY DEF IndInv
<1> QED BY <1>1, Invariance, PTL

\* After nmbm_mtd_shutdown nothing changes the flash any more.
THEOREM NothingAfterShutdown == Spec => SuspendedIsFinal
<1>1. IndInv /\ [Next]_vars => [state = "FL_PM_SUSPENDED" => UNCHANGED <<state, flash>>]_vars
  <2> SUFFICES ASSUME IndInv, [Next]_vars, state = "FL_PM_SUSPENDED"
               PROVE  UNCHANGED <<state, flash>>
    OBVIOUS
  <2>1. ASSUME NEW t \in Tasks, Call(t) \/ TaskStep(t) PROVE UNCHANGED <<state, flash>>
    <3>1. pc[t] \notin Holding
      BY NobodyHolds
    <3>2. Call(t) \/ nmbm_get_device(t) \/ Woken(t)
      BY <2>1, <3>1 DEF TaskStep, nmbm_release_device, ReadPage, CopyPage, StagePage,
         ProgramPage, ErasePage, WorkDone, Working, Holding
    <3> QED BY <3>2 DEF Call, nmbm_get_device, Woken, lock, data
  <2>2. CASE UNCHANGED vars
    BY <2>2 DEF vars
  <2> QED BY <2>1, <2>2 DEF Next
<1> QED BY <1>1, Invariance, PTL DEF Spec, SuspendedIsFinal
=============================================================================
