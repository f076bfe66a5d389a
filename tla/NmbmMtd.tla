------------------------------ MODULE NmbmMtd ------------------------------
(***************************************************************************)
(* The MTD layer of NMBM, drivers/mtd/nmbm/nmbm-mtd.c: the tasks that use  *)
(* one device, the lock they share (nm->state under nm->lock, with the     *)
(* wait queue nm->wq) and the page buffer they all stage their data in     *)
(* (nm->page_cache).                                                       *)
(*                                                                         *)
(* The device behind it is the logic pages that NMBM offers; what NMBM     *)
(* does to keep them is the subject of module Nmbm.  A step is one page of *)
(* one call, or one section under the spin lock nm->lock.                  *)
(***************************************************************************)
EXTENDS Naturals

CONSTANTS
  Tasks,       \* the tasks that call into the MTD device
  Stoppers,    \* those among them that run the reboot notifier
  PageCount    \* pages of the range that each call is about

ASSUME TasksAssumption ==
  /\ Stoppers \subseteq Tasks
  /\ PageCount \in Nat \ {0}

VARIABLES
  state,      \* nm->state
  wq,         \* nm->wq: the tasks in the wait queue
  asleep,     \* the tasks whose state is TASK_UNINTERRUPTIBLE
  pc,         \* where each task is
  op,         \* the call it is in
  page,       \* the page its loop has reached
  cache,      \* nm->page_cache
  buf,        \* ops->datbuf of each task
  flash       \* what each logic page holds

vars == <<state, wq, asleep, pc, op, page, cache, buf, flash>>
lock == <<state, wq, asleep>>
data == <<cache, buf, flash>>

Pages == 1 .. PageCount
Erased == [k |-> "erased"]
Torn == [k |-> "torn"]

\* A page holds the data of the task that wrote it.
Contents == {Erased, Torn} \cup [k: {"data"}, by: Tasks]
DataOf(t) == [k |-> "data", by |-> t]

Ops == {"erase", "read", "write", "isbad", "markbad", "shutdown"}

\* The new_state each call asks nmbm_get_device for.
NewState ==
  [erase |-> "FL_ERASING", read |-> "FL_READING", write |-> "FL_WRITING",
   isbad |-> "FL_READING", markbad |-> "FL_WRITING", shutdown |-> "FL_PM_SUSPENDED"]
States == {"FL_READY", "FL_ERASING", "FL_READING", "FL_WRITING", "FL_PM_SUSPENDED"}

Init ==
  /\ state = "FL_READY" /\ wq = {} /\ asleep = {}
  /\ pc = [t \in Tasks |-> "idle"]
  /\ op = [t \in Tasks |-> "read"]
  /\ page = [t \in Tasks |-> 1]
  /\ cache = Erased
  /\ buf = [t \in Tasks |-> [p \in Pages |-> Erased]]
  /\ flash = [p \in Pages |-> Erased]

Goto(t, label) == pc' = [pc EXCEPT ![t] = label]

\* The call returns: its locals, and its hold on the caller's buffer, are gone.
Return(t) ==
  /\ Goto(t, "idle")
  /\ op' = [op EXCEPT ![t] = "read"]
  /\ page' = [page EXCEPT ![t] = 1]
  /\ buf' = [buf EXCEPT ![t] = [p \in Pages |-> Erased]]

-----------------------------------------------------------------------------
(* The lock.                                                               *)

\* Mutant: the read path does not take the device.
ReadWithoutLock(t) ==
  /\ pc[t] = "idle"
  /\ \E o \in Ops : /\ o = "shutdown" <=> t \in Stoppers
                    /\ op' = [op EXCEPT ![t] = o]
                    /\ Goto(t, IF o = "read" THEN "work" ELSE "get")
  /\ UNCHANGED <<lock, page, data>>

\* A task enters one of the entry points; calls that the sanity checks turn
\* down return without having touched the device and are left out.
Call(t) ==
  /\ pc[t] = "idle"
  /\ \E o \in Ops : /\ o = "shutdown" <=> t \in Stoppers
                    /\ op' = [op EXCEPT ![t] = o]
  /\ Goto(t, "get")
  /\ UNCHANGED <<lock, page, data>>

\* Mutant: shutting down lets the next caller in.
ShutdownReleases(t) ==
  /\ pc[t] = "get"
  /\ \/ /\ state = "FL_READY"
        /\ state' = NewState[op[t]]
        /\ Goto(t, IF op[t] = "shutdown" THEN "release" ELSE "work")
        /\ UNCHANGED <<wq, asleep>>
     \/ /\ state # "FL_READY"
        /\ wq' = wq \cup {t} /\ asleep' = asleep \cup {t}
        /\ Goto(t, "wait")
        /\ UNCHANGED state
  /\ UNCHANGED <<op, page, data>>

\* The section of nmbm_get_device under nm->lock: the task gets the device,
\* finds it suspended already, or prepares to sleep.
nmbm_get_device(t) ==
  /\ pc[t] = "get"
  /\ \/ /\ state = "FL_READY"
        /\ state' = NewState[op[t]]
        /\ IF op[t] = "shutdown" THEN Return(t)
           ELSE Goto(t, "work") /\ UNCHANGED <<op, page, buf>>
        /\ UNCHANGED <<wq, asleep>>
     \/ /\ state = "FL_PM_SUSPENDED" /\ op[t] = "shutdown"
        /\ Return(t)
        /\ UNCHANGED lock
     \/ /\ state # "FL_READY"
        /\ ~(state = "FL_PM_SUSPENDED" /\ op[t] = "shutdown")
        /\ wq' = wq \cup {t} /\ asleep' = asleep \cup {t}
        /\ Goto(t, "wait")
        /\ UNCHANGED <<state, op, page, buf>>
  /\ UNCHANGED <<cache, flash>>

\* Mutant: a task that was woken takes the device without looking again.
WokenTakes(t) ==
  /\ pc[t] = "wait" /\ t \notin asleep
  /\ wq' = wq \ {t}
  /\ state' = NewState[op[t]]
  /\ Goto(t, "work")
  /\ UNCHANGED <<asleep, op, page, data>>

\* schedule() returns to a task that has been woken, perhaps before it ever
\* slept: it leaves the queue and retries.
Woken(t) ==
  /\ pc[t] = "wait" /\ t \notin asleep
  /\ wq' = wq \ {t}
  /\ Goto(t, "get")
  /\ UNCHANGED <<state, asleep, op, page, data>>

\* Mutant: the device is released silently.
ReleaseSilently(t) ==
  /\ pc[t] = "release"
  /\ state' = "FL_READY"
  /\ Return(t)
  /\ UNCHANGED <<wq, asleep, cache, flash>>

\* wake_up wakes every task in the queue: none waits exclusively.
nmbm_release_device(t) ==
  /\ pc[t] = "release"
  /\ state' = "FL_READY"
  /\ asleep' = asleep \ wq
  /\ Return(t)
  /\ UNCHANGED <<wq, cache, flash>>

-----------------------------------------------------------------------------
(* What the calls do with the device.                                      *)

Working(t, o) == pc[t] = "work" /\ op[t] = o

\* Mutant: the loops run one page too far.
PastLastPage(t) == page[t] <= PageCount + 1

MorePages(t) == page[t] <= PageCount

NextPage(t) == page' = [page EXCEPT ![t] = @ + 1]

\* nmbm_mtd_read_data: a page is read into the page cache, or the read ends
\* with an error.
ReadPage(t) ==
  /\ Working(t, "read") /\ MorePages(t)
  /\ \/ /\ cache' = flash[page[t]]
        /\ Goto(t, "copy")
     \/ /\ Goto(t, "release")
        /\ UNCHANGED cache
  /\ UNCHANGED <<lock, op, page, buf, flash>>

\* ... and copied from there to the caller's buffer.
CopyPage(t) ==
  /\ pc[t] = "copy"
  /\ buf' = [buf EXCEPT ![t][page[t]] = cache]
  /\ NextPage(t)
  /\ Goto(t, "work")
  /\ UNCHANGED <<lock, op, cache, flash>>

\* nmbm_mtd_write_data: the caller's data is put into the page cache ...
StagePage(t) ==
  /\ Working(t, "write") /\ MorePages(t)
  /\ cache' = DataOf(t)
  /\ Goto(t, "program")
  /\ UNCHANGED <<lock, op, page, buf, flash>>

\* ... and written from there; the first failure ends the call.
ProgramPage(t) ==
  /\ pc[t] = "program"
  /\ \/ /\ flash' = [flash EXCEPT ![page[t]] = cache]
        /\ NextPage(t)
        /\ Goto(t, "work")
     \/ /\ flash' \in {flash, [flash EXCEPT ![page[t]] = Torn]}
        /\ Goto(t, "release")
        /\ UNCHANGED page
  /\ UNCHANGED <<lock, op, cache, buf>>

\* nmbm_erase_block_range: one block after the other, up to the first that
\* cannot be erased.
ErasePage(t) ==
  /\ Working(t, "erase") /\ MorePages(t)
  /\ \/ /\ flash' = [flash EXCEPT ![page[t]] = Erased]
        /\ NextPage(t)
        /\ UNCHANGED pc
     \/ /\ flash' \in {flash, [flash EXCEPT ![page[t]] = Torn]}
        /\ Goto(t, "release")
        /\ UNCHANGED page
  /\ UNCHANGED <<lock, op, cache, buf>>

\* The range is done; nmbm_check_bad_block and nmbm_mark_bad_block touch no
\* page that this module shows.
WorkDone(t) ==
  /\ pc[t] = "work"
  /\ op[t] \in {"isbad", "markbad"} \/ ~MorePages(t)
  /\ Goto(t, "release")
  /\ UNCHANGED <<lock, op, page, data>>

-----------------------------------------------------------------------------
TaskStep(t) ==
  \/ nmbm_get_device(t) \/ Woken(t) \/ nmbm_release_device(t)
  \/ ReadPage(t) \/ CopyPage(t) \/ StagePage(t) \/ ProgramPage(t)
  \/ ErasePage(t) \/ WorkDone(t)

Next == \E t \in Tasks : Call(t) \/ TaskStep(t)

Spec == Init /\ [][Next]_vars

\* Every task that can run is scheduled in the end.
FairSpec == Spec /\ \A t \in Tasks : WF_vars(TaskStep(t))

-----------------------------------------------------------------------------
(* Properties.                                                             *)

\* The points at which a task has the device.
Holding == {"work", "copy", "program", "release"}

\* The type of every variable.
TypeOK ==
  /\ state \in States /\ wq \subseteq Tasks /\ asleep \subseteq Tasks
  /\ pc \in [Tasks -> {"idle", "get", "wait"} \cup Holding]
  /\ op \in [Tasks -> Ops]
  /\ page \in [Tasks -> 1 .. PageCount + 1]
  /\ cache \in Contents
  /\ buf \in [Tasks -> [Pages -> Contents]]
  /\ flash \in [Pages -> Contents]

\* nmbm_get_device lets one task in at a time, and nm->state says what for.
Exclusive ==
  \A t \in Tasks : pc[t] \in Holding =>
    /\ state = NewState[op[t]]
    /\ \A u \in Tasks : pc[u] \in Holding => u = t

\* The pages a call of nmbm_mtd_read_oob has copied so far are those of one
\* moment: no write or erase of another task falls between two of them, and
\* none replaces the page cache between the read and the copy.
ReadIsSnapshot ==
  \A t \in Tasks : op[t] = "read" /\ pc[t] \in Holding =>
    /\ \A p \in Pages : p < page[t] => buf[t][p] = flash[p]
    /\ pc[t] = "copy" => cache = flash[page[t]]

\* Each page is programmed with the data of the task that writes it.
WritesOwnData ==
  \A t \in Tasks : pc[t] = "program" => cache = DataOf(t)

\* Once nmbm_mtd_shutdown has the device, the flash stays as it is and the
\* device stays suspended.
SuspendedIsFinal ==
  [][state = "FL_PM_SUSPENDED" => UNCHANGED <<state, flash>>]_vars

\* A task that sleeps in the queue is woken when the device is released; it
\* sleeps for ever only after a shutdown.
WaiterWakes ==
  \A t \in Tasks : pc[t] = "wait" ~> pc[t] # "wait" \/ state = "FL_PM_SUSPENDED"
=============================================================================
