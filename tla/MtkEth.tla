------------------------------- MODULE MtkEth -------------------------------
(***************************************************************************)
(* The transmit side of mtk_eth_soc, the Ethernet driver of the MT798x     *)
(* (drivers/net/ethernet/mediatek/mtk_eth_soc.c, mtk_eth_reset.c): several *)
(* netdevs share one DMA ring, which mtk_start_xmit fills under page_lock, *)
(* the QDMA engine empties, and the NAPI poll cleans without any lock.     *)
(* Opening, closing and the reset work of the monitor run beside them and  *)
(* free the ring and allocate it again.                                    *)
(*                                                                         *)
(* The engine, the stack and NAPI itself are external: they do what the    *)
(* driver relies on.  A step ends where another processor can come between *)
(* and see it: after a test of free_count before the queue is stopped,     *)
(* after last_free has moved and before free_count follows, and so on.     *)
(* Joined into one step are what mtk_tx_map writes under page_lock, which  *)
(* the poll reaches only once the engine was told, and the test and the    *)
(* waking of the queues at the end of a poll.                              *)
(***************************************************************************)
EXTENDS Naturals, Sequences

CONSTANTS
  MTK_DMA_SIZE,    \* descriptors of the ring
  Thresh,          \* ring->thresh: with no more free ones, a queue is stopped
  MTK_MAC_COUNT,   \* netdevs
  MaxDesc,         \* bound: descriptors of a packet
  MaxBatch,        \* bound: descriptors filled before the engine is told
  Budget,          \* packets that a poll may clean
  ReopenFails,     \* netdevs whose open may fail after a reset
  MaxEvents        \* bound: hangs, errors, closed netdevs, failed opens, forced resets

ASSUME EthAssumption ==
  /\ {MTK_DMA_SIZE, Thresh, MTK_MAC_COUNT, MaxDesc, MaxBatch, Budget, MaxEvents} \subseteq Nat
  /\ MTK_DMA_SIZE > 2 /\ MTK_MAC_COUNT > 0 /\ MaxDesc > 0 /\ Budget > 0
  /\ ReopenFails \subseteq 0 .. MTK_MAC_COUNT - 1
  /\ Thresh + MaxBatch < MTK_DMA_SIZE - 2

VARIABLES
  ring,      \* struct mtk_tx_ring
  hw,        \* the engine: its positions, interrupt, and whether it hangs
  xmit,      \* mtk_start_xmit, by whichever processor has page_lock
  napi,      \* mtk_napi_tx
  awake,     \* the netdevs whose transmit queue is not stopped
  running,   \* the netdevs that are up
  life,      \* dma_refcnt, the holder of the RTNL, and the mtk_stop it is in
  work,      \* mtk_pending_work
  reset,     \* reset_lock, force, MTK_RESETTING and the monitor
  events     \* history: how many of these so far

vars == <<ring, hw, xmit, napi, awake, running, life, work, reset, events>>

Netdevs == 0 .. MTK_MAC_COUNT - 1

\* The descriptors are a circle linked by txd2, and only distances on it matter.
\* buf holds the buffers in use, from the one after last_free to the one before
\* next_free: an skb for the first descriptor of a packet, MTK_DMA_DUMMY_DESC for
\* the others.  Positions count from last_free: told is MTK_QTX_CTX_PTR, sent is
\* MTK_QTX_DRX_PTR, and napi.dma the position that the poll has read.
mtk_tx_alloc ==
  [up |-> TRUE, buf |-> <<>>, free_count |-> MTK_DMA_SIZE - 2]

NoXmit == [pc |-> "idle", dev |-> 0, need |-> 1]

Init ==
  /\ ring = [mtk_tx_alloc EXCEPT !.up = FALSE]
  /\ hw = [en |-> FALSE, told |-> 0, sent |-> 0, done |-> FALSE, mask |-> FALSE, hang |-> FALSE]
  /\ xmit = NoXmit
  /\ napi = [st |-> "off", dma |-> 0, budget |-> 0, rearm |-> FALSE]
  /\ awake = Netdevs /\ running = {}
  /\ life = [refcnt |-> 0, rtnl |-> "free", at |-> "none", dev |-> 0]
  /\ work = [pending |-> FALSE, pc |-> "idle", todo |-> {}]
  /\ reset = [lock |-> 0, force |-> 0, resetting |-> FALSE, timer |-> TRUE,
              err_cnt |-> 0, missed |-> FALSE]
  /\ events = 0

Event == events < MaxEvents /\ events' = events + 1

-----------------------------------------------------------------------------
(* The engine.                                                             *)

\* A descriptor is sent and released.
HwSends ==
  /\ hw.en /\ ~hw.hang /\ hw.sent < hw.told
  /\ hw' = [hw EXCEPT !.sent = @ + 1, !.done = TRUE]
  /\ UNCHANGED <<ring, xmit, napi, awake, running, life, work, reset, events>>

\* A hang that begins before the monitor has seen the engine well again finds its
\* count past three: see mtk_dma_monitor.
HwHangs ==
  /\ hw.en /\ ~hw.hang /\ Event
  /\ hw' = [hw EXCEPT !.hang = TRUE]
  /\ reset' = [reset EXCEPT !.missed = @ \/ reset.err_cnt > 2]
  /\ UNCHANGED <<ring, xmit, napi, awake, running, life, work>>

-----------------------------------------------------------------------------
(* mtk_start_xmit, under page_lock.  A packet that is dropped changes      *)
(* nothing here.                                                           *)

\* Mutant: a packet is taken during a reset.
XmitDuringReset(d) ==
  /\ xmit.pc = "idle" /\ d \in running /\ d \in awake
  /\ \E need \in 1 .. MaxDesc :
       ring.free_count > need /\ xmit' = [pc |-> "map", dev |-> d, need |-> need]
  /\ UNCHANGED <<ring, hw, napi, awake, running, life, work, reset, events>>

\* netif_stop_queue follows a test of free_count; the poll may run in between.
StopsQueue(d) == [pc |-> "stop", dev |-> d, need |-> 1]

\* The stack calls it for a running netdev whose queue is awake.  When the ring is
\* too full, the queue is stopped and the packet stays with the stack.
mtk_start_xmit(d) ==
  /\ xmit.pc = "idle" /\ d \in running /\ d \in awake /\ ~reset.resetting
  /\ \E need \in 1 .. MaxDesc :
       xmit' = IF ring.free_count <= need THEN StopsQueue(d)
               ELSE [pc |-> "map", dev |-> d, need |-> need]
  /\ UNCHANGED <<ring, hw, napi, awake, running, life, work, reset, events>>

\* After mtk_tx_map: the queue is stopped when the count is at the threshold.
XmitNext(free_count) ==
  IF free_count <= Thresh THEN StopsQueue(xmit.dev) ELSE NoXmit

Packet(n) == [i \in 1 .. n |-> IF i = 1 THEN "skb" ELSE "dummy"]

\* Mutant: only the first descriptor of a packet is counted.
MapCountsOne ==
  /\ xmit.pc = "map"
  /\ LET used == ring.buf \o Packet(xmit.need)
     IN  /\ ring' = [ring EXCEPT !.buf = used, !.free_count = @ - 1]
         /\ hw' = [hw EXCEPT !.told = Len(used)]
  /\ xmit' = XmitNext(ring'.free_count)
  /\ UNCHANGED <<napi, awake, running, life, work, reset, events>>

\* mtk_tx_map: the descriptors are filled, counted, and the engine is told, unless
\* more packets follow (netdev_xmit_more) and the queue is awake.  Where one cannot
\* be mapped, or they would reach last_free, all are given back.
mtk_tx_map ==
  /\ xmit.pc = "map"
  /\ LET used == ring.buf \o Packet(xmit.need)
         fits == Len(used) < MTK_DMA_SIZE
     IN  \/ /\ fits
            /\ ring' = [ring EXCEPT !.buf = used, !.free_count = @ - xmit.need]
            /\ \/ hw' = [hw EXCEPT !.told = Len(used)]
               \/ xmit.dev \in awake /\ Len(used) - hw.told <= MaxBatch /\ UNCHANGED hw
            /\ xmit' = XmitNext(ring'.free_count)
         \/ xmit' = NoXmit /\ UNCHANGED <<ring, hw>>
  /\ UNCHANGED <<napi, awake, running, life, work, reset, events>>

XmitStops ==
  /\ xmit.pc = "stop" /\ awake' = awake \ {xmit.dev} /\ xmit' = NoXmit
  /\ UNCHANGED <<ring, hw, napi, running, life, work, reset, events>>

-----------------------------------------------------------------------------
(* The interrupt and mtk_napi_tx.                                          *)

\* napi_disable waits: NAPI takes no new work and ends what it repeats.
Disabling == life.at = "napi"

\* The beginning of mtk_napi_tx: the interrupt status is cleared, and then the
\* engine's position is read.
PollBegins == [napi EXCEPT !.st = "poll", !.dma = hw.sent, !.budget = Budget]

\* The interrupt is masked and NAPI runs.
mtk_handle_irq_tx ==
  /\ hw.done /\ hw.mask /\ napi.st = "idle" /\ ~Disabling
  /\ hw' = [hw EXCEPT !.mask = FALSE, !.done = FALSE]
  /\ napi' = PollBegins
  /\ UNCHANGED <<ring, xmit, awake, running, life, work, reset, events>>

Cleanable == napi.dma > 0 /\ napi.budget > 0 /\ ring.buf # <<>>

\* mtk_poll_tx_qdma frees one descriptor after the other: its buffer is unmapped and
\* last_free moves to it; a packet counts against the budget once.  Up to the
\* position it reports, the engine has given every descriptor back to the CPU.
mtk_poll_tx_qdma ==
  /\ napi.st = "poll" /\ Cleanable
  /\ ring' = [ring EXCEPT !.buf = Tail(@)]
  /\ hw' = [hw EXCEPT !.told = @ - 1, !.sent = @ - 1]
  /\ napi' = [napi EXCEPT !.st = "count", !.dma = @ - 1,
                          !.budget = IF Head(ring.buf) = "skb" THEN @ - 1 ELSE @]
  /\ UNCHANGED <<xmit, awake, running, life, work, reset, events>>

\* atomic_inc(&ring->free_count): mtk_start_xmit may have come between.
CountFreed ==
  /\ napi.st = "count" /\ napi' = [napi EXCEPT !.st = "poll"]
  /\ ring' = [ring EXCEPT !.free_count = @ + 1]
  /\ UNCHANGED <<hw, xmit, awake, running, life, work, reset, events>>

\* Mutant: the state of the first netdev stands for all.
QueueStoppedFirst == 0 \notin awake

mtk_queue_stopped == awake # Netdevs

\* The end of mtk_poll_tx: every netdev is woken, whatever stopped it.
mtk_wake_queue ==
  awake' = IF mtk_queue_stopped /\ ring.free_count > Thresh THEN Netdevs ELSE awake

PollEnds == [napi EXCEPT !.st = "idle", !.dma = 0, !.budget = 0]

\* Mutant: what was sent during the poll is left to the interrupt, whose status is
\* cleared once more.
StatusCleared ==
  /\ napi.st = "poll" /\ ~Cleanable
  /\ mtk_wake_queue
  /\ hw' = [hw EXCEPT !.done = FALSE]
  /\ napi' = IF napi.budget > 0 THEN [PollEnds EXCEPT !.rearm = TRUE]
             ELSE IF Disabling THEN PollEnds ELSE PollBegins
  /\ UNCHANGED <<ring, xmit, running, life, work, reset, events>>

\* The end of mtk_napi_tx: napi_complete, or poll again when the budget is used up
\* or more was sent meanwhile.
mtk_napi_tx ==
  /\ napi.st = "poll" /\ ~Cleanable
  /\ mtk_wake_queue
  /\ LET again == napi.budget = 0 \/ hw.done
     IN  \/ ~again /\ napi' = [PollEnds EXCEPT !.rearm = TRUE] /\ UNCHANGED hw
         \/ again /\ Disabling /\ napi' = PollEnds /\ UNCHANGED hw
         \/ again /\ ~Disabling /\ napi' = PollBegins /\ hw' = [hw EXCEPT !.done = FALSE]
  /\ UNCHANGED <<ring, xmit, running, life, work, reset, events>>

\* After napi_complete.
mtk_tx_irq_enable ==
  /\ napi.rearm /\ napi' = [napi EXCEPT !.rearm = FALSE]
  /\ hw' = [hw EXCEPT !.mask = TRUE]
  /\ UNCHANGED <<ring, xmit, awake, running, life, work, reset, events>>

-----------------------------------------------------------------------------
(* mtk_stop and mtk_open, by the holder of the RTNL: a netdev that is set  *)
(* down or up, or the reset work.                                          *)

InXmit(d) == xmit.pc # "idle" /\ xmit.dev = d

\* A call returns: to the stack, which gives up the RTNL, or to the work.
Return == [life EXCEPT !.at = "none", !.dev = 0,
                       !.rtnl = IF @ = "admin" THEN "free" ELSE @]

CallStop(d) == [life EXCEPT !.at = "stop", !.dev = d]

\* The stack closes a netdev: no packet is on its way to it any more.
dev_close(d) ==
  /\ life.rtnl = "free" /\ d \in running /\ ~InXmit(d) /\ Event
  /\ running' = running \ {d}
  /\ life' = [CallStop(d) EXCEPT !.rtnl = "admin"]
  /\ UNCHANGED <<ring, hw, xmit, napi, awake, work, reset>>

\* Mutant: every user shuts the engine down.
StopIgnoresCount ==
  /\ life.at = "stop" /\ ~InXmit(life.dev)
  /\ awake' = awake \ {life.dev}
  /\ life' = [life EXCEPT !.refcnt = 0, !.at = "napi"]
  /\ hw' = [hw EXCEPT !.mask = FALSE]
  /\ UNCHANGED <<ring, xmit, napi, running, work, reset, events>>

\* netif_tx_disable waits for a packet that is on its way.  refcount_dec_and_test
\* leaves a count of zero alone; the last user goes on to shut the engine down.
mtk_stop ==
  /\ life.at = "stop" /\ ~InXmit(life.dev)
  /\ awake' = awake \ {life.dev}
  /\ \/ /\ life.refcnt # 1
        /\ life' = [Return EXCEPT !.refcnt = IF @ = 0 THEN 0 ELSE @ - 1]
        /\ UNCHANGED hw
     \/ /\ life.refcnt = 1 /\ life' = [life EXCEPT !.refcnt = 0, !.at = "napi"]
        /\ hw' = [hw EXCEPT !.mask = FALSE]
  /\ UNCHANGED <<ring, xmit, napi, running, work, reset, events>>

\* napi_disable, then mtk_stop_dma and mtk_dma_free.  mtk_stop_dma waits for
\* page_lock, but gives it up again.
mtk_dma_free ==
  /\ life.at = "napi" /\ napi.st = "idle"
  /\ napi' = [napi EXCEPT !.st = "off"]
  /\ ring' = [mtk_tx_alloc EXCEPT !.up = FALSE]
  /\ hw' = [hw EXCEPT !.en = FALSE, !.told = 0, !.sent = 0]
  /\ life' = Return
  /\ UNCHANGED <<xmit, awake, running, work, reset, events>>

\* mtk_open(d) when it succeeds: the first user starts the engine (mtk_start_dma)
\* and enables NAPI and the interrupt.
mtk_open(d) ==
  /\ IF life.refcnt = 0
       THEN /\ ring' = mtk_tx_alloc
            /\ hw' = [hw EXCEPT !.en = TRUE, !.told = 0, !.sent = 0, !.mask = TRUE]
            /\ napi' = [napi EXCEPT !.st = "idle"]
       ELSE UNCHANGED <<ring, hw, napi>>
  /\ life' = [life EXCEPT !.refcnt = @ + 1]
  /\ awake' = awake \cup {d} /\ running' = running \cup {d}

\* The stack opens a netdev; one that fails is not up, and nothing has changed.
dev_open(d) ==
  /\ life.rtnl = "free" /\ d \notin running
  /\ mtk_open(d)
  /\ UNCHANGED <<xmit, work, reset, events>>

-----------------------------------------------------------------------------
(* The reset: mtk_dma_monitor, mtk_tx_timeout, mtk_pending_work.           *)

Schedule(w) == [w EXCEPT !.pending = TRUE]

mtk_tx_timeout(d) ==
  /\ d \in running /\ d \notin awake /\ reset.lock = 0
  /\ work' = Schedule(work)
  /\ UNCHANGED <<ring, hw, xmit, napi, awake, running, life, reset, events>>

mtketh_debugfs_reset ==
  /\ Event /\ reset' = [reset EXCEPT !.force = @ + 1] /\ work' = Schedule(work)
  /\ UNCHANGED <<ring, hw, xmit, napi, awake, running, life>>

\* The third look in a row at a hung engine asks for a reset; it does so once, and
\* not at all when another work has the reset lock, whose check may be over, or
\* when a request is left over (missed).
mtk_dma_monitor ==
  /\ reset.timer
  /\ LET third == hw.hang /\ reset.err_cnt = 2
         ask == third /\ reset.lock = 0 /\ reset.force = 0
         cnt == IF ~hw.hang THEN 0 ELSE IF reset.err_cnt < 4 THEN reset.err_cnt + 1 ELSE 4
         leftover == reset.force > 0 /\ work.pc = "idle" /\ ~work.pending
     IN  /\ reset' = [reset EXCEPT !.err_cnt = cnt,
                                   !.force = IF ask THEN @ + 1 ELSE @,
                                   !.missed = @ \/ (third /\ (work.pc = "check" \/ leftover))]
         /\ work' = IF ask THEN Schedule(work) ELSE work
  /\ UNCHANGED <<ring, hw, xmit, napi, awake, running, life, events>>

WorkBegins ==
  /\ work.pending /\ work.pc = "idle"
  /\ work' = [work EXCEPT !.pending = FALSE, !.pc = "check"]
  /\ reset' = [reset EXCEPT !.lock = @ + 1]
  /\ UNCHANGED <<ring, hw, xmit, napi, awake, running, life, events>>

\* Mutant: a work that finds nothing to do keeps reset_lock.
CheckKeepsLock ==
  /\ work.pc = "check"
  /\ work' = [work EXCEPT !.pc = IF reset.force > 0 THEN "prepare" ELSE "idle"]
  /\ UNCHANGED <<ring, hw, xmit, napi, awake, running, life, reset, events>>

\* mtk_check_reset_event: a reset is due when force is set, or when the interrupt
\* status of the frame engine shows an error, which it may at any time: FQ_EMPTY
\* is not enabled as an interrupt, so that mtk_handle_fe_irq need not have seen it.
mtk_check_reset_event ==
  /\ work.pc = "check"
  /\ \/ /\ (reset.force > 0 /\ UNCHANGED events) \/ Event
        /\ work' = [work EXCEPT !.pc = "prepare"] /\ UNCHANGED reset
     \/ /\ reset.force = 0 /\ UNCHANGED events
        /\ work' = [work EXCEPT !.pc = "idle"]
        /\ reset' = [reset EXCEPT !.lock = @ - 1]
  /\ UNCHANGED <<ring, hw, xmit, napi, awake, running, life>>

\* With the RTNL, which is then given up while the WiFi drivers prepare.
mtk_prepare_reset_fe ==
  /\ work.pc = "prepare" /\ life.rtnl = "free" /\ xmit.pc = "idle"
  /\ hw' = [hw EXCEPT !.mask = FALSE, !.en = FALSE] /\ awake' = {}
  /\ work' = [work EXCEPT !.pc = "ser"]
  /\ UNCHANGED <<ring, xmit, napi, running, life, reset, events>>

\* The wait ends; MTK_RESETTING is set and the monitor's timer deleted.
WorkResets ==
  /\ work.pc = "ser" /\ life.rtnl = "free"
  /\ life' = [life EXCEPT !.rtnl = "work"]
  /\ reset' = [reset EXCEPT !.resetting = TRUE, !.timer = FALSE]
  /\ work' = [work EXCEPT !.pc = "stop", !.todo = running]
  /\ UNCHANGED <<ring, hw, xmit, napi, awake, running, events>>

\* The loops over the netdevs go through them in order.
Lowest(S) == CHOOSE d \in S : \A e \in S : d <= e

WorkStops ==
  /\ work.pc = "stop" /\ life.at = "none" /\ work.todo # {}
  /\ life' = CallStop(Lowest(work.todo))
  /\ work' = [work EXCEPT !.todo = @ \ {Lowest(@)}]
  /\ UNCHANGED <<ring, hw, xmit, napi, awake, running, reset, events>>

\* mtk_hw_init resets the engine and disables its interrupts.  The netdevs that
\* were stopped are those still running.
mtk_hw_init ==
  /\ work.pc = "stop" /\ life.at = "none" /\ work.todo = {}
  /\ hw' = [hw EXCEPT !.hang = FALSE, !.mask = FALSE, !.done = FALSE]
  /\ work' = [work EXCEPT !.pc = "open", !.todo = running]
  /\ reset' = [reset EXCEPT !.missed = FALSE]
  /\ UNCHANGED <<ring, xmit, napi, awake, running, life, events>>

\* mtk_open fails before it is a user of the engine: the PHY does not connect, or
\* the engine stays busy.  The work then calls dev_close, and so mtk_stop.
WorkOpens ==
  /\ work.pc = "open" /\ life.at = "none" /\ work.todo # {}
  /\ LET d == Lowest(work.todo)
     IN  \/ mtk_open(d) /\ UNCHANGED events
         \/ /\ d \in ReopenFails /\ Event
            /\ running' = running \ {d} /\ life' = CallStop(d)
            /\ UNCHANGED <<ring, hw, napi, awake>>
  /\ work' = [work EXCEPT !.todo = @ \ {Lowest(@)}]
  /\ UNCHANGED <<xmit, reset>>

WorkEnds ==
  /\ work.pc = "open" /\ life.at = "none" /\ work.todo = {}
  /\ reset' = [reset EXCEPT !.lock = @ - 1, !.force = IF @ > 0 THEN @ - 1 ELSE 0,
                            !.timer = TRUE, !.resetting = FALSE]
  /\ life' = [life EXCEPT !.rtnl = "free"] /\ work' = [work EXCEPT !.pc = "idle"]
  /\ UNCHANGED <<ring, hw, xmit, napi, awake, running, events>>

-----------------------------------------------------------------------------
XmitStep == mtk_tx_map \/ XmitStops
NapiStep == mtk_poll_tx_qdma \/ CountFreed \/ mtk_napi_tx
CallStep == mtk_stop \/ mtk_dma_free
WorkStep ==
  \/ WorkBegins \/ mtk_check_reset_event \/ mtk_prepare_reset_fe \/ WorkResets
  \/ WorkStops \/ mtk_hw_init \/ WorkOpens \/ WorkEnds

Next ==
  \/ HwSends \/ HwHangs \/ XmitStep \/ mtk_handle_irq_tx \/ NapiStep \/ mtk_tx_irq_enable
  \/ CallStep \/ WorkStep \/ mtk_dma_monitor \/ mtketh_debugfs_reset
  \/ \E d \in Netdevs :
       mtk_start_xmit(d) \/ dev_close(d) \/ dev_open(d) \/ mtk_tx_timeout(d)

Spec == Init /\ [][Next]_vars

\* The engine, the processors, the interrupt and the timer go on.  Packets, users
\* and timeouts may or may not come.  The RTNL and the transmit locks are fair, so
\* that the work gets them in the end.
FairSpec ==
  /\ Spec
  /\ WF_vars(HwSends) /\ WF_vars(XmitStep) /\ WF_vars(mtk_handle_irq_tx)
  /\ WF_vars(NapiStep) /\ WF_vars(mtk_tx_irq_enable) /\ WF_vars(CallStep)
  /\ SF_vars(WorkStep) /\ WF_vars(mtk_dma_monitor)

-----------------------------------------------------------------------------
(* Properties.                                                             *)

Rings == [up: BOOLEAN, buf: Seq({"skb", "dummy"}), free_count: 0 .. MTK_DMA_SIZE - 2]
Engines(used) ==
  [en: BOOLEAN, told: 0 .. used, sent: 0 .. used, done: BOOLEAN, mask: BOOLEAN, hang: BOOLEAN]
Xmits == [pc: {"idle", "map", "stop"}, dev: Netdevs, need: 1 .. MaxDesc]
Napis ==
  [st: {"off", "idle", "poll", "count"}, dma: 0 .. MTK_DMA_SIZE, budget: 0 .. Budget, rearm: BOOLEAN]
Lives ==
  [refcnt: 0 .. MTK_MAC_COUNT, rtnl: {"free", "admin", "work"}, dev: Netdevs,
   at: {"none", "stop", "napi"}]
Works ==
  [pending: BOOLEAN, pc: {"idle", "check", "prepare", "ser", "stop", "open"},
   todo: SUBSET Netdevs]
Resets ==
  [lock: {0, 1}, force: 0 .. MaxEvents + 1, resetting: BOOLEAN, timer: BOOLEAN,
   err_cnt: 0 .. 4, missed: BOOLEAN]

TypeOK ==
  /\ ring \in Rings /\ Len(ring.buf) < MTK_DMA_SIZE /\ hw \in Engines(Len(ring.buf))
  /\ xmit \in Xmits /\ napi \in Napis
  /\ awake \subseteq Netdevs /\ running \subseteq Netdevs
  /\ life \in Lives /\ work \in Works /\ reset \in Resets
  /\ events \in 0 .. MaxEvents

Uncounted == IF napi.st = "count" THEN 1 ELSE 0

\* mtk_tx_map and mtk_poll_tx_qdma, which share the ring without a lock: what is
\* counted as free is what lies between next_free and last_free, but for the one
\* descriptor that the poll is about to count; the engine has sent no more than it
\* was told of, and the poll frees nothing that is not sent.
RingConsistent ==
  /\ ring.free_count + Len(ring.buf) + Uncounted = MTK_DMA_SIZE - 2
  /\ napi.dma <= hw.sent /\ hw.sent <= hw.told /\ hw.told <= Len(ring.buf)

\* mtk_dma_free: no packet is mapped into a ring, and no poll looks at one, that
\* has been freed -- although mtk_wake_queue wakes queues that mtk_stop and the
\* reset have stopped, and nothing but MTK_RESETTING keeps their packets out.
RingInUse ==
  xmit.pc = "map" \/ napi.st \in {"poll", "count"} => ring.up

\* mtk_handle_irq_tx, mtk_napi_tx: when no packets come any more, those that the
\* engine was told of are all sent and freed.  No completion is missed between
\* the last look at the ring, the interrupt status and the interrupt mask; a reset
\* frees what it finds.
RungIsFreed ==
  <>[](xmit.pc = "idle" /\ ~hw.hang) => <>[](hw.told = 0)

\* mtk_poll_tx: a queue that is stopped while the engine has something to give
\* back is woken, whichever netdev it came from.
QueueWakes ==
  \A d \in Netdevs :
    (d \in running /\ d \notin awake /\ hw.sent > 0)
      ~> (d \in awake \/ d \notin running \/ hw.hang)

\* mtk_dma_monitor and mtk_pending_work: an engine that hangs is reset, unless the
\* third look fell into the check of another work or was past before it hung.
HangIsReset == hw.hang ~> (~hw.hang \/ reset.missed)

\* "only shutdown DMA if this is the last user" (mtk_eth_soc.c:2756): unless it is
\* being reset, a netdev that is up has a ring.
UsersHaveDma == ~reset.resetting => running = {} \/ ring.up
=============================================================================
