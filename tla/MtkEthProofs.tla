---------------------------- MODULE MtkEthProofs ----------------------------
(***************************************************************************)
(* Theorems about MtkEth for any ring, any number of netdevs and any       *)
(* bounds: the ring that mtk_start_xmit and the poll share without a lock  *)
(* stays consistent; and, as long as no netdev but the first fails to open *)
(* again after a reset, nobody maps into a freed ring and a netdev that is *)
(* up has one.                                                             *)
(***************************************************************************)
EXTENDS MtkEth, FiniteSetTheorems, WellFoundedInduction, TLAPS

\* The works that hold the RTNL across their steps.
InReset == work.pc \in {"stop", "open"}

\* Who holds the RTNL and what he is doing go together, and MTK_RESETTING and
\* reset_lock say where the work is.
LockInv ==
  /\ reset.resetting <=> InReset
  /\ life.rtnl = "work" <=> InReset
  /\ life.rtnl = "free" => life.at = "none"
  /\ life.rtnl = "admin" => life.at # "none"
  /\ life.rtnl = "admin" /\ life.at = "stop" => life.dev \notin running
  /\ InReset => work.todo \subseteq running
  /\ InReset /\ life.at = "stop" => life.dev \notin work.todo
  /\ reset.lock = IF work.pc = "idle" THEN 0 ELSE 1
  /\ reset.force <= events + 1

\* The ring is there while it has users or the last of them waits for NAPI, and
\* NAPI is enabled as long.  A packet to be mapped has been promised descriptors.
DmaInv ==
  /\ ring.up <=> life.refcnt > 0 \/ life.at = "napi"
  /\ napi.st = "off" <=> ~ring.up
  /\ napi.st \notin {"poll", "count"} => napi.dma = 0
  /\ life.at = "napi" => life.refcnt = 0
  /\ xmit.pc = "map" => xmit.need < ring.free_count

\* The netdev that mtk_stop is called for, before its netif_tx_disable.
Stopping == IF life.at = "stop" THEN {life.dev} ELSE {}

\* The netdevs that dma_refcnt stands for: those that are up or about to be stopped,
\* and during a reset those not stopped yet or opened again.
Users ==
  IF work.pc = "stop" THEN work.todo \cup Stopping
  ELSE IF work.pc = "open" THEN running \ work.todo
  ELSE running \cup Stopping

\* A packet on its way belongs to a user.
XmitInv ==
  /\ xmit.pc # "idle" => xmit.dev \in running /\ xmit.dev \in Users
  /\ work.pc = "open" => xmit.pc = "idle"

\* The work opens the netdevs in order.
OrderInv ==
  work.pc = "open" => \A e \in running \ work.todo, t \in work.todo : e < t

\* dma_refcnt never exceeds its users.  It may fall behind: a netdev that fails to
\* open again is stopped once more and takes another's place in the count, unless
\* it was the first, when the count is zero.
CountInv ==
  /\ life.refcnt <= Cardinality(Users)
  /\ ReopenFails \subseteq {0} =>
       /\ life.refcnt = Cardinality(Users)
       /\ work.pc = "open" /\ life.at # "none" => life.refcnt = 0 /\ life.at = "stop"

IndInv ==
  TypeOK /\ RingConsistent /\ LockInv /\ DmaInv /\ XmitInv /\ OrderInv /\ CountInv

-----------------------------------------------------------------------------
(* The operators.                                                          *)

\* Packet: the buffers of a packet of n descriptors.
LEMMA PacketSeq ==
  ASSUME NEW n \in Nat
  PROVE  Packet(n) \in Seq({"skb", "dummy"}) /\ Len(Packet(n)) = n
BY DEF Packet

\* mtk_tx_map appends a packet to the buffers in use.
LEMMA AppendPacket ==
  ASSUME NEW s \in Seq({"skb", "dummy"}), NEW n \in Nat
  PROVE  s \o Packet(n) \in Seq({"skb", "dummy"}) /\ Len(s \o Packet(n)) = Len(s) + n
<1>1. Packet(n) \in Seq({"skb", "dummy"}) /\ Len(Packet(n)) = n
  BY PacketSeq
<1> QED BY <1>1, SMT

\* mtk_poll_tx_qdma removes the first of them.
LEMMA TailOfUsed ==
  ASSUME NEW s \in Seq({"skb", "dummy"}), s # <<>>
  PROVE  /\ Tail(s) \in Seq({"skb", "dummy"})
         /\ \E n \in Nat : Len(s) = n + 1 /\ Len(Tail(s)) = n
<1>1. Tail(s) \in Seq({"skb", "dummy"}) /\ Len(s) > 0 /\ Len(Tail(s)) = Len(s) - 1
  OBVIOUS
<1>2. Len(s) \in Nat
  OBVIOUS
<1>3. Len(s) - 1 \in Nat /\ Len(s) = (Len(s) - 1) + 1
  BY <1>1, <1>2
<1> QED BY <1>1, <1>3, Zenon

\* Netdevs: a netdev that a set of them lacks or has changes its size by one, and
\* there are no more than MTK_MAC_COUNT.
LEMMA NetdevCount ==
  ASSUME NEW S \in SUBSET Netdevs
  PROVE  /\ Cardinality(S) \in 0 .. MTK_MAC_COUNT
         /\ Cardinality(S) = 0 <=> S = {}
         /\ \A d \in Netdevs \ S : Cardinality(S \cup {d}) = Cardinality(S) + 1
         /\ \A d \in S : Cardinality(S \ {d}) = Cardinality(S) - 1
<1>1. IsFiniteSet(Netdevs) /\ Cardinality(Netdevs) = MTK_MAC_COUNT
  <2>1. 0 \in Int /\ MTK_MAC_COUNT - 1 \in Int /\ MTK_MAC_COUNT \in Nat \ {0}
    BY EthAssumption
  <2>2. Cardinality(0 .. MTK_MAC_COUNT - 1) = MTK_MAC_COUNT - 1 - 0 + 1
    BY <2>1, FS_Interval
  <2> QED BY <2>1, <2>2, FS_Interval DEF Netdevs
<1>2. IsFiniteSet(S) /\ Cardinality(S) <= MTK_MAC_COUNT
  BY <1>1, FS_Subset
<1>3. Cardinality(S) \in Nat
  BY <1>2, FS_CardinalityType
<1>4. Cardinality(S) = 0 <=> S = {}
  BY <1>2, FS_EmptySet
<1>5. \A d \in Netdevs \ S : Cardinality(S \cup {d}) = Cardinality(S) + 1
  BY <1>2, FS_AddElement
<1>6. \A d \in S : Cardinality(S \ {d}) = Cardinality(S) - 1
  BY <1>2, FS_RemoveElement
<1> QED BY <1>2, <1>3, <1>4, <1>5, <1>6, EthAssumption

\* Lowest: the loops of the work take the netdev with the smallest number.
LEMMA LowestIsLeast ==
  ASSUME NEW S \in SUBSET Netdevs, S # {}
  PROVE  Lowest(S) \in S /\ \A e \in S : Lowest(S) <= e
<1>1. IsWellFoundedOn({p \in Nat \X Nat : p[1] < p[2]}, Nat)
  BY NatLessThanWellFounded DEF OpToRel
<1>2. S \subseteq Nat
  BY EthAssumption DEF Netdevs
<1>3. PICK d \in S : \A e \in S : ~(<<e, d>> \in {p \in Nat \X Nat : p[1] < p[2]})
  BY <1>1, <1>2, WFMin
<1>4. ASSUME NEW e \in S PROVE d <= e
  <2>1. d \in Nat /\ e \in Nat
    BY <1>2
  <2>2. ~(e < d)
    BY <1>3, <2>1
  <2> QED BY <2>1, <2>2
<1> QED BY <1>4 DEF Lowest

\* The fields that are numbers.
LEMMA NumberTypes ==
  ASSUME TypeOK
  PROVE  /\ Len(ring.buf) \in Nat /\ ring.free_count \in Nat
         /\ hw.told \in Nat /\ hw.sent \in Nat
         /\ napi.dma \in Nat /\ napi.budget \in Nat /\ xmit.need \in Nat
         /\ life.refcnt \in Nat /\ reset.force \in Nat /\ events \in Nat
         /\ reset.err_cnt \in Nat
<1>1. Len(ring.buf) \in Nat /\ ring.free_count \in Nat
  BY EthAssumption DEF TypeOK, Rings
<1>2. hw.told \in Nat /\ hw.sent \in Nat
  BY <1>1 DEF TypeOK, Engines
<1>3. napi.dma \in Nat /\ napi.budget \in Nat /\ xmit.need \in Nat
  BY EthAssumption DEF TypeOK, Napis, Xmits
<1>4. life.refcnt \in Nat /\ reset.force \in Nat /\ events \in Nat /\ reset.err_cnt \in Nat
  BY EthAssumption DEF TypeOK, Lives, Resets
<1> QED BY <1>1, <1>2, <1>3, <1>4

-----------------------------------------------------------------------------
(* The first state, and what several actions have in common.               *)

\* Before the first netdev is opened there is no ring and no user.
LEMMA IndInvInit == Init => IndInv
<1> SUFFICES ASSUME Init PROVE IndInv
  OBVIOUS
<1>1. TypeOK
  <2>1. <<>> \in Seq({"skb", "dummy"}) /\ Len(<<>>) = 0
    OBVIOUS
  <2>2. /\ MTK_DMA_SIZE - 2 \in 0 .. MTK_DMA_SIZE - 2 /\ 0 \in 0 .. MTK_DMA_SIZE - 2
        /\ 0 \in Netdevs /\ 1 \in 1 .. MaxDesc /\ 0 < MTK_DMA_SIZE
        /\ 0 \in 0 .. MTK_DMA_SIZE /\ 0 \in 0 .. Budget /\ 0 \in 0 .. MTK_MAC_COUNT
        /\ 0 \in 0 .. MaxEvents + 1 /\ 0 \in 0 .. MaxEvents
    BY EthAssumption DEF Netdevs
  <2>3. ring \in Rings /\ Len(ring.buf) = 0
    BY <2>1, <2>2 DEF Init, mtk_tx_alloc, Rings
  <2>4. hw \in Engines(0) /\ xmit \in Xmits /\ napi \in Napis
    BY <2>2 DEF Init, Engines, Xmits, Napis, NoXmit
  <2>5. life \in Lives /\ work \in Works /\ reset \in Resets
    BY <2>2 DEF Init, Lives, Works, Resets
  <2> QED BY <2>2, <2>3, <2>4, <2>5 DEF Init, TypeOK
<1>2. RingConsistent
  BY EthAssumption DEF Init, RingConsistent, Uncounted, mtk_tx_alloc
<1>3. LockInv /\ DmaInv /\ XmitInv /\ OrderInv
  BY DEF Init, LockInv, InReset, DmaInv, XmitInv, OrderInv, NoXmit, mtk_tx_alloc
<1>4. CountInv
  <2>1. Users = {}
    BY DEF Init, Users, Stopping
  <2>2. Cardinality(Users) = 0
    BY <2>1, FS_EmptySet
  <2> QED BY <2>2 DEF Init, CountInv
<1> QED BY <1>1, <1>2, <1>3, <1>4 DEF IndInv

\* What the users are and how many depends on the netdevs, the RTNL and the work.
LEMMA UsersFrame ==
  ASSUME UNCHANGED <<running, life, work>>
  PROVE  Users' = Users /\ (OrderInv => OrderInv') /\ (CountInv => CountInv')
<1>1. Users' = Users
  BY DEF Users, Stopping
<1> QED BY <1>1 DEF OrderInv, CountInv

\* The users are netdevs.
LEMMA UsersType == TypeOK => Users \in SUBSET Netdevs
BY DEF TypeOK, Users, Stopping, Lives, Works

\* The engine, mtk_start_xmit and the poll leave the users and the reset alone.  They
\* keep the invariant if the ring stays consistent and a packet that is on its way
\* is a user's.
LEMMA DataStep ==
  ASSUME IndInv, TypeOK', RingConsistent',
         UNCHANGED <<running, life, work>>,
         reset'.resetting = reset.resetting, reset'.lock = reset.lock,
         reset'.force <= events' + 1,
         ring'.up = ring.up,
         napi'.st = "off" <=> napi.st = "off",
         napi'.st \notin {"poll", "count"} => napi'.dma = 0,
         xmit'.pc = "map" => xmit'.need < ring'.free_count,
         xmit'.pc # "idle" => xmit'.dev \in running /\ xmit'.dev \in Users /\ work.pc # "open"
  PROVE  IndInv'
<1>1. Users' = Users /\ OrderInv' /\ CountInv'
  BY UsersFrame DEF IndInv
<1>2. LockInv'
  BY DEF IndInv, LockInv, InReset
<1>3. DmaInv'
  BY DEF IndInv, DmaInv
<1>4. XmitInv'
  BY <1>1 DEF XmitInv
<1> QED BY <1>1, <1>2, <1>3, <1>4 DEF IndInv

-----------------------------------------------------------------------------
(* The engine.                                                             *)

\* HwSends preserves the invariant: the engine sends what it was told of.
LEMMA HwSendsStep == IndInv /\ HwSends => IndInv'
<1> SUFFICES ASSUME IndInv, HwSends PROVE IndInv'
  OBVIOUS
<1>1. /\ hw.sent < hw.told /\ hw' = [hw EXCEPT !.sent = @ + 1, !.done = TRUE]
      /\ UNCHANGED <<ring, xmit, napi, awake, running, life, work, reset, events>>
  BY DEF HwSends
<1>2. TypeOK /\ RingConsistent
  BY DEF IndInv
<1>3. TypeOK'
  <2>1. hw.sent + 1 \in 0 .. Len(ring.buf)
    BY <1>1, <1>2, NumberTypes DEF RingConsistent, Uncounted
  <2>2. hw' \in Engines(Len(ring'.buf))
    BY <1>1, <1>2, <2>1 DEF TypeOK, Engines
  <2> QED BY <1>1, <1>2, <2>2 DEF TypeOK
<1>4. RingConsistent'
  BY <1>1, <1>2, NumberTypes DEF TypeOK, RingConsistent, Uncounted, Engines
<1> QED BY <1>1, <1>3, <1>4, DataStep DEF IndInv, LockInv, DmaInv, XmitInv

\* HwHangs preserves the invariant.
LEMMA HwHangsStep == IndInv /\ HwHangs => IndInv'
<1> SUFFICES ASSUME IndInv, HwHangs PROVE IndInv'
  OBVIOUS
<1>1. /\ events < MaxEvents /\ events' = events + 1
      /\ hw' = [hw EXCEPT !.hang = TRUE]
      /\ reset' = [reset EXCEPT !.missed = @ \/ reset.err_cnt > 2]
      /\ UNCHANGED <<ring, xmit, napi, awake, running, life, work>>
  BY DEF HwHangs, Event
<1>2. TypeOK /\ RingConsistent
  BY DEF IndInv
<1>3. TypeOK'
  <2>1. hw' \in Engines(Len(ring'.buf))
    BY <1>1, <1>2 DEF TypeOK, Engines
  <2>2. events' \in 0 .. MaxEvents
    BY <1>1, <1>2, EthAssumption DEF TypeOK
  <2>3. reset' \in Resets
    BY <1>1, <1>2 DEF TypeOK, Resets
  <2> QED BY <1>1, <1>2, <2>1, <2>2, <2>3 DEF TypeOK
<1>4. RingConsistent'
  BY <1>1, <1>2 DEF TypeOK, RingConsistent, Uncounted, Engines
<1>5. /\ reset'.resetting = reset.resetting /\ reset'.lock = reset.lock
      /\ reset'.force <= events' + 1
  BY <1>1, <1>2 DEF TypeOK, IndInv, LockInv, Resets
<1> QED BY <1>1, <1>3, <1>4, <1>5, DataStep DEF IndInv, DmaInv, XmitInv

-----------------------------------------------------------------------------
(* mtk_start_xmit.                                                         *)

\* Outside a reset all that are up are users.
LEMMA RunningAreUsers == ~InReset => running \subseteq Users
BY DEF InReset, Users

\* StopsQueue: what is left to do when the ring is too full.
LEMMA StopsQueueType ==
  ASSUME NEW d \in Netdevs
  PROVE  StopsQueue(d) \in Xmits /\ StopsQueue(d).pc = "stop" /\ StopsQueue(d).dev = d
BY EthAssumption DEF StopsQueue, Xmits

\* mtk_start_xmit preserves the invariant: MTK_RESETTING keeps it out of a reset.
LEMMA StartXmitStep ==
  ASSUME NEW d \in Netdevs PROVE IndInv /\ mtk_start_xmit(d) => IndInv'
<1> SUFFICES ASSUME IndInv, mtk_start_xmit(d) PROVE IndInv'
  OBVIOUS
<1>1. /\ d \in running /\ ~reset.resetting
      /\ UNCHANGED <<ring, hw, napi, awake, running, life, work, reset, events>>
  BY DEF mtk_start_xmit
<1>2. PICK need \in 1 .. MaxDesc :
        \/ xmit' = StopsQueue(d)
        \/ /\ ~(ring.free_count <= need)
           /\ xmit' = [pc |-> "map", dev |-> d, need |-> need]
  BY DEF mtk_start_xmit
<1>3. TypeOK /\ RingConsistent /\ RingConsistent'
  BY <1>1 DEF IndInv, RingConsistent, Uncounted
<1>4. ~InReset /\ d \in Users
  BY <1>1, RunningAreUsers DEF IndInv, LockInv
<1>5. CASE xmit' = StopsQueue(d)
  <2>1. xmit' \in Xmits /\ xmit'.pc = "stop" /\ xmit'.dev = d
    BY <1>5, StopsQueueType
  <2>2. TypeOK'
    BY <1>1, <1>3, <2>1 DEF TypeOK
  <2>3. xmit'.dev \in running /\ xmit'.dev \in Users /\ work.pc # "open"
    BY <1>1, <1>4, <2>1 DEF InReset
  <2> QED BY <1>1, <1>3, <2>1, <2>2, <2>3, DataStep DEF IndInv, LockInv, DmaInv
<1>6. CASE /\ ~(ring.free_count <= need)
           /\ xmit' = [pc |-> "map", dev |-> d, need |-> need]
  <2>1. xmit' \in Xmits
    BY <1>6 DEF Xmits
  <2>2. TypeOK'
    BY <1>1, <1>3, <1>6, <2>1 DEF TypeOK
  <2>3. xmit'.need < ring'.free_count
    <3>1. xmit'.need = need /\ ring'.free_count = ring.free_count
      BY <1>1, <1>6
    <3>2. ring.free_count \in Nat /\ need \in Nat
      BY <1>3, NumberTypes, EthAssumption
    <3> QED BY <1>6, <3>1, <3>2
  <2>4. xmit'.dev \in running /\ xmit'.dev \in Users /\ work.pc # "open"
    BY <1>1, <1>4, <1>6 DEF InReset
  <2> QED BY <1>1, <1>3, <2>2, <2>3, <2>4, DataStep DEF IndInv, LockInv, DmaInv
<1> QED BY <1>2, <1>5, <1>6

\* mtk_tx_map preserves the invariant: there is room for the descriptors that it
\* counted before, because the poll only adds to it.
LEMMA TxMapStep == IndInv /\ mtk_tx_map => IndInv'
<1> SUFFICES ASSUME IndInv, mtk_tx_map PROVE IndInv'
  OBVIOUS
<1> DEFINE used == ring.buf \o Packet(xmit.need)
<1>1. /\ xmit.pc = "map"
      /\ UNCHANGED <<napi, awake, running, life, work, reset, events>>
  BY DEF mtk_tx_map
<1>2. TypeOK /\ RingConsistent
  BY DEF IndInv
<1>3. NoXmit \in Xmits /\ NoXmit.pc = "idle"
  BY EthAssumption DEF NoXmit, Xmits, Netdevs
<1>4. CASE xmit' = NoXmit /\ UNCHANGED <<ring, hw>>
  <2>1. TypeOK'
    BY <1>1, <1>2, <1>3, <1>4 DEF TypeOK
  <2>2. RingConsistent'
    BY <1>1, <1>2, <1>4 DEF RingConsistent, Uncounted
  <2> QED BY <1>1, <1>3, <1>4, <2>1, <2>2, DataStep DEF IndInv, LockInv, DmaInv
<1>5. CASE /\ Len(used) < MTK_DMA_SIZE
           /\ ring' = [ring EXCEPT !.buf = used, !.free_count = @ - xmit.need]
           /\ \/ hw' = [hw EXCEPT !.told = Len(used)]
              \/ xmit.dev \in awake /\ Len(used) - hw.told <= MaxBatch /\ UNCHANGED hw
           /\ xmit' = XmitNext(ring'.free_count)
  <2>1. xmit.need \in Nat /\ xmit.need < ring.free_count /\ ring.free_count \in Nat
    BY <1>1, <1>2, NumberTypes DEF IndInv, DmaInv
  <2>2. ring.buf \in Seq({"skb", "dummy"})
    BY <1>2 DEF TypeOK, Rings
  <2>3. used \in Seq({"skb", "dummy"}) /\ Len(used) = Len(ring.buf) + xmit.need
    BY <2>1, <2>2, AppendPacket
  <2>4. ring' \in Rings /\ ring'.buf = used /\ ring'.free_count = ring.free_count - xmit.need
        /\ ring'.up = ring.up
    <3>1. ring.free_count - xmit.need \in 0 .. MTK_DMA_SIZE - 2
      BY <1>2, <2>1, EthAssumption DEF TypeOK, Rings
    <3> QED BY <1>2, <1>5, <2>3, <3>1 DEF TypeOK, Rings
  <2>5. /\ hw' \in Engines(Len(used)) /\ hw'.sent = hw.sent
        /\ hw.told <= hw'.told /\ hw'.told <= Len(used)
    <3>1. Len(ring.buf) \in Nat /\ Len(used) \in Nat /\ Len(ring.buf) <= Len(used)
      BY <1>2, <2>1, <2>3, NumberTypes
    <3>2. hw.told \in 0 .. Len(used) /\ hw.sent \in 0 .. Len(used)
          /\ hw \in Engines(Len(ring.buf))
      <4> HIDE DEF used
      <4> QED BY <1>2, <3>1, NumberTypes DEF TypeOK, RingConsistent, Uncounted
    <3> HIDE DEF used
    <3>3. hw \in Engines(Len(used)) /\ Len(used) \in 0 .. Len(used)
      BY <3>1, <3>2 DEF Engines
    <3>4. CASE hw' = [hw EXCEPT !.told = Len(used)]
      BY <3>1, <3>2, <3>3, <3>4 DEF Engines
    <3>5. CASE UNCHANGED hw
      BY <3>1, <3>2, <3>3, <3>5 DEF Engines
    <3> QED BY <1>5, <3>4, <3>5
  <2>6. xmit' \in Xmits /\ xmit'.pc # "map" /\ (xmit'.pc # "idle" => xmit'.dev = xmit.dev)
    <3>1. xmit.dev \in Netdevs
      BY <1>2 DEF TypeOK, Xmits
    <3>2. xmit' \in {StopsQueue(xmit.dev), NoXmit}
      BY <1>5 DEF XmitNext
    <3> QED BY <1>3, <3>1, <3>2, StopsQueueType
  <2>7. TypeOK'
    BY <1>1, <1>2, <1>5, <2>4, <2>5, <2>6 DEF TypeOK
  <2>8. RingConsistent'
    <3>1. Len(ring.buf) \in Nat /\ hw.sent \in Nat /\ hw.told \in Nat /\ napi.dma \in Nat
      BY <1>2, NumberTypes
    <3>2. Len(used) \in Nat /\ hw'.told \in 0 .. Len(used)
      BY <2>1, <2>3, <2>5, <3>1 DEF Engines
    <3>3. Uncounted \in {0, 1} /\ Uncounted' = Uncounted
      BY <1>1 DEF Uncounted
    <3>4. ring'.free_count + Len(used) + Uncounted = MTK_DMA_SIZE - 2
      BY <1>2, <2>1, <2>3, <2>4, <3>1, <3>3, EthAssumption DEF RingConsistent, Uncounted
    <3> HIDE DEF used
    <3> QED BY <1>1, <1>2, <2>4, <2>5, <3>1, <3>2, <3>3, <3>4 DEF RingConsistent, Uncounted
  <2> QED BY <1>1, <2>4, <2>6, <2>7, <2>8, DataStep DEF IndInv, LockInv, DmaInv, XmitInv
<1> QED BY <1>4, <1>5 DEF mtk_tx_map

\* XmitStops preserves the invariant.
LEMMA XmitStopsStep == IndInv /\ XmitStops => IndInv'
<1> SUFFICES ASSUME IndInv, XmitStops PROVE IndInv'
  OBVIOUS
<1>1. /\ awake' = awake \ {xmit.dev} /\ xmit' = NoXmit
      /\ UNCHANGED <<ring, hw, napi, running, life, work, reset, events>>
  BY DEF XmitStops
<1>2. NoXmit \in Xmits /\ NoXmit.pc = "idle"
  BY EthAssumption DEF NoXmit, Xmits, Netdevs
<1>3. TypeOK' /\ RingConsistent'
  BY <1>1, <1>2 DEF IndInv, TypeOK, RingConsistent, Uncounted
<1> QED BY <1>1, <1>2, <1>3, DataStep DEF IndInv, LockInv, DmaInv

-----------------------------------------------------------------------------
(* The interrupt and the poll.                                             *)

\* PollBegins: a poll that starts reads a position that the engine has reached.
LEMMA PollBeginsType ==
  ASSUME TypeOK
  PROVE  /\ PollBegins \in Napis /\ PollBegins.st = "poll" /\ PollBegins.dma = hw.sent
<1>1. hw.sent \in 0 .. MTK_DMA_SIZE
  BY NumberTypes, EthAssumption DEF TypeOK, Engines
<1>2. Budget \in 0 .. Budget
  BY EthAssumption
<1> QED BY <1>1, <1>2 DEF TypeOK, Napis, PollBegins

\* mtk_handle_irq_tx preserves the invariant.
LEMMA HandleIrqStep == IndInv /\ mtk_handle_irq_tx => IndInv'
<1> SUFFICES ASSUME IndInv, mtk_handle_irq_tx PROVE IndInv'
  OBVIOUS
<1>1. /\ napi.st = "idle" /\ napi' = PollBegins
      /\ hw' = [hw EXCEPT !.mask = FALSE, !.done = FALSE]
      /\ UNCHANGED <<ring, xmit, awake, running, life, work, reset, events>>
  BY DEF mtk_handle_irq_tx
<1>2. TypeOK /\ RingConsistent
  BY DEF IndInv
<1>3. napi' \in Napis /\ napi'.st = "poll" /\ napi'.dma = hw.sent
  BY <1>1, <1>2, PollBeginsType
<1>4. hw' \in Engines(Len(ring.buf)) /\ hw'.sent = hw.sent /\ hw'.told = hw.told
  BY <1>1, <1>2 DEF TypeOK, Engines
<1>5. TypeOK'
  BY <1>1, <1>2, <1>3, <1>4 DEF TypeOK
<1>6. RingConsistent'
  BY <1>1, <1>2, <1>3, <1>4, NumberTypes DEF RingConsistent, Uncounted
<1> QED BY <1>1, <1>3, <1>5, <1>6, DataStep DEF IndInv, LockInv, DmaInv, XmitInv

\* mtk_poll_tx_qdma preserves the invariant: the descriptor that it frees is sent,
\* and so the engine's positions are past it too.
LEMMA PollQdmaStep == IndInv /\ mtk_poll_tx_qdma => IndInv'
<1> SUFFICES ASSUME IndInv, mtk_poll_tx_qdma PROVE IndInv'
  OBVIOUS
<1>1. /\ napi.st = "poll" /\ napi.dma > 0 /\ napi.budget > 0 /\ ring.buf # <<>>
      /\ ring' = [ring EXCEPT !.buf = Tail(@)]
      /\ hw' = [hw EXCEPT !.told = @ - 1, !.sent = @ - 1]
      /\ napi' = [napi EXCEPT !.st = "count", !.dma = @ - 1,
                              !.budget = IF Head(ring.buf) = "skb" THEN @ - 1 ELSE @]
      /\ UNCHANGED <<xmit, awake, running, life, work, reset, events>>
  BY DEF mtk_poll_tx_qdma, Cleanable
<1>2. TypeOK /\ RingConsistent
  BY DEF IndInv
<1>3. ring.buf \in Seq({"skb", "dummy"})
  BY <1>2 DEF TypeOK, Rings
<1>4. /\ Tail(ring.buf) \in Seq({"skb", "dummy"})
      /\ \E n \in Nat : Len(ring.buf) = n + 1 /\ Len(Tail(ring.buf)) = n
  BY <1>1, <1>3, TailOfUsed
<1> DEFINE rest == Tail(ring.buf)
<1>41. PICK n \in Nat : Len(ring.buf) = n + 1 /\ Len(rest) = n
  BY <1>4
<1>42. /\ ring.free_count \in Nat /\ hw.told \in Nat /\ hw.sent \in Nat /\ napi.dma \in Nat
      /\ ring.free_count + (n + 1) = MTK_DMA_SIZE - 2
      /\ napi.dma <= hw.sent /\ hw.sent <= hw.told /\ hw.told <= n + 1
  BY <1>1, <1>2, <1>41, NumberTypes DEF RingConsistent, Uncounted
<1>5. /\ ring' \in Rings /\ ring'.buf = Tail(ring.buf)
      /\ ring'.free_count = ring.free_count /\ ring'.up = ring.up
  BY <1>1, <1>2, <1>4 DEF TypeOK, Rings
<1>6. hw' \in Engines(n) /\ hw'.told = hw.told - 1 /\ hw'.sent = hw.sent - 1
  <2>1. hw.told - 1 \in 0 .. n /\ hw.sent - 1 \in 0 .. n
    BY <1>1, <1>42
  <2> QED BY <1>1, <1>2, <2>1 DEF TypeOK, Engines
<1>7. napi' \in Napis /\ napi'.st = "count" /\ napi'.dma = napi.dma - 1
  <2>1. napi \in Napis
    BY <1>2 DEF TypeOK
  <2>2. napi.dma \in 0 .. MTK_DMA_SIZE /\ napi.budget \in 0 .. Budget
    BY <2>1 DEF Napis
  <2>3. napi.dma > 0 /\ napi.budget > 0
    BY <1>1
  <2>4. MTK_DMA_SIZE \in Nat /\ Budget \in Nat
    BY EthAssumption
  <2>5. napi.dma - 1 \in 0 .. MTK_DMA_SIZE /\ napi.budget - 1 \in 0 .. Budget
    BY <2>2, <2>3, <2>4
  <2>6. (IF Head(ring.buf) = "skb" THEN napi.budget - 1 ELSE napi.budget) \in 0 .. Budget
    BY <2>2, <2>5
  <2> QED BY <1>1, <2>1, <2>5, <2>6 DEF Napis
<1>8. TypeOK'
  <2>1. Len(ring'.buf) = n /\ n < MTK_DMA_SIZE
    BY <1>41, <1>42, <1>5, EthAssumption
  <2> QED BY <1>1, <1>2, <1>5, <1>6, <1>7, <2>1 DEF TypeOK
<1>9. RingConsistent'
  <2>1. Len(ring'.buf) = n
    BY <1>41, <1>5
  <2>2. /\ ring.free_count + n + 1 = MTK_DMA_SIZE - 2
        /\ napi.dma - 1 <= hw.sent - 1 /\ hw.sent - 1 <= hw.told - 1 /\ hw.told - 1 <= n
    BY <1>42, EthAssumption
  <2> QED BY <1>5, <1>6, <1>7, <2>1, <2>2 DEF RingConsistent, Uncounted
<1>10. xmit'.pc = "map" => xmit'.need < ring'.free_count
  BY <1>1, <1>5 DEF IndInv, DmaInv
<1> QED BY <1>1, <1>5, <1>7, <1>8, <1>9, <1>10, DataStep DEF IndInv, LockInv, XmitInv

\* CountFreed preserves the invariant: whatever mtk_start_xmit has taken meanwhile,
\* the descriptor that last_free has passed is one more.
LEMMA CountFreedStep == IndInv /\ CountFreed => IndInv'
<1> SUFFICES ASSUME IndInv, CountFreed PROVE IndInv'
  OBVIOUS
<1>1. /\ napi.st = "count" /\ napi' = [napi EXCEPT !.st = "poll"]
      /\ ring' = [ring EXCEPT !.free_count = @ + 1]
      /\ UNCHANGED <<hw, xmit, awake, running, life, work, reset, events>>
  BY DEF CountFreed
<1>2. TypeOK /\ RingConsistent
  BY DEF IndInv
<1>3. /\ Len(ring.buf) \in Nat /\ ring.free_count \in Nat
      /\ ring.free_count + Len(ring.buf) + 1 = MTK_DMA_SIZE - 2
  BY <1>1, <1>2, NumberTypes DEF RingConsistent, Uncounted
<1>4. /\ ring' \in Rings /\ ring'.buf = ring.buf /\ ring'.up = ring.up
      /\ ring'.free_count = ring.free_count + 1
  <2>1. ring.free_count + 1 \in 0 .. MTK_DMA_SIZE - 2
    BY <1>3, EthAssumption
  <2> QED BY <1>1, <1>2, <2>1 DEF TypeOK, Rings
<1>5. napi' \in Napis /\ napi'.st = "poll" /\ napi'.dma = napi.dma
  BY <1>1, <1>2 DEF TypeOK, Napis
<1>6. TypeOK'
  BY <1>1, <1>2, <1>4, <1>5 DEF TypeOK
<1>7. RingConsistent'
  <2>1. ring'.free_count + Len(ring'.buf) + 0 = MTK_DMA_SIZE - 2
    BY <1>3, <1>4
  <2> QED BY <1>1, <1>2, <1>4, <1>5, <2>1 DEF RingConsistent, Uncounted
<1>8. xmit'.pc = "map" => xmit'.need < ring'.free_count
  BY <1>1, <1>2, <1>4, NumberTypes DEF IndInv, DmaInv
<1> QED BY <1>1, <1>4, <1>5, <1>6, <1>7, <1>8, DataStep DEF IndInv, LockInv, XmitInv

\* mtk_napi_tx preserves the invariant.
LEMMA NapiTxStep == IndInv /\ mtk_napi_tx => IndInv'
<1> SUFFICES ASSUME IndInv, mtk_napi_tx PROVE IndInv'
  OBVIOUS
<1>1. /\ napi.st = "poll" /\ mtk_wake_queue
      /\ UNCHANGED <<ring, xmit, running, life, work, reset, events>>
      /\ \/ napi' = [PollEnds EXCEPT !.rearm = TRUE] /\ UNCHANGED hw
         \/ napi' = PollEnds /\ UNCHANGED hw
         \/ napi' = PollBegins /\ hw' = [hw EXCEPT !.done = FALSE]
  BY DEF mtk_napi_tx
<1>2. TypeOK /\ RingConsistent
  BY DEF IndInv
<1>3. awake' \subseteq Netdevs
  BY <1>1, <1>2 DEF TypeOK, mtk_wake_queue
<1>4. hw' \in Engines(Len(ring.buf)) /\ hw'.sent = hw.sent /\ hw'.told = hw.told
  BY <1>1, <1>2 DEF TypeOK, Engines
<1>5. /\ napi' \in Napis /\ napi'.st # "off" /\ napi'.dma \in {0, hw.sent}
      /\ napi'.st # "count" /\ (napi'.st # "poll" => napi'.dma = 0)
  <2>1. 0 \in 0 .. MTK_DMA_SIZE /\ 0 \in 0 .. Budget
    BY EthAssumption
  <2>2. /\ PollEnds \in Napis /\ PollEnds.st = "idle" /\ PollEnds.dma = 0
        /\ [PollEnds EXCEPT !.rearm = TRUE] \in Napis
        /\ [PollEnds EXCEPT !.rearm = TRUE].st = "idle"
        /\ [PollEnds EXCEPT !.rearm = TRUE].dma = 0
    BY <1>2, <2>1 DEF TypeOK, Napis, PollEnds
  <2> QED BY <1>1, <1>2, <2>2, PollBeginsType
<1>6. TypeOK'
  BY <1>1, <1>2, <1>3, <1>4, <1>5 DEF TypeOK
<1>7. RingConsistent'
  BY <1>1, <1>2, <1>4, <1>5, NumberTypes DEF RingConsistent, Uncounted
<1> QED BY <1>1, <1>5, <1>6, <1>7, DataStep DEF IndInv, LockInv, DmaInv, XmitInv

\* mtk_tx_irq_enable preserves the invariant.
LEMMA IrqEnableStep == IndInv /\ mtk_tx_irq_enable => IndInv'
<1> SUFFICES ASSUME IndInv, mtk_tx_irq_enable PROVE IndInv'
  OBVIOUS
<1>1. /\ napi' = [napi EXCEPT !.rearm = FALSE] /\ hw' = [hw EXCEPT !.mask = TRUE]
      /\ UNCHANGED <<ring, xmit, awake, running, life, work, reset, events>>
  BY DEF mtk_tx_irq_enable
<1>2. TypeOK /\ RingConsistent
  BY DEF IndInv
<1>3. hw' \in Engines(Len(ring.buf)) /\ hw'.sent = hw.sent /\ hw'.told = hw.told
  BY <1>1, <1>2 DEF TypeOK, Engines
<1>4. napi' \in Napis /\ napi'.st = napi.st /\ napi'.dma = napi.dma
  BY <1>1, <1>2 DEF TypeOK, Napis
<1>5. TypeOK' /\ RingConsistent'
  BY <1>1, <1>2, <1>3, <1>4 DEF TypeOK, RingConsistent, Uncounted
<1> QED BY <1>1, <1>4, <1>5, DataStep DEF IndInv, LockInv, DmaInv, XmitInv

-----------------------------------------------------------------------------
(* The reset, outside the part with the RTNL.                              *)

\* Asking for a reset and the work's first steps leave the users and the ring alone.
\* They keep the invariant if reset_lock follows the work.
LEMMA WorkOutside ==
  ASSUME IndInv, TypeOK', RingConsistent',
         UNCHANGED <<ring, xmit, napi, running, life>>,
         work'.todo = work.todo,
         (work'.pc = work.pc) \/ (~InReset /\ ~InReset'),
         reset'.resetting = reset.resetting,
         reset'.lock = IF work'.pc = "idle" THEN 0 ELSE 1,
         reset'.force <= events' + 1
  PROVE  IndInv'
<1>1. Users' = Users
  BY DEF Users, Stopping, InReset
<1>2. InReset' <=> InReset
  BY DEF InReset
<1>3. LockInv'
  BY <1>2 DEF IndInv, LockInv
<1>4. DmaInv'
  BY DEF IndInv, DmaInv
<1>5. XmitInv' /\ OrderInv'
  BY <1>1 DEF IndInv, XmitInv, OrderInv, InReset
<1>6. CountInv'
  BY <1>1 DEF IndInv, CountInv, InReset
<1> QED BY <1>3, <1>4, <1>5, <1>6 DEF IndInv

\* mtk_tx_timeout preserves the invariant.
LEMMA TxTimeoutStep ==
  ASSUME NEW d \in Netdevs PROVE IndInv /\ mtk_tx_timeout(d) => IndInv'
<1> SUFFICES ASSUME IndInv, mtk_tx_timeout(d) PROVE IndInv'
  OBVIOUS
<1>1. /\ work' = [work EXCEPT !.pending = TRUE]
      /\ UNCHANGED <<ring, hw, xmit, napi, awake, running, life, reset, events>>
  BY DEF mtk_tx_timeout, Schedule
<1>2. TypeOK /\ RingConsistent'
  BY <1>1 DEF IndInv, RingConsistent, Uncounted
<1>3. work' \in Works /\ work'.todo = work.todo /\ work'.pc = work.pc
  BY <1>1, <1>2 DEF TypeOK, Works
<1>4. TypeOK'
  BY <1>1, <1>2, <1>3 DEF TypeOK
<1>5. reset'.lock = (IF work'.pc = "idle" THEN 0 ELSE 1) /\ reset'.force <= events' + 1
  BY <1>1, <1>3 DEF IndInv, LockInv
<1> QED BY <1>1, <1>2, <1>3, <1>4, <1>5, WorkOutside

\* mtketh_debugfs_reset preserves the invariant: there are as many requests as
\* events, and one of the monitor.
LEMMA DebugfsResetStep == IndInv /\ mtketh_debugfs_reset => IndInv'
<1> SUFFICES ASSUME IndInv, mtketh_debugfs_reset PROVE IndInv'
  OBVIOUS
<1>1. /\ events < MaxEvents /\ events' = events + 1
      /\ work' = [work EXCEPT !.pending = TRUE]
      /\ reset' = [reset EXCEPT !.force = @ + 1]
      /\ UNCHANGED <<ring, hw, xmit, napi, awake, running, life>>
  BY DEF mtketh_debugfs_reset, Schedule, Event
<1>2. TypeOK /\ RingConsistent'
  BY <1>1 DEF IndInv, RingConsistent, Uncounted
<1>3. work' \in Works /\ work'.todo = work.todo /\ work'.pc = work.pc
  BY <1>1, <1>2 DEF TypeOK, Works
<1>4. /\ reset.force \in Nat /\ events \in Nat /\ reset.force <= events + 1
      /\ events' \in 0 .. MaxEvents /\ reset.force + 1 \in 0 .. MaxEvents + 1
  <2>1. reset.force \in Nat /\ events \in Nat /\ MaxEvents \in Nat
    BY <1>2, NumberTypes, EthAssumption
  <2>2. reset.force <= events + 1
    BY DEF IndInv, LockInv
  <2> QED BY <1>1, <2>1, <2>2
<1>5. /\ reset' \in Resets /\ reset'.resetting = reset.resetting /\ reset'.lock = reset.lock
      /\ reset'.force = reset.force + 1
  BY <1>1, <1>2, <1>4 DEF TypeOK, Resets
<1>6. reset'.force <= events' + 1
  BY <1>1, <1>4, <1>5
<1>7. TypeOK'
  BY <1>1, <1>2, <1>3, <1>4, <1>5 DEF TypeOK
<1>8. reset'.lock = IF work'.pc = "idle" THEN 0 ELSE 1
  BY <1>3, <1>5 DEF IndInv, LockInv
<1> QED BY <1>1, <1>2, <1>3, <1>5, <1>6, <1>7, <1>8, WorkOutside

\* mtk_dma_monitor preserves the invariant: it asks only when there is no request.
LEMMA DmaMonitorStep == IndInv /\ mtk_dma_monitor => IndInv'
<1> SUFFICES ASSUME IndInv, mtk_dma_monitor PROVE IndInv'
  OBVIOUS
<1> DEFINE third == hw.hang /\ reset.err_cnt = 2
           ask == third /\ reset.lock = 0 /\ reset.force = 0
           cnt == IF ~hw.hang THEN 0 ELSE IF reset.err_cnt < 4 THEN reset.err_cnt + 1 ELSE 4
           leftover == reset.force > 0 /\ work.pc = "idle" /\ ~work.pending
           force == IF ask THEN reset.force + 1 ELSE reset.force
           missed == reset.missed \/ (third /\ (work.pc = "check" \/ leftover))
<1>1. /\ reset' = [reset EXCEPT !.err_cnt = cnt, !.force = force, !.missed = missed]
      /\ work' = IF ask THEN [work EXCEPT !.pending = TRUE] ELSE work
      /\ UNCHANGED <<ring, hw, xmit, napi, awake, running, life, events>>
  BY DEF mtk_dma_monitor, Schedule
<1>2. TypeOK /\ RingConsistent'
  BY <1>1 DEF IndInv, RingConsistent, Uncounted
<1>3. work' \in Works /\ work'.todo = work.todo /\ work'.pc = work.pc
  BY <1>1, <1>2 DEF TypeOK, Works
<1>4. cnt \in 0 .. 4
  BY <1>2 DEF TypeOK, Resets
<1>5. force \in 0 .. MaxEvents + 1 /\ force <= events + 1
  <2>1. reset.force \in Nat /\ events \in 0 .. MaxEvents /\ MaxEvents \in Nat
    BY <1>2, NumberTypes, EthAssumption DEF TypeOK
  <2>2. reset.force <= events + 1
    BY DEF IndInv, LockInv
  <2> QED BY <2>1, <2>2
<1>6. missed \in BOOLEAN
  BY <1>2 DEF TypeOK, Resets
<1> HIDE DEF cnt, force, missed
<1>7. /\ reset' \in Resets /\ reset'.resetting = reset.resetting /\ reset'.lock = reset.lock
      /\ reset'.force = force
  BY <1>1, <1>2, <1>4, <1>5, <1>6 DEF TypeOK, Resets
<1>8. TypeOK'
  BY <1>1, <1>2, <1>3, <1>7 DEF TypeOK
<1>9. reset'.lock = IF work'.pc = "idle" THEN 0 ELSE 1
  BY <1>3, <1>7 DEF IndInv, LockInv
<1> QED BY <1>1, <1>2, <1>3, <1>5, <1>7, <1>8, <1>9, WorkOutside

\* WorkBegins preserves the invariant: the work takes reset_lock.
LEMMA WorkBeginsStep == IndInv /\ WorkBegins => IndInv'
<1> SUFFICES ASSUME IndInv, WorkBegins PROVE IndInv'
  OBVIOUS
<1>1. /\ work.pc = "idle" /\ work' = [work EXCEPT !.pending = FALSE, !.pc = "check"]
      /\ reset' = [reset EXCEPT !.lock = @ + 1]
      /\ UNCHANGED <<ring, hw, xmit, napi, awake, running, life, events>>
  BY DEF WorkBegins
<1>2. TypeOK /\ RingConsistent'
  BY <1>1 DEF IndInv, RingConsistent, Uncounted
<1>3. work' \in Works /\ work'.todo = work.todo /\ work'.pc = "check"
  BY <1>1, <1>2 DEF TypeOK, Works
<1>4. reset.lock + 1 = 1 /\ reset.force <= events + 1
  BY <1>1 DEF IndInv, LockInv
<1>5. /\ reset' \in Resets /\ reset'.resetting = reset.resetting /\ reset'.lock = 1
      /\ reset'.force = reset.force
  BY <1>1, <1>2, <1>4 DEF TypeOK, Resets
<1>6. TypeOK'
  BY <1>1, <1>2, <1>3, <1>5 DEF TypeOK
<1>7. ~InReset /\ ~InReset'
  BY <1>1, <1>3 DEF InReset
<1> QED BY <1>1, <1>2, <1>3, <1>4, <1>5, <1>6, <1>7, WorkOutside

\* mtk_check_reset_event preserves the invariant: a work that ends gives reset_lock
\* back.
LEMMA CheckResetStep == IndInv /\ mtk_check_reset_event => IndInv'
<1> SUFFICES ASSUME IndInv, mtk_check_reset_event PROVE IndInv'
  OBVIOUS
<1>1. /\ work.pc = "check"
      /\ \/ work' = [work EXCEPT !.pc = "prepare"] /\ UNCHANGED reset
         \/ work' = [work EXCEPT !.pc = "idle"] /\ reset' = [reset EXCEPT !.lock = @ - 1]
      /\ events' = events \/ (events < MaxEvents /\ events' = events + 1)
      /\ UNCHANGED <<ring, hw, xmit, napi, awake, running, life>>
  BY DEF mtk_check_reset_event, Event
<1>2. TypeOK /\ RingConsistent'
  BY <1>1 DEF IndInv, RingConsistent, Uncounted
<1>3. /\ work' \in Works /\ work'.todo = work.todo
      /\ work'.pc \in {"prepare", "idle"}
  BY <1>1, <1>2 DEF TypeOK, Works
<1>4. reset.lock = 1 /\ reset.force <= events + 1
  BY <1>1 DEF IndInv, LockInv
<1>5. /\ reset' \in Resets /\ reset'.resetting = reset.resetting
      /\ reset'.lock = (IF work'.pc = "idle" THEN 0 ELSE 1)
      /\ reset'.force = reset.force
  <2>1. CASE work' = [work EXCEPT !.pc = "prepare"] /\ UNCHANGED reset
    BY <1>2, <1>4, <2>1 DEF TypeOK, Works
  <2>2. CASE work' = [work EXCEPT !.pc = "idle"] /\ reset' = [reset EXCEPT !.lock = @ - 1]
    BY <1>2, <1>4, <2>2 DEF TypeOK, Works, Resets
  <2> QED BY <1>1, <2>1, <2>2
<1>6. events' \in 0 .. MaxEvents /\ reset'.force <= events' + 1
  <2>1. /\ reset.force \in Nat /\ events \in 0 .. MaxEvents /\ MaxEvents \in Nat
        /\ reset.force <= events + 1 /\ reset'.force = reset.force
    BY <1>2, <1>4, <1>5, NumberTypes, EthAssumption DEF TypeOK
  <2>2. CASE events' = events
    BY <2>1, <2>2
  <2>3. CASE events < MaxEvents /\ events' = events + 1
    BY <2>1, <2>3
  <2> QED BY <1>1, <2>2, <2>3
<1>7. TypeOK'
  BY <1>1, <1>2, <1>3, <1>5, <1>6 DEF TypeOK
<1>8. ~InReset /\ ~InReset'
  BY <1>1, <1>3 DEF InReset
<1> QED BY <1>1, <1>2, <1>3, <1>5, <1>6, <1>7, <1>8, WorkOutside

\* mtk_prepare_reset_fe preserves the invariant.
LEMMA PrepareResetStep == IndInv /\ mtk_prepare_reset_fe => IndInv'
<1> SUFFICES ASSUME IndInv, mtk_prepare_reset_fe PROVE IndInv'
  OBVIOUS
<1>1. /\ work.pc = "prepare" /\ work' = [work EXCEPT !.pc = "ser"]
      /\ hw' = [hw EXCEPT !.mask = FALSE, !.en = FALSE] /\ awake' = {}
      /\ UNCHANGED <<ring, xmit, napi, running, life, reset, events>>
  BY DEF mtk_prepare_reset_fe
<1>2. TypeOK /\ RingConsistent
  BY DEF IndInv
<1>3. work' \in Works /\ work'.todo = work.todo /\ work'.pc = "ser"
  BY <1>1, <1>2 DEF TypeOK, Works
<1>4. hw' \in Engines(Len(ring.buf)) /\ hw'.sent = hw.sent /\ hw'.told = hw.told
  BY <1>1, <1>2 DEF TypeOK, Engines
<1>5. TypeOK' /\ RingConsistent'
  BY <1>1, <1>2, <1>3, <1>4 DEF TypeOK, RingConsistent, Uncounted
<1>6. ~InReset /\ ~InReset'
  BY <1>1, <1>3 DEF InReset
<1> QED BY <1>1, <1>3, <1>5, <1>6, WorkOutside DEF IndInv, LockInv

-----------------------------------------------------------------------------
(* mtk_stop and mtk_open.                                                  *)

\* An engine that is set up again or stopped has nothing to send.
LEMMA EngineRestarts ==
  ASSUME NEW n, NEW h \in Engines(n), NEW en \in BOOLEAN, NEW mask \in BOOLEAN
  PROVE  LET e == [h EXCEPT !.en = en, !.told = 0, !.sent = 0, !.mask = mask]
         IN  e \in Engines(0) /\ e.sent = 0 /\ e.told = 0
<1>1. 0 \in 0 .. 0
  OBVIOUS
<1> QED BY <1>1 DEF Engines

\* A packet that has been promised descriptors of a ring finds them in a new one.
LEMMA PromiseKept ==
  ASSUME IndInv, xmit' = xmit, ring'.free_count = MTK_DMA_SIZE - 2
  PROVE  xmit'.pc = "map" => xmit'.need < ring'.free_count
<1>1. ring.free_count \in 0 .. MTK_DMA_SIZE - 2 /\ MTK_DMA_SIZE \in Nat
  BY EthAssumption DEF IndInv, TypeOK, Rings
<1>2. xmit.need \in Nat
  BY NumberTypes DEF IndInv
<1>3. xmit.pc = "map" => xmit.need < ring.free_count
  BY DEF IndInv, DmaInv
<1> QED BY <1>1, <1>2, <1>3

\* dev_close preserves the invariant: until mtk_stop, the netdev counts as a user.
LEMMA DevCloseStep ==
  ASSUME NEW d \in Netdevs PROVE IndInv /\ dev_close(d) => IndInv'
<1> SUFFICES ASSUME IndInv, dev_close(d) PROVE IndInv'
  OBVIOUS
<1>1. /\ life.rtnl = "free" /\ d \in running /\ ~(xmit.pc # "idle" /\ xmit.dev = d)
      /\ events < MaxEvents /\ events' = events + 1 /\ running' = running \ {d}
      /\ life' = [[life EXCEPT !.at = "stop", !.dev = d] EXCEPT !.rtnl = "admin"]
      /\ UNCHANGED <<ring, hw, xmit, napi, awake, work, reset>>
  BY DEF dev_close, InXmit, Event, CallStop
<1>2. TypeOK /\ RingConsistent'
  BY <1>1 DEF IndInv, RingConsistent, Uncounted
<1>3. /\ life' \in Lives /\ life'.rtnl = "admin" /\ life'.at = "stop" /\ life'.dev = d
      /\ life'.refcnt = life.refcnt
  BY <1>1, <1>2 DEF TypeOK, Lives
<1>4. life.at = "none" /\ ~InReset /\ ~InReset'
  BY <1>1 DEF IndInv, LockInv, InReset
<1>5. Users' = Users
  BY <1>1, <1>3, <1>4 DEF Users, Stopping, InReset
<1>6. TypeOK'
  <2>1. events' \in 0 .. MaxEvents
    BY <1>1, <1>2, EthAssumption DEF TypeOK
  <2> QED BY <1>1, <1>2, <1>3, <2>1 DEF TypeOK
<1>7. LockInv'
  <2>1. reset'.force <= events' + 1
    BY <1>1, <1>2, NumberTypes DEF IndInv, LockInv
  <2> QED BY <1>1, <1>3, <1>4, <2>1 DEF IndInv, LockInv
<1>8. DmaInv'
  BY <1>1, <1>3, <1>4 DEF IndInv, DmaInv
<1>9. XmitInv' /\ OrderInv'
  BY <1>1, <1>4, <1>5 DEF IndInv, XmitInv, OrderInv, InReset
<1>10. CountInv'
  BY <1>1, <1>3, <1>4, <1>5 DEF IndInv, CountInv, InReset
<1> QED BY <1>2, <1>6, <1>7, <1>8, <1>9, <1>10 DEF IndInv

\* mtk_stop preserves the invariant: the netdev leaves the users as the count falls,
\* and the last of them keeps the ring for as long as it waits for NAPI.
LEMMA StopStep == IndInv /\ mtk_stop => IndInv'
<1> SUFFICES ASSUME IndInv, mtk_stop PROVE IndInv'
  OBVIOUS
<1>1. /\ life.at = "stop" /\ ~(xmit.pc # "idle" /\ xmit.dev = life.dev)
      /\ awake' = awake \ {life.dev}
      /\ UNCHANGED <<ring, xmit, napi, running, work, reset, events>>
  BY DEF mtk_stop, InXmit
<1>2. TypeOK /\ RingConsistent /\ Users \in SUBSET Netdevs
  BY UsersType DEF IndInv
<1>3. /\ life' \in Lives /\ life'.at # "stop" /\ (InReset => life'.rtnl = life.rtnl)
      /\ \/ life.refcnt # 1 /\ life'.at = "none" /\ life'.rtnl # "admin"
            /\ (life'.rtnl = "work" <=> life.rtnl = "work")
            /\ life'.refcnt = IF life.refcnt = 0 THEN 0 ELSE life.refcnt - 1
         \/ life.refcnt = 1 /\ life'.at = "napi" /\ life'.refcnt = 0
            /\ life'.rtnl = life.rtnl
  <2>1. /\ (IF life.refcnt = 0 THEN 0 ELSE life.refcnt - 1) \in 0 .. MTK_MAC_COUNT
        /\ 0 \in Netdevs /\ 0 \in 0 .. MTK_MAC_COUNT
    BY <1>2, EthAssumption DEF TypeOK, Lives, Netdevs
  <2>2. InReset => life.rtnl = "work"
    BY DEF IndInv, LockInv
  <2>3. CASE /\ life.refcnt # 1
             /\ life' = [Return EXCEPT !.refcnt = IF @ = 0 THEN 0 ELSE @ - 1]
    <3>1. /\ Return \in Lives /\ Return.at = "none" /\ Return.refcnt = life.refcnt
          /\ Return.rtnl = IF life.rtnl = "admin" THEN "free" ELSE life.rtnl
      BY <1>2, <2>1 DEF TypeOK, Lives, Return
    <3> QED BY <2>1, <2>2, <2>3, <3>1 DEF Lives
  <2>4. CASE life.refcnt = 1 /\ life' = [life EXCEPT !.refcnt = 0, !.at = "napi"]
    BY <1>2, <2>1, <2>4 DEF TypeOK, Lives
  <2> QED BY <2>3, <2>4 DEF mtk_stop
<1>4. hw' \in Engines(Len(ring.buf)) /\ hw'.sent = hw.sent /\ hw'.told = hw.told
  BY <1>2 DEF mtk_stop, TypeOK, Engines
<1>5. TypeOK' /\ RingConsistent'
  BY <1>1, <1>2, <1>3, <1>4 DEF TypeOK, RingConsistent, Uncounted
<1>6. InReset' <=> InReset
  BY <1>1 DEF InReset
<1>7. LockInv'
  BY <1>1, <1>3, <1>6 DEF IndInv, LockInv
<1>8. DmaInv'
  BY <1>1, <1>2, <1>3, NumberTypes DEF IndInv, DmaInv
<1>9. /\ work.pc = "open" => Users' = Users
      /\ work.pc # "open" => life.dev \in Users /\ Users' = Users \ {life.dev}
  BY <1>1, <1>2, <1>3 DEF IndInv, LockInv, InReset, Users, Stopping, TypeOK, Lives
<1>10. XmitInv' /\ OrderInv'
  BY <1>1, <1>9 DEF IndInv, XmitInv, OrderInv
<1>11. CountInv'
  <2>1. life.refcnt \in Nat /\ Cardinality(Users) \in Nat
    BY <1>2, NumberTypes, NetdevCount, EthAssumption
  <2>2. CASE work.pc = "open"
    <3>1. Cardinality(Users') = Cardinality(Users)
      BY <1>9, <2>2
    <3> QED BY <1>1, <1>3, <2>1, <2>2, <3>1 DEF IndInv, CountInv
  <2>3. CASE work.pc # "open"
    <3>1. Cardinality(Users') = Cardinality(Users) - 1 /\ Cardinality(Users) # 0
      BY <1>2, <1>9, <2>3, NetdevCount
    <3> QED BY <1>1, <1>3, <2>1, <2>3, <3>1 DEF IndInv, CountInv
  <2> QED BY <2>2, <2>3
<1> QED BY <1>5, <1>7, <1>8, <1>10, <1>11 DEF IndInv

\* mtk_dma_free preserves the invariant: the ring and NAPI go together, and the
\* poll is over.
LEMMA DmaFreeStep == IndInv /\ mtk_dma_free => IndInv'
<1> SUFFICES ASSUME IndInv, mtk_dma_free PROVE IndInv'
  OBVIOUS
<1>1. /\ life.at = "napi" /\ napi.st = "idle" /\ napi' = [napi EXCEPT !.st = "off"]
      /\ ring' = [mtk_tx_alloc EXCEPT !.up = FALSE]
      /\ hw' = [hw EXCEPT !.en = FALSE, !.told = 0, !.sent = 0] /\ life' = Return
      /\ UNCHANGED <<xmit, awake, running, work, reset, events>>
  BY DEF mtk_dma_free
<1>2. TypeOK /\ RingConsistent
  BY DEF IndInv
<1>3. /\ ring' \in Rings /\ ring'.up = FALSE /\ ring'.free_count = MTK_DMA_SIZE - 2
      /\ ring'.buf = <<>> /\ Len(ring'.buf) = 0
  <2>1. MTK_DMA_SIZE - 2 \in 0 .. MTK_DMA_SIZE - 2 /\ <<>> \in Seq({"skb", "dummy"})
    BY EthAssumption
  <2> QED BY <1>1, <2>1 DEF Rings, mtk_tx_alloc
<1>4. hw' \in Engines(0) /\ hw'.sent = 0 /\ hw'.told = 0
  <2>1. hw' = [hw EXCEPT !.en = FALSE, !.told = 0, !.sent = 0, !.mask = hw.mask]
    BY <1>1, <1>2 DEF TypeOK, Engines
  <2>2. hw.mask \in BOOLEAN
    BY <1>2 DEF TypeOK, Engines
  <2> QED BY <1>2, <2>1, <2>2, EngineRestarts DEF TypeOK
<1>5. napi' \in Napis /\ napi'.st = "off" /\ napi'.dma = 0
  BY <1>1, <1>2 DEF TypeOK, Napis, IndInv, DmaInv
<1>6. /\ life' \in Lives /\ life'.at = "none" /\ life'.refcnt = life.refcnt
      /\ life'.rtnl = IF life.rtnl = "admin" THEN "free" ELSE life.rtnl
  <2>1. 0 \in Netdevs
    BY EthAssumption DEF Netdevs
  <2> QED BY <1>1, <1>2, <2>1 DEF TypeOK, Lives, Return
<1>7. TypeOK'
  BY <1>1, <1>2, <1>3, <1>4, <1>5, <1>6, EthAssumption DEF TypeOK
<1>8. RingConsistent'
  BY <1>3, <1>4, <1>5, EthAssumption DEF RingConsistent, Uncounted
<1>9. Users' = Users
  BY <1>1, <1>6 DEF Users, Stopping
<1>10. LockInv'
  BY <1>1, <1>6 DEF IndInv, LockInv, InReset
<1>11. DmaInv'
  <2>1. life'.refcnt = 0
    BY <1>1, <1>6 DEF IndInv, DmaInv
  <2>2. xmit'.pc = "map" => xmit'.need < ring'.free_count
    BY <1>1, <1>3, PromiseKept
  <2> QED BY <1>3, <1>5, <1>6, <2>1, <2>2 DEF DmaInv
<1>12. XmitInv' /\ OrderInv'
  BY <1>1, <1>9 DEF IndInv, XmitInv, OrderInv
<1>13. CountInv'
  BY <1>1, <1>6, <1>9 DEF IndInv, CountInv
<1> QED BY <1>7, <1>8, <1>10, <1>11, <1>12, <1>13 DEF IndInv

\* mtk_open: the first user gets a ring, an engine and a NAPI, the others have one.
LEMMA OpenRing ==
  ASSUME IndInv, NEW d \in Netdevs, mtk_open(d), life.at = "none", xmit' = xmit
  PROVE  /\ ring' \in Rings /\ Len(ring'.buf) < MTK_DMA_SIZE /\ hw' \in Engines(Len(ring'.buf))
         /\ napi' \in Napis /\ RingConsistent' /\ DmaInv'
         /\ life'.at = "none" /\ life'.dev = life.dev /\ life'.rtnl = life.rtnl
         /\ life'.refcnt = life.refcnt + 1
         /\ life.refcnt + 1 <= MTK_MAC_COUNT => life' \in Lives
<1>1. TypeOK /\ RingConsistent
  BY DEF IndInv
<1>2. life' = [life EXCEPT !.refcnt = @ + 1]
  BY DEF mtk_open
<1>3. /\ life'.at = "none" /\ life'.dev = life.dev /\ life'.rtnl = life.rtnl
      /\ life'.refcnt = life.refcnt + 1
      /\ life.refcnt + 1 <= MTK_MAC_COUNT => life' \in Lives
  <2>1. life.refcnt \in Nat /\ MTK_MAC_COUNT \in Nat
    BY <1>1, NumberTypes, EthAssumption
  <2>2. life.refcnt + 1 <= MTK_MAC_COUNT => life.refcnt + 1 \in 0 .. MTK_MAC_COUNT
    BY <2>1
  <2> QED BY <1>1, <1>2, <2>2 DEF TypeOK, Lives
<1>4. life.refcnt \in Nat
  BY <1>1, NumberTypes
<1>5. CASE life.refcnt # 0
  <2>1. UNCHANGED <<ring, hw, napi>>
    BY <1>5 DEF mtk_open
  <2>2. RingConsistent'
    BY <1>1, <2>1 DEF RingConsistent, Uncounted
  <2>3. DmaInv'
    BY <1>3, <1>4, <1>5, <2>1 DEF IndInv, DmaInv
  <2> QED BY <1>1, <1>3, <2>1, <2>2, <2>3 DEF TypeOK
<1>6. CASE life.refcnt = 0
  <2>1. /\ ring' = mtk_tx_alloc
        /\ hw' = [hw EXCEPT !.en = TRUE, !.told = 0, !.sent = 0, !.mask = TRUE]
        /\ napi' = [napi EXCEPT !.st = "idle"]
    BY <1>6 DEF mtk_open
  <2>2. /\ ring' \in Rings /\ ring'.up = TRUE /\ ring'.free_count = MTK_DMA_SIZE - 2
        /\ ring'.buf = <<>> /\ Len(ring'.buf) = 0
    <3>1. MTK_DMA_SIZE - 2 \in 0 .. MTK_DMA_SIZE - 2 /\ <<>> \in Seq({"skb", "dummy"})
      BY EthAssumption
    <3> QED BY <2>1, <3>1 DEF Rings, mtk_tx_alloc
  <2>3. hw' \in Engines(0) /\ hw'.sent = 0 /\ hw'.told = 0
    <3>1. hw' = [hw EXCEPT !.en = TRUE, !.told = 0, !.sent = 0, !.mask = TRUE]
      BY <2>1
    <3> QED BY <1>1, <3>1, EngineRestarts DEF TypeOK
  <2>4. napi.st = "off"
    BY <1>6 DEF IndInv, DmaInv
  <2>5. napi' \in Napis /\ napi'.st = "idle" /\ napi'.dma = 0
    BY <1>1, <2>1, <2>4 DEF TypeOK, Napis, IndInv, DmaInv
  <2>6. RingConsistent'
    BY <2>2, <2>3, <2>5, EthAssumption DEF RingConsistent, Uncounted
  <2>7. xmit'.pc = "map" => xmit'.need < ring'.free_count
    BY <2>2, PromiseKept
  <2>8. DmaInv'
    BY <1>3, <1>6, <2>2, <2>5, <2>7 DEF DmaInv
  <2> QED BY <1>3, <2>2, <2>3, <2>5, <2>6, <2>8, EthAssumption
<1> QED BY <1>5, <1>6

\* dev_open preserves the invariant: the count and the users grow by one.
LEMMA DevOpenStep ==
  ASSUME NEW d \in Netdevs PROVE IndInv /\ dev_open(d) => IndInv'
<1> SUFFICES ASSUME IndInv, dev_open(d) PROVE IndInv'
  OBVIOUS
<1>1. /\ life.rtnl = "free" /\ d \notin running /\ mtk_open(d)
      /\ awake' = awake \cup {d} /\ running' = running \cup {d}
      /\ UNCHANGED <<xmit, work, reset, events>>
  BY DEF dev_open, mtk_open
<1>2. TypeOK /\ Users \in SUBSET Netdevs
  BY UsersType DEF IndInv
<1>3. life.at = "none" /\ ~InReset /\ ~InReset'
  BY <1>1 DEF IndInv, LockInv, InReset
<1>4. /\ ring' \in Rings /\ Len(ring'.buf) < MTK_DMA_SIZE /\ hw' \in Engines(Len(ring'.buf))
      /\ napi' \in Napis /\ RingConsistent' /\ DmaInv'
      /\ life'.at = "none" /\ life'.dev = life.dev /\ life'.rtnl = life.rtnl
      /\ life'.refcnt = life.refcnt + 1
      /\ life.refcnt + 1 <= MTK_MAC_COUNT => life' \in Lives
  BY <1>1, <1>3, OpenRing
<1>5. Users = running /\ Users' = Users \cup {d} /\ d \notin Users
  BY <1>1, <1>3, <1>4 DEF Users, Stopping, InReset
<1>6. /\ Cardinality(Users') = Cardinality(Users) + 1 /\ Cardinality(Users) \in Nat
      /\ Cardinality(Users') <= MTK_MAC_COUNT
  <2>1. Users' \in SUBSET Netdevs
    BY <1>2, <1>5
  <2> QED BY <1>2, <1>5, <2>1, NetdevCount, EthAssumption
<1>7. CountInv'
  <2>1. life.refcnt \in Nat
    BY <1>2, NumberTypes
  <2> QED BY <1>4, <1>6, <2>1 DEF IndInv, CountInv
<1>8. TypeOK'
  <2>1. life' \in Lives
    <3>1. life.refcnt \in Nat /\ life.refcnt <= Cardinality(Users) /\ MTK_MAC_COUNT \in Nat
      BY <1>2, NumberTypes, EthAssumption DEF IndInv, CountInv
    <3> QED BY <1>4, <1>6, <3>1
  <2> QED BY <1>1, <1>2, <1>4, <2>1 DEF TypeOK
<1>9. LockInv'
  BY <1>1, <1>3, <1>4 DEF IndInv, LockInv
<1>10. XmitInv' /\ OrderInv'
  BY <1>1, <1>3, <1>5 DEF IndInv, XmitInv, OrderInv, InReset
<1> QED BY <1>4, <1>7, <1>8, <1>9, <1>10 DEF IndInv

-----------------------------------------------------------------------------
(* The reset, with the RTNL.                                               *)

\* WorkResets preserves the invariant: all that are up are to be stopped.
LEMMA WorkResetsStep == IndInv /\ WorkResets => IndInv'
<1> SUFFICES ASSUME IndInv, WorkResets PROVE IndInv'
  OBVIOUS
<1>1. /\ work.pc = "ser" /\ life.rtnl = "free" /\ life' = [life EXCEPT !.rtnl = "work"]
      /\ reset' = [reset EXCEPT !.resetting = TRUE, !.timer = FALSE]
      /\ work' = [work EXCEPT !.pc = "stop", !.todo = running]
      /\ UNCHANGED <<ring, hw, xmit, napi, awake, running, events>>
  BY DEF WorkResets
<1>2. TypeOK /\ RingConsistent'
  BY <1>1 DEF IndInv, RingConsistent, Uncounted
<1>3. life' \in Lives /\ life'.rtnl = "work" /\ life'.at = life.at /\ life'.dev = life.dev
      /\ life'.refcnt = life.refcnt
  BY <1>1, <1>2 DEF TypeOK, Lives
<1>4. work' \in Works /\ work'.pc = "stop" /\ work'.todo = running
  BY <1>1, <1>2 DEF TypeOK, Works
<1>5. /\ reset' \in Resets /\ reset'.resetting = TRUE /\ reset'.lock = reset.lock
      /\ reset'.force = reset.force
  BY <1>1, <1>2 DEF TypeOK, Resets
<1>6. life.at = "none"
  BY <1>1 DEF IndInv, LockInv
<1>7. TypeOK'
  BY <1>1, <1>2, <1>3, <1>4, <1>5 DEF TypeOK
<1>8. Users' = Users
  BY <1>1, <1>3, <1>4, <1>6 DEF Users, Stopping
<1>9. LockInv'
  BY <1>1, <1>3, <1>4, <1>5, <1>6 DEF IndInv, LockInv, InReset
<1>10. DmaInv'
  BY <1>1, <1>3 DEF IndInv, DmaInv
<1>11. XmitInv' /\ OrderInv'
  BY <1>1, <1>4, <1>8 DEF IndInv, XmitInv, OrderInv
<1>12. CountInv'
  BY <1>3, <1>4, <1>8 DEF IndInv, CountInv
<1> QED BY <1>2, <1>7, <1>9, <1>10, <1>11, <1>12 DEF IndInv

\* WorkStops preserves the invariant: the netdev stays a user until mtk_stop.
LEMMA WorkStopsStep == IndInv /\ WorkStops => IndInv'
<1> SUFFICES ASSUME IndInv, WorkStops PROVE IndInv'
  OBVIOUS
<1> DEFINE d == Lowest(work.todo)
<1>1. /\ work.pc = "stop" /\ life.at = "none" /\ work.todo # {}
      /\ life' = [life EXCEPT !.at = "stop", !.dev = d]
      /\ work' = [work EXCEPT !.todo = @ \ {d}]
      /\ UNCHANGED <<ring, hw, xmit, napi, awake, running, reset, events>>
  BY DEF WorkStops, CallStop
<1>2. TypeOK /\ RingConsistent'
  BY <1>1 DEF IndInv, RingConsistent, Uncounted
<1>3. work.todo \in SUBSET Netdevs
  BY <1>2 DEF TypeOK, Works
<1>4. d \in work.todo /\ d \in Netdevs
  BY <1>1, <1>3, LowestIsLeast
<1> HIDE DEF d
<1>5. life' \in Lives /\ life'.rtnl = life.rtnl /\ life'.at = "stop" /\ life'.dev = d
      /\ life'.refcnt = life.refcnt
  BY <1>1, <1>2, <1>4 DEF TypeOK, Lives
<1>6. work' \in Works /\ work'.pc = "stop" /\ work'.todo = work.todo \ {d}
  BY <1>1, <1>2 DEF TypeOK, Works
<1>7. TypeOK'
  BY <1>1, <1>2, <1>5, <1>6 DEF TypeOK
<1>8. Users' = Users
  BY <1>1, <1>4, <1>5, <1>6 DEF Users, Stopping
<1>9. LockInv'
  BY <1>1, <1>5, <1>6 DEF IndInv, LockInv, InReset
<1>10. DmaInv'
  BY <1>1, <1>5 DEF IndInv, DmaInv
<1>11. XmitInv' /\ OrderInv'
  BY <1>1, <1>6, <1>8 DEF IndInv, XmitInv, OrderInv
<1>12. CountInv'
  BY <1>5, <1>6, <1>8 DEF IndInv, CountInv
<1> QED BY <1>2, <1>7, <1>9, <1>10, <1>11, <1>12 DEF IndInv

\* mtk_hw_init preserves the invariant: nobody uses the engine when it is reset.
LEMMA HwInitStep == IndInv /\ mtk_hw_init => IndInv'
<1> SUFFICES ASSUME IndInv, mtk_hw_init PROVE IndInv'
  OBVIOUS
<1>1. /\ work.pc = "stop" /\ life.at = "none" /\ work.todo = {}
      /\ hw' = [hw EXCEPT !.hang = FALSE, !.mask = FALSE, !.done = FALSE]
      /\ work' = [work EXCEPT !.pc = "open", !.todo = running]
      /\ reset' = [reset EXCEPT !.missed = FALSE]
      /\ UNCHANGED <<ring, xmit, napi, awake, running, life, events>>
  BY DEF mtk_hw_init
<1>2. TypeOK /\ RingConsistent
  BY DEF IndInv
<1>3. work' \in Works /\ work'.pc = "open" /\ work'.todo = running
  BY <1>1, <1>2 DEF TypeOK, Works
<1>4. /\ reset' \in Resets /\ reset'.resetting = reset.resetting /\ reset'.lock = reset.lock
      /\ reset'.force = reset.force
  BY <1>1, <1>2 DEF TypeOK, Resets
<1>5. hw' \in Engines(Len(ring.buf)) /\ hw'.sent = hw.sent /\ hw'.told = hw.told
  BY <1>1, <1>2 DEF TypeOK, Engines
<1>6. TypeOK' /\ RingConsistent'
  BY <1>1, <1>2, <1>3, <1>4, <1>5 DEF TypeOK, RingConsistent, Uncounted
<1>7. Users = {} /\ Users' = {}
  BY <1>1, <1>3 DEF Users, Stopping
<1>8. LockInv'
  BY <1>1, <1>3, <1>4 DEF IndInv, LockInv, InReset
<1>9. DmaInv'
  BY <1>1 DEF IndInv, DmaInv
<1>10. XmitInv' /\ OrderInv'
  BY <1>1, <1>3, <1>7 DEF IndInv, XmitInv, OrderInv
<1>11. CountInv'
  BY <1>1, <1>7 DEF IndInv, CountInv
<1> QED BY <1>6, <1>8, <1>9, <1>10, <1>11 DEF IndInv

\* WorkOpens preserves the invariant: a netdev that opens is a user again, and one
\* that does not, is not one.
LEMMA WorkOpensStep == IndInv /\ WorkOpens => IndInv'
<1> SUFFICES ASSUME IndInv, WorkOpens PROVE IndInv'
  OBVIOUS
<1> DEFINE d == Lowest(work.todo)
<1>1. /\ work.pc = "open" /\ life.at = "none" /\ work.todo # {}
      /\ work' = [work EXCEPT !.todo = @ \ {d}]
      /\ UNCHANGED <<xmit, reset>>
  BY DEF WorkOpens
<1>2. TypeOK /\ Users \in SUBSET Netdevs
  BY UsersType DEF IndInv
<1>3. work.todo \in SUBSET Netdevs /\ work.todo \subseteq running
  BY <1>1, <1>2 DEF TypeOK, Works, IndInv, LockInv, InReset
<1>4. d \in work.todo /\ d \in Netdevs /\ d \in running /\ \A e \in work.todo : d <= e
  BY <1>1, <1>3, LowestIsLeast
<1>5. \/ mtk_open(d) /\ UNCHANGED events
      \/ /\ d \in ReopenFails /\ events < MaxEvents /\ events' = events + 1
         /\ running' = running \ {d} /\ life' = [life EXCEPT !.at = "stop", !.dev = d]
         /\ UNCHANGED <<ring, hw, napi, awake>>
  BY DEF WorkOpens, Event, CallStop
<1> HIDE DEF d
<1>6. work' \in Works /\ work'.pc = "open" /\ work'.todo = work.todo \ {d}
  BY <1>1, <1>2 DEF TypeOK, Works
<1>7. xmit'.pc = "idle" /\ life.rtnl = "work"
  BY <1>1 DEF IndInv, XmitInv, LockInv, InReset
<1>8. CASE mtk_open(d) /\ UNCHANGED events
  <2>1. awake' = awake \cup {d} /\ running' = running
    BY <1>4, <1>8 DEF mtk_open
  <2>2. /\ ring' \in Rings /\ Len(ring'.buf) < MTK_DMA_SIZE
        /\ hw' \in Engines(Len(ring'.buf))
        /\ napi' \in Napis /\ RingConsistent' /\ DmaInv'
        /\ life'.at = "none" /\ life'.dev = life.dev /\ life'.rtnl = life.rtnl
        /\ life'.refcnt = life.refcnt + 1
        /\ life.refcnt + 1 <= MTK_MAC_COUNT => life' \in Lives
    BY <1>1, <1>4, <1>8, OpenRing
  <2>3. Users' = Users \cup {d} /\ d \notin Users
    BY <1>1, <1>4, <1>6, <2>1 DEF Users
  <2>4. /\ Cardinality(Users') = Cardinality(Users) + 1 /\ Cardinality(Users) \in Nat
        /\ Cardinality(Users') <= MTK_MAC_COUNT
    <3>1. Users' \in SUBSET Netdevs
      BY <1>2, <1>4, <2>3
    <3> QED BY <1>2, <1>4, <2>3, <3>1, NetdevCount, EthAssumption
  <2>5. CountInv'
    <3>1. life.refcnt \in Nat
      BY <1>2, NumberTypes
    <3> QED BY <2>2, <2>4, <3>1 DEF IndInv, CountInv
  <2>6. TypeOK'
    <3>1. life.refcnt \in Nat /\ life.refcnt <= Cardinality(Users) /\ MTK_MAC_COUNT \in Nat
      BY <1>2, NumberTypes, EthAssumption DEF IndInv, CountInv
    <3>2. life' \in Lives
      BY <2>2, <2>4, <3>1
    <3> QED BY <1>1, <1>2, <1>4, <1>6, <1>8, <2>1, <2>2, <3>2 DEF TypeOK
  <2>7. LockInv'
    BY <1>1, <1>6, <1>8, <2>1, <2>2 DEF IndInv, LockInv, InReset
  <2>8. XmitInv'
    BY <1>7 DEF XmitInv
  <2>9. OrderInv'
    <3>1. \A e \in running \ work.todo, t \in work.todo : e < t
      BY <1>1 DEF IndInv, OrderInv
    <3>2. running \subseteq Nat
      BY <1>2, EthAssumption DEF TypeOK, Netdevs
    <3>3. ASSUME NEW t \in work.todo \ {d} PROVE d < t
      <4>1. d \in Nat /\ t \in Nat /\ d <= t /\ d # t
        BY <1>3, <1>4, <3>2
      <4> QED BY <4>1
    <3> QED BY <1>3, <1>4, <1>6, <2>1, <3>1, <3>3 DEF OrderInv
  <2> QED BY <2>2, <2>5, <2>6, <2>7, <2>8, <2>9 DEF IndInv
<1>9. CASE /\ d \in ReopenFails /\ events < MaxEvents /\ events' = events + 1
           /\ running' = running \ {d} /\ life' = [life EXCEPT !.at = "stop", !.dev = d]
           /\ UNCHANGED <<ring, hw, napi, awake>>
  <2>1. life' \in Lives /\ life'.at = "stop" /\ life'.dev = d /\ life'.rtnl = life.rtnl
        /\ life'.refcnt = life.refcnt
    BY <1>2, <1>4, <1>9 DEF TypeOK, Lives
  <2>2. TypeOK'
    <3>1. events' \in 0 .. MaxEvents
      BY <1>2, <1>9, EthAssumption DEF TypeOK
    <3> QED BY <1>1, <1>2, <1>6, <1>9, <2>1, <3>1 DEF TypeOK
  <2>3. RingConsistent'
    BY <1>9 DEF IndInv, RingConsistent, Uncounted
  <2>4. Users' = Users
    BY <1>1, <1>4, <1>6, <1>9 DEF Users
  <2>5. LockInv'
    <3>1. reset'.force <= events' + 1
      BY <1>1, <1>2, <1>9, NumberTypes DEF IndInv, LockInv
    <3> QED BY <1>1, <1>3, <1>6, <1>7, <1>9, <2>1, <3>1 DEF IndInv, LockInv, InReset
  <2>6. DmaInv'
    BY <1>1, <1>9, <2>1 DEF IndInv, DmaInv
  <2>7. XmitInv'
    BY <1>7 DEF XmitInv
  <2>8. OrderInv'
    BY <1>1, <1>6, <1>9 DEF IndInv, OrderInv
  <2>9. ReopenFails \subseteq {0} => life.refcnt = 0
    <3> SUFFICES ASSUME ReopenFails \subseteq {0} PROVE life.refcnt = 0
      OBVIOUS
    <3>1. d = 0
      BY <1>9
    <3>2. Users = running \ work.todo /\ running \subseteq Nat
      BY <1>1, <1>2, EthAssumption DEF Users, TypeOK, Netdevs
    <3>3. \A e \in Users : e < 0 /\ e \in Nat
      BY <1>1, <1>4, <3>1, <3>2 DEF IndInv, OrderInv
    <3>4. Cardinality(Users) = 0
      BY <1>2, <3>3, NetdevCount
    <3> QED BY <3>4 DEF IndInv, CountInv
  <2>10. CountInv'
    BY <2>1, <2>4, <2>9 DEF IndInv, CountInv
  <2> QED BY <2>2, <2>3, <2>5, <2>6, <2>7, <2>8, <2>10 DEF IndInv
<1> QED BY <1>5, <1>8, <1>9

\* WorkEnds preserves the invariant: those that are up are the users again.
LEMMA WorkEndsStep == IndInv /\ WorkEnds => IndInv'
<1> SUFFICES ASSUME IndInv, WorkEnds PROVE IndInv'
  OBVIOUS
<1> DEFINE force == IF reset.force > 0 THEN reset.force - 1 ELSE 0
<1>1. /\ work.pc = "open" /\ life.at = "none" /\ work.todo = {}
      /\ reset' = [reset EXCEPT !.lock = @ - 1, !.force = force, !.timer = TRUE,
                                !.resetting = FALSE]
      /\ life' = [life EXCEPT !.rtnl = "free"] /\ work' = [work EXCEPT !.pc = "idle"]
      /\ UNCHANGED <<ring, hw, xmit, napi, awake, running, events>>
  BY DEF WorkEnds
<1>2. TypeOK /\ RingConsistent'
  BY <1>1 DEF IndInv, RingConsistent, Uncounted
<1>3. force \in 0 .. MaxEvents + 1 /\ force <= events + 1
  <2>1. reset.force \in Nat /\ events \in 0 .. MaxEvents /\ MaxEvents \in Nat
    BY <1>2, NumberTypes, EthAssumption DEF TypeOK
  <2>2. reset.force <= events + 1
    BY DEF IndInv, LockInv
  <2> QED BY <2>1, <2>2
<1>4. reset.lock - 1 = 0
  BY <1>1 DEF IndInv, LockInv
<1> HIDE DEF force
<1>5. life' \in Lives /\ life'.rtnl = "free" /\ life'.at = "none" /\ life'.refcnt = life.refcnt
  BY <1>1, <1>2 DEF TypeOK, Lives
<1>6. work' \in Works /\ work'.pc = "idle"
  BY <1>1, <1>2 DEF TypeOK, Works
<1>7. reset' \in Resets /\ reset'.lock = 0 /\ reset'.resetting = FALSE /\ reset'.force = force
  BY <1>1, <1>2, <1>3, <1>4 DEF TypeOK, Resets
<1>8. TypeOK'
  BY <1>1, <1>2, <1>5, <1>6, <1>7 DEF TypeOK
<1>9. Users' = Users
  BY <1>1, <1>5, <1>6 DEF Users, Stopping
<1>10. LockInv'
  BY <1>1, <1>3, <1>5, <1>6, <1>7 DEF LockInv, InReset
<1>11. DmaInv'
  BY <1>1, <1>5 DEF IndInv, DmaInv
<1>12. XmitInv' /\ OrderInv'
  BY <1>1, <1>6 DEF IndInv, XmitInv, OrderInv
<1>13. CountInv'
  BY <1>5, <1>6, <1>9 DEF IndInv, CountInv
<1> QED BY <1>2, <1>8, <1>10, <1>11, <1>12, <1>13 DEF IndInv

-----------------------------------------------------------------------------
(* The theorems.                                                           *)

\* Every step of the driver preserves the invariant.
LEMMA IndInvNext == IndInv /\ [Next]_vars => IndInv'
<1> SUFFICES ASSUME IndInv, [Next]_vars PROVE IndInv'
  OBVIOUS
<1>1. CASE UNCHANGED vars
  <2>1. UNCHANGED <<ring, hw, xmit, napi, awake, running, life, work, reset, events>>
    BY <1>1 DEF vars
  <2>2. TypeOK' /\ RingConsistent'
    BY <2>1 DEF IndInv, TypeOK, RingConsistent, Uncounted
  <2> QED BY <2>1, <2>2, DataStep DEF IndInv, LockInv, DmaInv, XmitInv
<1>2. CASE HwSends \/ HwHangs
  BY <1>2, HwSendsStep, HwHangsStep
<1>3. CASE XmitStep
  BY <1>3, TxMapStep, XmitStopsStep DEF XmitStep
<1>4. CASE mtk_handle_irq_tx \/ NapiStep \/ mtk_tx_irq_enable
  BY <1>4, HandleIrqStep, PollQdmaStep, CountFreedStep, NapiTxStep, IrqEnableStep DEF NapiStep
<1>5. CASE CallStep
  BY <1>5, StopStep, DmaFreeStep DEF CallStep
<1>6. CASE WorkStep
  BY <1>6, WorkBeginsStep, CheckResetStep, PrepareResetStep, WorkResetsStep, WorkStopsStep,
     HwInitStep, WorkOpensStep, WorkEndsStep DEF WorkStep
<1>7. CASE mtk_dma_monitor \/ mtketh_debugfs_reset
  BY <1>7, DmaMonitorStep, DebugfsResetStep
<1>8. ASSUME NEW d \in Netdevs,
             mtk_start_xmit(d) \/ dev_close(d) \/ dev_open(d) \/ mtk_tx_timeout(d)
      PROVE  IndInv'
  BY <1>8, StartXmitStep, DevCloseStep, DevOpenStep, TxTimeoutStep
<1> QED BY <1>1, <1>2, <1>3, <1>4, <1>5, <1>6, <1>7, <1>8 DEF Next

\* Every state of the driver satisfies the invariant.
LEMMA Invariance == Spec => []IndInv
BY IndInvInit, IndInvNext, PTL DEF Spec

\* The variables of the driver keep their types: in particular, mtk_open's count of
\* users does not exceed the netdevs, and mtk_tx_map fills no more than the ring has.
THEOREM TypeCorrect == Spec => []TypeOK
<1>1. IndInv => TypeOK
  BY DEF IndInv
<1> QED BY <1>1, Invariance, PTL

\* mtk_tx_map and mtk_poll_tx_qdma, without a lock between them, keep free_count,
\* the buffers and the engine's positions consistent, through every open, stop and
\* reset.
THEOREM RingStaysConsistent == Spec => []RingConsistent
<1>1. IndInv => RingConsistent
  BY DEF IndInv
<1> QED BY <1>1, Invariance, PTL

\* While dma_refcnt counts its users, each of them has a ring.
LEMMA UserHasRing ==
  ASSUME IndInv, ReopenFails \subseteq {0}, Users # {}
  PROVE  ring.up
<1>1. Users \in SUBSET Netdevs
  BY UsersType DEF IndInv
<1>2. Cardinality(Users) \in Nat /\ Cardinality(Users) # 0
  BY <1>1, NetdevCount, EthAssumption
<1>3. life.refcnt > 0
  BY <1>2 DEF IndInv, CountInv
<1> QED BY <1>3 DEF IndInv, DmaInv

\* mtk_start_xmit maps no packet into a ring that mtk_dma_free has freed, and no
\* poll looks at one, if none but the first netdev fails to open after a reset.
THEOREM RingStaysInUse ==
  ASSUME ReopenFails \subseteq {0}
  PROVE  Spec => []RingInUse
<1>1. IndInv => RingInUse
  <2> SUFFICES ASSUME IndInv PROVE RingInUse
    OBVIOUS
  <2>1. napi.st \in {"poll", "count"} => ring.up
    BY DEF IndInv, DmaInv
  <2>2. xmit.pc = "map" => ring.up
    BY UserHasRing DEF IndInv, XmitInv
  <2> QED BY <2>1, <2>2 DEF RingInUse
<1> QED BY <1>1, Invariance, PTL

\* mtk_stop shuts the engine down for the last user only, under the same condition:
\* outside a reset, a netdev that is up has a ring.
THEOREM UsersKeepDma ==
  ASSUME ReopenFails \subseteq {0}
  PROVE  Spec => []UsersHaveDma
<1>1. IndInv => UsersHaveDma
  <2> SUFFICES ASSUME IndInv, ~reset.resetting, running # {} PROVE ring.up
    BY DEF UsersHaveDma
  <2>1. Users # {}
    BY RunningAreUsers DEF IndInv, LockInv
  <2> QED BY <2>1, UserHasRing
<1> QED BY <1>1, Invariance, PTL
=============================================================================
