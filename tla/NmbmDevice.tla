----------------------------- MODULE NmbmDevice -----------------------------
(***************************************************************************)
(* What NMBM promises to its users, without a word on how: a block device  *)
(* whose blocks are erased and written one at a time.  The block that an   *)
(* operation is about may end up as anything until the operation returns;  *)
(* every other block keeps its contents whatever happens, power cuts and   *)
(* reboots included.  A device that serves its users shows them what it    *)
(* stores, so that a power cut right now would lose nothing.               *)
(***************************************************************************)
CONSTANT Addrs    \* the logic blocks

VARIABLES
  store,   \* what each block would be found to hold after a power cut now
  reads,   \* what a read returns, or Refused
  told,    \* what the user of each block was told by its last operation
  busy,    \* the block an operation is about, as a set
  ready    \* whether the device is attached

dvars == <<store, reads, told, busy, ready>>

Values == {"blank", "data", "junk"}
Outcomes == {"any", "blank", "data", "bad"}
Refused == [a \in Addrs |-> "refused"]

DeviceInit ==
  /\ store = [a \in Addrs |-> "junk"] /\ reads = Refused
  /\ told = [a \in Addrs |-> "any"] /\ busy = {} /\ ready = FALSE

\* The contents of the block under work may change, those of no other.
OnlyBusyChanges ==
  /\ store' \in [Addrs -> Values]
  /\ UNCHANGED store \/ \A a \in Addrs \ busy : store'[a] = store[a]

\* Reads return what is stored, except for a block reported unusable; a
\* device that protects itself refuses all of them.
Serve ==
  LET shown == reads'
      stored == store'
  IN  \/ shown = Refused
      \/ /\ shown \in [Addrs -> Values]
         /\ \A a \in Addrs : told'[a] # "bad" => shown[a] = stored[a]

\* A device that nobody was promised anything about is set up.
Format ==
  /\ ~ready /\ \A a \in Addrs : told[a] = "any"
  /\ UNCHANGED <<ready, busy, told, reads>>
  /\ store' \in [Addrs -> Values]

Attach ==
  /\ ~ready /\ ready' = TRUE
  /\ UNCHANGED <<busy, told, store>>
  /\ Serve

Begin ==
  /\ ready /\ busy = {}
  /\ \E a \in Addrs : busy' = {a} /\ told' = [told EXCEPT ![a] = "any"]
  /\ reads' = Refused
  /\ UNCHANGED <<ready, store>>

Work ==
  /\ busy # {}
  /\ UNCHANGED <<ready, busy, told, reads>>
  /\ OnlyBusyChanges

\* The operation returns, and what it reports is what is stored.
Finish ==
  /\ busy # {} /\ busy' = {}
  /\ \E a \in busy, o \in Outcomes :
       /\ told' = [told EXCEPT ![a] = o]
       /\ o \in {"blank", "data"} => store'[a] = o
  /\ UNCHANGED ready
  /\ OnlyBusyChanges
  /\ Serve

\* Power is lost, or the device is detached.
Down ==
  /\ ready /\ ready' = FALSE /\ busy' = {}
  /\ UNCHANGED told
  /\ reads' = Refused
  /\ OnlyBusyChanges

DeviceNext == Format \/ Attach \/ Begin \/ Work \/ Finish \/ Down

DeviceSpec == DeviceInit /\ [][DeviceNext]_dvars
=============================================================================
