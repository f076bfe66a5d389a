---------------------------- MODULE NmbmRefines ----------------------------
(***************************************************************************)
(* The core of NMBM implements the block device of module NmbmDevice.  The *)
(* refinement mapping reads the chip the way the next attach would: what a *)
(* logic block stores is what lies behind the mapping of the info table    *)
(* that would be adopted, so an update of that table must switch the block *)
(* under work, and no other, in one step.                                  *)
(***************************************************************************)
EXTENDS Nmbm

\* What the user of logic block lb makes of contents c.
ValueOf(c, lb) ==
  IF c = Data(lb) THEN "data" ELSE IF c = Blank THEN "blank" ELSE "junk"

\* What lies behind each logic block under mapping m.
StoredUnder(m) ==
  [lb \in LBlocks |-> IF m[lb] = Unmapped THEN "junk" ELSE ValueOf(cell[m[lb]], lb)]

Stored ==
  CHOOSE s \in {StoredUnder(m) :
                  m \in IF Recovered = {} THEN {NoMapping} ELSE MapOf(Recovered)} : TRUE

\* An operation on loc.lb is under way: one of the calls that lead here
\* returns to it.
Operating ==
  /\ pc \notin {"done", "idle", "off"}
  /\ \/ pc \in {"er_try", "er_mapped", "wr_program", "bad_done"}
     \/ loc.mk = "er_mapped"
     \/ loc.uk \in {"er_try", "bad_done", "done"}

Serving == pc \in {"done", "idle"}

Device == INSTANCE NmbmDevice WITH
  Addrs <- LBlocks,
  store <- Stored,
  reads <- [lb \in LBlocks |->
              IF Serving /\ ~ni.protected THEN ValueOf(nmbm_read(lb), lb) ELSE "refused"],
  told <- expect,
  busy <- IF Operating THEN {loc.lb} ELSE {},
  ready <- Operating \/ Serving

\* Every behaviour of the core is one of the block device: each erase, write
\* and mark-bad, with the remaps and table updates inside it, changes the
\* block it is about and no other, and what it reports is on the chip.
ImplementsDevice == Device!DeviceSpec
=============================================================================
