--------------------------- MODULE NmbmDataProofs ---------------------------
(***************************************************************************)
(* That the data of NMBM's users survives: whatever blocks fail and        *)
(* wherever the power is cut, the table that the next attach adopts leads  *)
(* to what each user was last told, for tables of one block and chips on   *)
(* which bad marks can be written.                                         *)
(***************************************************************************)
EXTENDS NmbmCountProofs

-----------------------------------------------------------------------------
(* The inductive invariant.                                                *)

\* The logic blocks whose users were told what they hold, and what that is.
Pledged == {lb \in LBlocks : expect[lb] \in {"data", "blank"}}
Told(lb) == IF expect[lb] = "data" THEN Data(lb) ELSE Blank

\* Block p, whose states are in st, holds what the user of lb was told.
Serves(lb, p, st) ==
  /\ p # Unmapped /\ p \notin oob /\ cell[p] = Told(lb)
  /\ st[p] # BLOCK_ST_BAD

\* The mapping in memory is one that was on the chip, or is used already.
Mounted == pc \notin Starting \/ pc \in {"search2", "loaded"}

\* Every table on the chip, the mapping in memory and the table being written
\* lead to one and the same block, which holds what the user was told.
PledgeInv ==
  \A lb \in Pledged :
    /\ \A b \in Tables : Serves(lb, TableIn(b).map[lb], TableIn(b).state)
    /\ \A a, b \in Tables : TableIn(a).map[lb] = TableIn(b).map[lb]
    /\ Mounted => /\ Serves(lb, ni.block_mapping[lb], ni.block_state)
                  /\ \A b \in Tables : TableIn(b).map[lb] = ni.block_mapping[lb]
    /\ pc \notin Starting => lb < ni.data_count
    /\ pc \in RangeUser => ni.cache.state[ni.block_mapping[lb]] # BLOCK_ST_BAD

\* A logic block that is given up: its mapping is not saved for its own sake.
Excused(lb) ==
  /\ ni.block_mapping[lb] = Unmapped
  /\ expect[lb] = "bad" \/ (lb = loc.lb /\ loc.uk = "bad_done" /\ pc # "done")

\* The table in block b has the mapping that is in memory.
Synced(b) == \A lb \in LBlocks : TableIn(b).map[lb] = ni.block_mapping[lb] \/ Excused(lb)
AllSynced == \A b \in Tables : Synced(b)

\* Between nmbm_map_block and the end of the update that saves its result.
Remapping == {"map", "map_failed", "er_mapped", "create_map", "create_mapped"}

\* The tables have the mapping in memory, or an update is due; in an update,
\* all but those that its loop is to replace.
SyncInv ==
  /\ Active /\ pc \notin RangeUser =>
       AllSynced \/ (pc \in Remapping \cup {"update"} /\ ni.dirty)
  /\ pc \in Remapping \cup {"er_try"} \/ (pc = "update" /\ loc.uk \in {"map_failed", "er_try"}) =>
       (ni.protected => Tables = {})
  /\ pc \in RangeUser =>
       /\ ni.cache.map = ni.block_mapping
       /\ \A b \in Tables : \/ Synced(b)
                            \/ w.i = 1 /\ b \in Old(w.k)
                            \/ w.k = "u_backup" /\ b = ni.main_ba

\* The loops of nmbm_load_info_table.
Repairs == {"us_main", "us_backup", "rs_front", "rs_next", "rs_erased", "load_ok"}

\* Nothing is promised about the logic block that an operation is about, nor
\* about any while the device is set up.
CallerInv ==
  /\ (loc.mk = "er_mapped" /\ pc # "done") \/ pc \in {"er_try", "wr_program", "map"} =>
       loc.lb \notin Pledged
  /\ loc.mk = "er_mapped" \/ pc \in {"er_try", "wr_program"} =>
       loc.lb < ni.data_count /\ loc.mk # "create_mapped"
  /\ pc \in {"er_try", "wr_program"} => loc.rk # "create_map" /\ w.k # "create_map"
  /\ pc \in {"create_map", "create_mapped"} => Pledged = {}
  /\ loc.mk = "create_mapped" \/ loc.rk = "create_map" \/ w.k = "create_map" => Pledged = {}
  /\ pc = "wr_program" =>
       /\ ni.block_mapping[loc.lb] \notin oob
       /\ ni.block_state[ni.block_mapping[loc.lb]] # BLOCK_ST_BAD
       /\ \A b \in Tables : TableIn(b).state[ni.block_mapping[loc.lb]] # BLOCK_ST_BAD
  /\ loc.uk = "bad_done" =>
       /\ pc \in RangeUser \cup {"update", "bad_done", "done", "off"}
       /\ loc.rk # "create_map" /\ (pc \in RangeUser => w.k \notin Repairs \cup {"create_map"})
       /\ pc # "done" => loc.lb \notin Pledged

\* The tables that memory knows are on the chip; a loop does not touch those
\* it keeps.
StandInv ==
  /\ Active /\ pc \notin RangeUser => {ni.main_ba, ni.backup_ba} \ {0} \subseteq Tables
  /\ pc \in RangeUser => Kept(w.k) \ {0} \subseteq Tables
  /\ pc \in RangeUser /\ w.k \in Writers /\ w.i # 1 => w.start \in Tables
  /\ pc = "erase" => /\ ni.main_ba < w.ba
                     /\ w.limit <= IF w.k = "rs_erased" THEN loc.start ELSE ni.backup_ba
  /\ At("rb_backup") => ni.backup_ba = 0 /\ ni.main_ba < loc.end

DataInv == PledgeInv /\ SyncInv /\ CallerInv /\ StandInv

\* What the other modules prove.
Sound == IndInv /\ LayInv /\ TabInv

-----------------------------------------------------------------------------
(* Lemmas shared by the steps.                                             *)

\* The block p is left alone.
Spared(p) == cell'[p] = cell[p] /\ (p \in oob' => p \in oob)

\* A step that tells no user anything new, puts no table on the chip and
\* leaves the blocks alone that users rely on.
LEMMA PledgeSteady ==
  ASSUME PledgeInv, Shrinks,
         \A lb \in Pledged' : lb \in Pledged /\ expect'[lb] = expect[lb],
         \A lb \in Pledged' : IF Mounted THEN Spared(ni.block_mapping[lb])
                              ELSE \A b \in Tables' : Spared(TableIn(b).map[lb]),
         Mounted' => /\ Mounted
                     /\ \A lb \in Pledged' :
                          /\ ni'.block_mapping[lb] = ni.block_mapping[lb]
                          /\ ni'.block_state[ni.block_mapping[lb]] # BLOCK_ST_BAD,
         pc' \notin Starting => \A lb \in Pledged' : lb < ni'.data_count,
         pc' \in RangeUser => /\ Mounted'
                              /\ \A lb \in Pledged' :
                                   ni'.cache.state[ni.block_mapping[lb]] # BLOCK_ST_BAD
  PROVE  PledgeInv'
<1>1. Tables' \subseteq Tables /\ \A b \in Tables' : TableIn(b)' = TableIn(b)
  BY ShrinkTables
<1> SUFFICES ASSUME NEW lb \in Pledged'
             PROVE  /\ \A b \in Tables' : Serves(lb, TableIn(b).map[lb], TableIn(b).state)'
                    /\ \A a, b \in Tables' : TableIn(a)'.map[lb] = TableIn(b)'.map[lb]
                    /\ Mounted' => /\ Serves(lb, ni.block_mapping[lb], ni.block_state)'
                                   /\ \A b \in Tables' : TableIn(b)'.map[lb] = ni'.block_mapping[lb]
                    /\ pc' \notin Starting => lb < ni'.data_count
                    /\ pc' \in RangeUser =>
                         ni'.cache.state[ni'.block_mapping[lb]] # BLOCK_ST_BAD
  BY DEF PledgeInv
<1>2. lb \in Pledged /\ Told(lb)' = Told(lb)
  BY DEF Told
<1>3. /\ \A b \in Tables : Serves(lb, TableIn(b).map[lb], TableIn(b).state)
      /\ \A a, b \in Tables : TableIn(a).map[lb] = TableIn(b).map[lb]
      /\ Mounted => /\ Serves(lb, ni.block_mapping[lb], ni.block_state)
                    /\ \A b \in Tables : TableIn(b).map[lb] = ni.block_mapping[lb]
  BY <1>2 DEF PledgeInv
<1>4. ASSUME NEW b \in Tables' PROVE Serves(lb, TableIn(b).map[lb], TableIn(b).state)'
  <2>1. b \in Tables /\ TableIn(b)' = TableIn(b)
    BY <1>1
  <2>2. Spared(TableIn(b).map[lb])
    BY <1>3, <2>1
  <2> QED BY <1>2, <1>3, <2>1, <2>2 DEF Serves, Spared
<1>5. Mounted' => /\ Serves(lb, ni.block_mapping[lb], ni.block_state)'
                  /\ \A b \in Tables' : TableIn(b)'.map[lb] = ni'.block_mapping[lb]
  <2> SUFFICES ASSUME Mounted'
               PROVE  /\ Serves(lb, ni.block_mapping[lb], ni.block_state)'
                      /\ \A b \in Tables' : TableIn(b)'.map[lb] = ni'.block_mapping[lb]
    OBVIOUS
  <2>1. Spared(ni.block_mapping[lb]) /\ ni'.block_mapping[lb] = ni.block_mapping[lb]
    OBVIOUS
  <2> QED BY <1>1, <1>2, <1>3, <2>1 DEF Serves, Spared
<1> QED BY <1>1, <1>3, <1>4, <1>5

\* ... and leaves chip, mapping and block states.
LEMMA PledgeQuiet ==
  ASSUME PledgeInv, pc \notin Starting, UNCHANGED <<cell, oob, expect>>,
         ni'.block_mapping = ni.block_mapping, ni'.block_state = ni.block_state,
         ni'.data_count = ni.data_count,
         pc' \in RangeUser => \/ pc \in RangeUser /\ ni'.cache = ni.cache
                              \/ ni'.cache.state = ni.block_state
  PROVE  PledgeInv'
<1>1. Pledged' = Pledged /\ Mounted /\ Shrinks
  BY DEF Pledged, Mounted, Shrinks
<1>2. \A lb \in Pledged : /\ ni.block_state[ni.block_mapping[lb]] # BLOCK_ST_BAD
                          /\ lb < ni.data_count
                          /\ pc \in RangeUser => ni.cache.state[ni.block_mapping[lb]] # BLOCK_ST_BAD
  BY <1>1 DEF PledgeInv, Serves
<1>3. pc' \in RangeUser => Mounted'
  BY DEF RangeUser, Mounted, Starting
<1> QED BY <1>1, <1>2, <1>3, PledgeSteady DEF Spared

\* The power goes off: only the chip counts.
LEMMA PledgeOff ==
  ASSUME PledgeInv, Shrinks, pc' = "off", expect' = expect,
         \A lb \in Pledged : IF Mounted THEN Spared(ni.block_mapping[lb])
                             ELSE \A b \in Tables' : Spared(TableIn(b).map[lb])
  PROVE  PledgeInv'
<1>1. Pledged' = Pledged
  BY DEF Pledged
<1>2. ~Mounted' /\ pc' \in Starting /\ pc' \notin RangeUser
  BY DEF Mounted, Starting, RangeUser
<1> QED BY <1>1, <1>2, PledgeSteady

LEMMA DataOff ==
  ASSUME PledgeInv', PowerOff PROVE DataInv'
<1>1. /\ pc' = "off" /\ loc'.mk = "off" /\ loc'.uk = "off" /\ loc'.rk = "off" /\ w'.k = "off"
  BY DEF PowerOff, L0, W0
<1> QED BY <1>1 DEF DataInv, SyncInv, CallerInv, StandInv, Active, Starting, RangeUser, At, Remapping

\* Without tables and promises there is nothing to keep.
LEMMA NoPledge == ASSUME Pledged' = {} PROVE PledgeInv'
BY DEF PledgeInv

\* What counts for a table's being in sync.
LEMMA SyncedSame ==
  ASSUME NEW b, TableIn(b)' = TableIn(b), ni'.block_mapping = ni.block_mapping,
         expect' = expect, loc'.lb = loc.lb, loc'.uk = loc.uk,
         loc.uk = "bad_done" => pc' # "done", Synced(b)
  PROVE  Synced(b)'
BY DEF Synced, Excused

\* A step of a running loop's caller, or of a loop, that leaves the users'
\* view alone.
LEMMA CallerQuiet ==
  ASSUME CallerInv, expect' = expect, loc'.mk = loc.mk, loc'.lb = loc.lb,
         loc'.uk = loc.uk, loc'.rk \in {loc.rk, "update"}, ni'.data_count = ni.data_count,
         pc \in RangeUser \cup {"update"}, pc' \in RangeUser \cup {"update", "off"},
         w'.k = "create_map" => (pc \in RangeUser /\ w.k = "create_map") \/ loc.rk = "create_map",
         pc' \in RangeUser /\ w'.k \in Repairs => pc \in RangeUser /\ w.k \in Repairs
  PROVE  CallerInv'
<1>1. Pledged' = Pledged
  BY DEF Pledged
<1>2. /\ pc \notin {"done", "er_try", "wr_program", "map", "create_map", "create_mapped", "bad_done"}
      /\ pc' \notin {"done", "er_try", "wr_program", "map", "create_map", "create_mapped", "bad_done"}
  BY DEF RangeUser
<1> QED BY <1>1, <1>2 DEF CallerInv

\* The tables stay as long as their blocks do.
LEMMA SameTables ==
  ASSUME UNCHANGED <<cell, oob>>
  PROVE  Shrinks /\ Tables' = Tables /\ \A b : TableIn(b)' = TableIn(b)
BY DEF Shrinks, Tables, TableIn

LEMMA StandStill ==
  ASSUME StandInv, pc \notin Starting, pc \notin RangeUser, pc' \notin RangeUser,
         Tables \subseteq Tables', ni'.main_ba = ni.main_ba, ni'.backup_ba = ni.backup_ba,
         Active' => Active
  PROVE  StandInv'
BY DEF StandInv, RangeUser, At

\* A logic block is one, and so is what it is mapped to.
LEMMA LogicTypes ==
  ASSUME IndInv
  PROVE  /\ loc.lb \in LBlocks /\ ni \in Instance /\ ni.block_mapping \in Mapping
         /\ ni.block_mapping \in [LBlocks -> Blocks \cup {Unmapped}]
         /\ ni.block_state \in [Blocks -> BlockState] /\ ni.protected \in BOOLEAN
         /\ ni.data_count \in Nat /\ LBlocks \subseteq Nat /\ Blocks \subseteq Nat
         /\ expect \in [LBlocks -> Expected] /\ loc \in Locals
         /\ loc.uk \in UpdateReturn /\ loc.rk \in RebuildReturn /\ loc.mk \in MapReturn
BY GeometryAssumption DEF IndInv, TypeOK, Locals, Instance, Mapping, LBlocks, Blocks

\* What users are told is neither a table nor torn.
LEMMA ToldKind == \A lb : Told(lb).k # "table" /\ Told(lb) # Torn /\ Told(lb) # Signature
<1> TAKE lb
<1>1. Told(lb).k \in {"data", "blank"}
  BY DEF Told, Data, Blank
<1>2. Torn.k = "torn" /\ Signature.k = "signature"
  BY DEF Torn, Signature
<1> QED BY <1>1, <1>2

-----------------------------------------------------------------------------
(* One lemma per action: steps that leave the chip alone.                  *)

LEMMA MapBlockData ==
  ASSUME Sound, DataInv, nmbm_map_block PROVE DataInv'
<1>1. /\ pc = "map" /\ pc \notin Starting /\ pc \notin RangeUser
      /\ UNCHANGED <<cell, oob, expect, w>> /\ pc' \in {loc.mk, "update"}
  BY DEF nmbm_map_block, chip, hist, Starting, RangeUser
<1>2. PICK ok \in BOOLEAN, uk \in UpdateReturn, pb \in Blocks \cup {Unmapped}, top \in Int :
        /\ loc'.ok = ok \/ TRUE
        /\ loc'.uk = loc.uk \/ (pc' = "update" /\ loc'.uk = "map_failed")
        /\ pc' = loc.mk \/ loc'.uk = "map_failed"
        /\ loc'.mk = loc.mk /\ loc'.lb = loc.lb /\ loc'.rk = loc.rk
        /\ \/ ni' = ni
           \/ /\ ni' = [ni EXCEPT !.block_mapping[loc.lb] = pb, !.top_ba = top, !.dirty = TRUE]
              /\ pc' = loc.mk /\ loc'.uk = loc.uk
  <2>1. loc \in Locals /\ ni \in Instance
    BY LogicTypes DEF Sound
  <2>2. CASE ni.map_ba = ni.top_ba /\ loc' = [loc EXCEPT !.ok = FALSE] /\ pc' = loc.mk /\ ni' = ni
    BY <2>1, <2>2 DEF Locals
  <2>3. CASE loc' = [loc EXCEPT !.uk = "map_failed"] /\ pc' = "update" /\ ni' = ni
    BY <2>1, <2>3 DEF Locals
  <2>4. CASE /\ \E pb \in nmbm_block_walk_desc(ni.block_state, ni.top_ba, 0, ni.map_ba) :
                  ni' = [ni EXCEPT !.block_mapping[loc.lb] = pb, !.top_ba = @ - 1, !.dirty = TRUE]
             /\ loc' = [loc EXCEPT !.ok = TRUE] /\ pc' = loc.mk
    <3>1. PICK pb \in nmbm_block_walk_desc(ni.block_state, ni.top_ba, 0, ni.map_ba) :
            ni' = [ni EXCEPT !.block_mapping[loc.lb] = pb, !.top_ba = @ - 1, !.dirty = TRUE]
      BY <2>4
    <3>2. ni.map_ba \in Area(ni) /\ ni.top_ba \in Area(ni) /\ ni.sig_ba \in Blocks
      BY <1>1, <2>1 DEF Sound, IndInv, TableInv, SparesIn, Instance
    <3>3. pb \in Blocks /\ ni.top_ba - 1 \in Int
      <4>1. pb \in ni.map_ba + 1 .. ni.top_ba
        BY DEF nmbm_block_walk_desc, GoodIn
      <4> QED BY <3>2, <4>1, GeometryAssumption DEF Area, Blocks
    <3> QED BY <2>1, <2>4, <3>1, <3>3 DEF Locals
  <2> QED BY <1>1, <2>2, <2>3, <2>4 DEF nmbm_map_block
<1>3. /\ loc.lb \in LBlocks /\ ni \in Instance /\ ni.block_mapping \in [LBlocks -> Blocks \cup {Unmapped}]
      /\ loc.mk \in MapReturn
  BY LogicTypes DEF Sound
<1>4. /\ ni'.block_state = ni.block_state /\ ni'.data_count = ni.data_count
      /\ ni'.protected = ni.protected /\ ni'.main_ba = ni.main_ba /\ ni'.backup_ba = ni.backup_ba
      /\ \A lb \in LBlocks : lb # loc.lb => ni'.block_mapping[lb] = ni.block_mapping[lb]
      /\ ni' = ni \/ ni'.dirty
  BY <1>2, <1>3 DEF Instance
<1>5. Tables' = Tables /\ Shrinks /\ (\A b : TableIn(b)' = TableIn(b)) /\ Pledged' = Pledged
  BY <1>1, SameTables DEF Pledged
<1>6. loc.lb \notin Pledged /\ loc.uk # "bad_done" /\ Pledged \subseteq LBlocks
  BY <1>1 DEF DataInv, CallerInv, Pledged, RangeUser
<1>7. pc' \notin RangeUser /\ pc' \notin Starting \ {"off"} /\ pc' # "done"
  BY <1>1, <1>3 DEF MapReturn, RangeUser, Starting
<1>8. PledgeInv'
  <2>1. Mounted
    BY <1>1 DEF Mounted
  <2>2. \A lb \in Pledged : /\ ni'.block_mapping[lb] = ni.block_mapping[lb]
                            /\ ni.block_state[ni.block_mapping[lb]] # BLOCK_ST_BAD
                            /\ lb < ni.data_count
    BY <1>1, <1>4, <1>6, <2>1 DEF DataInv, PledgeInv, Serves
  <2> QED BY <1>1, <1>4, <1>5, <1>7, <2>1, <2>2, PledgeSteady DEF DataInv, Spared
<1>9. SyncInv'
  <2>1. Active' => Active
    BY <1>1, <1>4 DEF Active
  <2>2. AllSynced /\ ni' = ni => AllSynced'
    BY <1>1, <1>2, <1>5, <1>6 DEF AllSynced, Synced, Excused
  <2>3. Active' => AllSynced' \/ (pc' \in Remapping \cup {"update"} /\ ni'.dirty)
    <3>1. ASSUME Active' PROVE pc' \in Remapping \cup {"update"}
      BY <1>1, <1>3, <3>1 DEF MapReturn, Remapping, Active, Starting
    <3>2. ASSUME Active', ni' = ni PROVE AllSynced' \/ ni'.dirty
      <4>1. AllSynced \/ ni.dirty
        BY <1>1, <2>1, <3>2 DEF DataInv, SyncInv
      <4> QED BY <2>2, <3>2, <4>1
    <3> QED BY <1>4, <3>1, <3>2
  <2>4. ni'.protected => Tables' = {}
    BY <1>1, <1>4, <1>5 DEF DataInv, SyncInv, Remapping
  <2> QED BY <1>7, <2>3, <2>4 DEF SyncInv
<1>10. CallerInv'
  BY <1>1, <1>2, <1>3, <1>4, <1>5, <1>6, <1>7 DEF DataInv, CallerInv, MapReturn
<1>11. StandInv'
  BY <1>1, <1>4, <1>5, <1>7, StandStill DEF DataInv, Active
<1> QED BY <1>8, <1>9, <1>10, <1>11 DEF DataInv

\* A step outside the loops that changes neither chip nor mapping nor tables,
\* and takes no promise back or some.
LEMMA PlainData ==
  ASSUME DataInv, pc \notin Starting, pc \notin RangeUser,
         pc' \notin RangeUser, pc' \notin Starting \ {"off"}, UNCHANGED <<cell, oob>>,
         \A lb \in Pledged' : lb \in Pledged /\ expect'[lb] = expect[lb],
         \A lb \in Pledged' : ni'.block_mapping[lb] = ni.block_mapping[lb],
         ni'.block_state = ni.block_state,
         Pledged' = {} \/ ni'.data_count = ni.data_count,
         ni'.main_ba = ni.main_ba, ni'.backup_ba = ni.backup_ba, Active' => Active,
         SyncInv', CallerInv'
  PROVE  DataInv'
<1>1. Mounted /\ Shrinks /\ Tables' = Tables
  BY SameTables DEF Mounted
<1>2. \A lb \in Pledged : /\ ni.block_state[ni.block_mapping[lb]] # BLOCK_ST_BAD
                          /\ lb < ni.data_count
  BY <1>1 DEF DataInv, PledgeInv, Serves
<1>3. PledgeInv'
  <2>1. CASE Pledged' = {}
    BY <2>1, NoPledge
  <2>2. CASE Pledged' # {}
    <3>1. ni'.data_count = ni.data_count
      BY <2>2
    <3> QED BY <1>1, <1>2, <3>1, PledgeSteady DEF DataInv, Spared
  <2> QED BY <2>1, <2>2
<1>4. StandInv'
  BY <1>1, StandStill DEF DataInv
<1> QED BY <1>3, <1>4 DEF DataInv

\* What is in sync stays so while no logic block loses its excuse.
LEMMA StillSynced ==
  ASSUME AllSynced, UNCHANGED <<cell, oob>>,
         \A lb \in LBlocks : \/ Excused(lb)'
                             \/ ~Excused(lb) /\ ni'.block_mapping[lb] = ni.block_mapping[lb]
  PROVE  AllSynced'
<1>1. Tables' = Tables /\ \A b : TableIn(b)' = TableIn(b)
  BY SameTables
<1> QED BY <1>1 DEF AllSynced, Synced

LEMMA MapFailedData ==
  ASSUME Sound, DataInv, MapFailed PROVE DataInv'
<1>1. /\ pc = "map_failed" /\ pc \notin Starting /\ pc \notin RangeUser
      /\ UNCHANGED <<cell, oob, expect, w>> /\ pc' = loc.mk
  BY DEF MapFailed, chip, hist, Starting, RangeUser
<1>2. loc \in Locals /\ ni \in Instance /\ loc.mk \in MapReturn
  BY LogicTypes DEF Sound
<1>3. /\ loc'.mk = loc.mk /\ loc'.lb = loc.lb /\ loc'.rk = loc.rk /\ loc'.uk = loc.uk
      /\ ni'.block_state = ni.block_state /\ ni'.data_count = ni.data_count
      /\ ni'.block_mapping = ni.block_mapping /\ ni'.dirty = ni.dirty
      /\ ni'.protected = ni.protected /\ ni'.main_ba = ni.main_ba /\ ni'.backup_ba = ni.backup_ba
  BY <1>2 DEF MapFailed, Instance, Locals
<1>4. loc.uk # "bad_done"
  BY <1>1 DEF DataInv, CallerInv, RangeUser
<1>5. pc' \in {"off", "create_mapped", "er_mapped"}
  BY <1>1, <1>2 DEF MapReturn
<1>6. pc' \notin RangeUser /\ pc' \notin Starting \ {"off"} /\ (Active' => Active)
  BY <1>1, <1>3, <1>5 DEF RangeUser, Starting, Active
<1>7. Tables' = Tables /\ Pledged' = Pledged
  BY <1>1, SameTables DEF Pledged
<1>8. SyncInv'
  <2>1. AllSynced => AllSynced'
    BY <1>1, <1>3, <1>4, StillSynced DEF Excused
  <2>2. Active' => AllSynced' \/ (pc' \in Remapping /\ ni'.dirty)
    BY <1>1, <1>3, <1>5, <1>6, <2>1 DEF DataInv, SyncInv, Remapping, Active, Starting
  <2>3. ni'.protected => Tables' = {}
    BY <1>1, <1>3, <1>7 DEF DataInv, SyncInv, Remapping
  <2> QED BY <1>6, <2>2, <2>3 DEF SyncInv
<1>9. CallerInv'
  BY <1>1, <1>3, <1>4, <1>5, <1>7 DEF DataInv, CallerInv
<1> QED BY <1>1, <1>3, <1>6, <1>7, <1>8, <1>9, PlainData

\* The loop of nmbm_create_new: no user has been told anything yet.
LEMMA CreateData ==
  ASSUME Sound, Sound', DataInv, CreateMap \/ CreateMapped PROVE DataInv'
<1>1. /\ pc \in {"create_map", "create_mapped"} /\ pc \notin Starting /\ pc \notin RangeUser
      /\ UNCHANGED <<cell, oob, expect, w>> /\ pc' \in {"map", "update", "create_map"}
  BY DEF CreateMap, CreateMapped, chip, hist, Starting, RangeUser
<1>2. loc \in Locals /\ ni \in Instance
  BY LogicTypes DEF Sound
<1>3. /\ loc'.rk = loc.rk /\ loc'.mk \in {loc.mk, "create_mapped"}
      /\ \/ loc'.uk = loc.uk /\ pc' # "update"
         \/ loc'.uk = "create_done"
      /\ loc'.lb = loc.lb \/ loc.uk # "bad_done"
      /\ ni'.block_state = ni.block_state
      /\ ni'.block_mapping = ni.block_mapping /\ ni'.dirty = ni.dirty
      /\ ni'.protected = ni.protected /\ ni'.main_ba = ni.main_ba /\ ni'.backup_ba = ni.backup_ba
  BY <1>1, <1>2 DEF CreateMap, CreateMapped, Instance, Locals, DataInv, CallerInv, RangeUser
<1>4. loc.uk # "bad_done" /\ Pledged = {} /\ loc.mk # "er_mapped"
  <2>1. loc.uk # "bad_done"
    BY <1>1 DEF DataInv, CallerInv, RangeUser
  <2>2. Pledged = {}
    BY <1>1 DEF DataInv, CallerInv
  <2>3. loc.mk # "er_mapped"
    BY <1>1 DEF Sound, IndInv, ReturnInv
  <2> QED BY <2>1, <2>2, <2>3
<1>6. pc' \notin RangeUser /\ pc' \notin Starting \ {"off"} /\ (Active' => Active)
  BY <1>1, <1>3 DEF RangeUser, Starting, Active
<1>7. Tables' = Tables /\ Pledged' = {}
  BY <1>1, <1>4, SameTables DEF Pledged
<1>8. SyncInv'
  <2>1. AllSynced => AllSynced'
    BY <1>1, <1>3, <1>4, StillSynced DEF Excused
  <2>2. Active' => AllSynced' \/ (pc' \in Remapping \cup {"update"} /\ ni'.dirty)
    BY <1>1, <1>3, <1>6, <2>1 DEF DataInv, SyncInv, Remapping
  <2>3. ni'.protected => Tables' = {}
    BY <1>1, <1>3, <1>7 DEF DataInv, SyncInv, Remapping
  <2> QED BY <1>6, <2>2, <2>3 DEF SyncInv
<1>9. CallerInv'
  BY <1>1, <1>3, <1>4, <1>7 DEF DataInv, CallerInv
<1> QED BY <1>1, <1>3, <1>6, <1>7, <1>8, <1>9, PlainData

\* The end of an attach.
LEMMA LoadDoneData ==
  ASSUME Sound, DataInv, LoadDone \/ (CreateDone /\ ~PowerOff) PROVE DataInv'
<1>1. /\ pc \in {"load_ok", "load_failed", "create_done"}
      /\ pc \notin Starting /\ pc \notin RangeUser /\ pc \notin Remapping
      /\ UNCHANGED <<cell, oob, expect, w, loc>> /\ pc' = "done"
  BY DEF LoadDone, CreateDone, chip, hist, Starting, RangeUser, Remapping
<1>2. loc \in Locals /\ ni \in Instance
  BY LogicTypes DEF Sound
<1>3. /\ ni'.block_state = ni.block_state /\ ni'.data_count = ni.data_count
      /\ ni'.block_mapping = ni.block_mapping /\ ni'.dirty = ni.dirty
      /\ ni'.main_ba = ni.main_ba /\ ni'.backup_ba = ni.backup_ba
      /\ ni.protected \/ pc = "load_failed" => ni'.protected
  BY <1>2 DEF LoadDone, CreateDone, Instance
<1>4. loc.uk # "bad_done"
  BY <1>1 DEF DataInv, CallerInv, RangeUser
<1>6. pc' \notin RangeUser /\ pc' \notin Starting \ {"off"} /\ (Active' => Active)
  BY <1>1, <1>3 DEF RangeUser, Starting, Active
<1>7. Tables' = Tables /\ Pledged' = Pledged
  BY <1>1, SameTables DEF Pledged
<1>8. SyncInv'
  <2>1. AllSynced => AllSynced'
    BY <1>1, <1>3, <1>4, StillSynced DEF Excused
  <2>2. Active' => AllSynced'
    BY <1>1, <1>3, <1>6, <2>1 DEF DataInv, SyncInv
  <2> QED BY <1>1, <1>6, <2>2 DEF SyncInv, Remapping
<1>9. CallerInv'
  BY <1>1, <1>3, <1>4, <1>7 DEF DataInv, CallerInv
<1> QED BY <1>1, <1>3, <1>6, <1>7, <1>8, <1>9, PlainData

\* The power is off after a failed attach or a detach.
LEMMA QuietOffData ==
  ASSUME DataInv, PowerOff, UNCHANGED <<cell, oob, expect>> PROVE DataInv'
<1>1. Shrinks /\ pc' = "off"
  BY SameTables DEF PowerOff
<1> QED BY <1>1, PledgeOff, DataOff DEF DataInv, Spared

\* The beginning and the end of an operation.
LEMMA BeginData ==
  ASSUME Sound, DataInv, EraseBegin \/ WriteBegin PROVE DataInv'
<1>1. /\ pc = "idle" /\ pc \notin Starting /\ pc \notin RangeUser /\ pc \notin Remapping
      /\ ~ni.protected /\ UNCHANGED <<cell, oob, ni, w>> /\ pc' \in {"er_try", "wr_program"}
  BY DEF EraseBegin, WriteBegin, Begin, Idle, chip, Starting, RangeUser, Remapping
<1>2. /\ ni \in Instance /\ loc = L0 /\ w = W0 /\ expect \in [LBlocks -> Expected]
  BY <1>1, LogicTypes DEF Sound, IndInv, ReturnInv
<1>3. PICK lb \in LBlocks :
        /\ lb < ni.data_count /\ ni.block_mapping[lb] # Unmapped
        /\ expect' = [expect EXCEPT ![lb] = "any"] /\ loc' = [loc EXCEPT !.lb = lb]
        /\ pc' = "wr_program" => expect[lb] = "blank"
  BY DEF EraseBegin, WriteBegin, Begin
<1>4. /\ loc'.lb = lb /\ loc'.uk = "off" /\ loc'.rk = "off" /\ loc'.mk = "off" /\ w'.k = "off"
      /\ loc.uk = "off"
  BY <1>1, <1>2, <1>3 DEF L0, W0
<1>5. /\ lb \notin Pledged' /\ Pledged' \subseteq Pledged
      /\ \A l \in LBlocks : l # lb => expect'[l] = expect[l]
  BY <1>2, <1>3 DEF Pledged
<1>6. pc' \notin RangeUser /\ pc' \notin Starting /\ pc' \notin Remapping /\ pc' # "update"
      /\ (Active' => Active)
  BY <1>1 DEF RangeUser, Starting, Active, Remapping
<1>7. Tables' = Tables /\ \A b : TableIn(b)' = TableIn(b)
  BY <1>1, SameTables
<1>8. SyncInv'
  <2>1. AllSynced => AllSynced'
    BY <1>1, <1>3, <1>4, <1>5, StillSynced DEF Excused
  <2>2. Active' => AllSynced'
    BY <1>1, <1>6, <2>1 DEF DataInv, SyncInv
  <2> QED BY <1>1, <1>6, <2>2 DEF SyncInv
<1>9. pc' = "wr_program" =>
        /\ ni.block_mapping[lb] \notin oob
        /\ ni.block_state[ni.block_mapping[lb]] # BLOCK_ST_BAD
        /\ \A b \in Tables : TableIn(b).state[ni.block_mapping[lb]] # BLOCK_ST_BAD
  <2> SUFFICES ASSUME pc' = "wr_program"
               PROVE  /\ ni.block_mapping[lb] \notin oob
                      /\ ni.block_state[ni.block_mapping[lb]] # BLOCK_ST_BAD
                      /\ \A b \in Tables : TableIn(b).state[ni.block_mapping[lb]] # BLOCK_ST_BAD
    OBVIOUS
  <2>1. lb \in Pledged /\ Mounted
    BY <1>1, <1>3 DEF Pledged, Mounted
  <2>2. /\ Serves(lb, ni.block_mapping[lb], ni.block_state)
        /\ \A b \in Tables : /\ TableIn(b).map[lb] = ni.block_mapping[lb]
                             /\ Serves(lb, TableIn(b).map[lb], TableIn(b).state)
    BY <2>1 DEF DataInv, PledgeInv
  <2> QED BY <2>2 DEF Serves
<1>10. CallerInv'
  BY <1>1, <1>3, <1>4, <1>5, <1>6, <1>7, <1>9 DEF CallerInv
<1>11. \A l \in Pledged' : l \in Pledged /\ expect'[l] = expect[l]
  BY <1>5 DEF Pledged
<1> QED BY <1>1, <1>6, <1>8, <1>10, <1>11, PlainData

LEMMA EndData ==
  ASSUME Sound, DataInv, BadDone \/ OperationDone \/ nmbm_detach PROVE DataInv'
<1>1. /\ pc \in {"bad_done", "done", "idle"}
      /\ pc \notin Starting /\ pc \notin RangeUser /\ pc \notin Remapping
      /\ UNCHANGED <<cell, oob, ni>> /\ pc' \in {"done", "idle", "update"}
  BY DEF BadDone, OperationDone, nmbm_detach, chip, Starting, RangeUser, Remapping
<1>2. /\ loc \in Locals /\ ni \in Instance /\ loc.lb \in LBlocks /\ expect \in [LBlocks -> Expected]
  BY LogicTypes DEF Sound
<1>3. pc' \notin RangeUser /\ pc' \notin Starting /\ pc' \notin Remapping /\ (Active' => Active)
  BY <1>1 DEF RangeUser, Starting, Active, Remapping
<1>4. \/ /\ BadDone /\ loc' = loc /\ w' = w /\ pc' = "done"
         /\ expect' = [expect EXCEPT ![loc.lb] = "bad"]
      \/ /\ OperationDone /\ loc' = L0 /\ w' = W0 /\ expect' = expect
         /\ pc = "done" /\ pc' = "idle"
      \/ /\ nmbm_detach /\ loc = L0 /\ w = W0 /\ w' = w /\ expect' = expect
         /\ loc' = [loc EXCEPT !.uk = "detached"] /\ pc' = "update"
  BY DEF BadDone, OperationDone, nmbm_detach, hist, Sound, IndInv, ReturnInv
<1>5. \A l \in Pledged' : l \in Pledged /\ expect'[l] = expect[l]
  BY <1>2, <1>4 DEF Pledged
<1>6. AllSynced => AllSynced'
  <2>1. \A l \in LBlocks : Excused(l) => Excused(l)'
    BY <1>1, <1>2, <1>4 DEF Excused, L0
  <2> QED BY <1>1, <2>1, StillSynced
<1>7. SyncInv'
  <2>1. Active' => AllSynced'
    BY <1>1, <1>3, <1>6 DEF DataInv, SyncInv
  <2>2. pc' = "update" => loc'.uk = "detached"
    BY <1>4 DEF L0
  <2> QED BY <1>1, <1>3, <2>1, <2>2 DEF SyncInv
<1>8. CallerInv'
  <2>1. CASE pc' = "done" /\ loc' = loc /\ w' = w
    <3>1. Pledged' \subseteq Pledged
      BY <1>5
    <3> QED BY <1>1, <1>3, <2>1, <3>1 DEF DataInv, CallerInv
  <2>2. CASE pc' \in {"idle", "update"} /\ loc' = L0 /\ w' = W0
    BY <2>2 DEF CallerInv, L0, W0
  <2>3. CASE pc' = "update" /\ w' = W0 /\ loc' = [L0 EXCEPT !.uk = "detached"]
    BY <2>3 DEF CallerInv, L0, W0
  <2> QED BY <1>4, <2>1, <2>2, <2>3
<1> QED BY <1>1, <1>3, <1>5, <1>7, <1>8, PlainData

\* Back from nmbm_map_block in an erase.
LEMMA EraseMappedData ==
  ASSUME Sound, DataInv, EraseMapped PROVE DataInv'
<1>1. /\ pc = "er_mapped" /\ pc \notin Starting /\ pc \notin RangeUser
      /\ UNCHANGED <<cell, oob, expect, w>> /\ pc' = "update"
  BY DEF EraseMapped, chip, hist, Starting, RangeUser
<1>2. /\ loc \in Locals /\ ni \in Instance /\ loc.lb \in LBlocks /\ loc.pb \in Blocks
      /\ ni.block_mapping \in [LBlocks -> Blocks \cup {Unmapped}]
  BY LogicTypes DEF Sound, Locals
<1>3. loc.mk = "er_mapped" /\ loc.rk # "create_map" /\ w.k # "create_map"
  BY <1>1 DEF Sound, IndInv, ReturnInv
<1>4. ~Good(loc.pb)
  BY <1>3 DEF Sound, TabInv, UserInv
<1>5. loc.uk # "bad_done" /\ loc.lb \notin Pledged /\ loc.lb < ni.data_count
  BY <1>1, <1>3 DEF DataInv, CallerInv, RangeUser
<1> DEFINE n == IF ni.block_state[loc.pb] # BLOCK_ST_NEED_REMAP
                  THEN nmbm_set_block_state(ni, {loc.pb}, BLOCK_ST_BAD) ELSE ni
<1>6. n.block_state = ni.block_state /\ n.dirty = ni.dirty
  <2>1. CASE ni.block_state[loc.pb] = BLOCK_ST_NEED_REMAP
    BY <2>1
  <2>2. CASE ni.block_state[loc.pb] # BLOCK_ST_NEED_REMAP
    <3>1. ni.block_state \in [Blocks -> BlockState] /\ ni.dirty \in BOOLEAN
      BY <1>2 DEF Instance
    <3>2. ni.block_state[loc.pb] = BLOCK_ST_BAD
      BY <1>2, <1>4, <2>2, <3>1 DEF BlockState, Good
    <3> QED BY <1>2, <2>2, <3>1, <3>2 DEF nmbm_set_block_state, Instance
  <2> QED BY <2>1, <2>2
<1>7. /\ n \in Instance /\ n.main_ba = ni.main_ba /\ n.backup_ba = ni.backup_ba
      /\ n.protected = ni.protected /\ n.block_mapping = ni.block_mapping
  BY <1>2, SetStateRest DEF BlockState
<1>8. n.data_count = ni.data_count
  BY <1>2 DEF nmbm_set_block_state, Instance
<1>9. \/ /\ loc.ok /\ ni' = n /\ loc' = [loc EXCEPT !.uk = "er_try"]
      \/ /\ ni' = [n EXCEPT !.block_mapping[loc.lb] = Unmapped]
         /\ loc' = [loc EXCEPT !.uk = "bad_done"]
  BY DEF EraseMapped
<1> HIDE DEF n
<1>10. /\ ni'.block_state = ni.block_state /\ ni'.data_count = ni.data_count
       /\ ni'.dirty = ni.dirty /\ ni'.protected = ni.protected
       /\ ni'.main_ba = ni.main_ba /\ ni'.backup_ba = ni.backup_ba
       /\ \A l \in LBlocks : l # loc.lb => ni'.block_mapping[l] = ni.block_mapping[l]
       /\ loc'.lb = loc.lb /\ loc'.mk = loc.mk /\ loc'.rk = loc.rk
  BY <1>2, <1>6, <1>7, <1>8, <1>9 DEF Instance, Locals
<1>11. \/ loc.ok /\ ni'.block_mapping = ni.block_mapping /\ loc'.uk = "er_try"
       \/ ni'.block_mapping[loc.lb] = Unmapped /\ loc'.uk = "bad_done"
  BY <1>2, <1>7, <1>9 DEF Instance, Locals
<1>12. Tables' = Tables /\ Pledged' = Pledged /\ Pledged \subseteq LBlocks
  BY <1>1, SameTables DEF Pledged
<1>13. pc' \notin RangeUser /\ pc' \notin Starting /\ pc' # "done" /\ (Active' => Active)
  BY <1>1, <1>10 DEF RangeUser, Starting, Active
<1>14. SyncInv'
  <2>1. loc.ok => ni.block_mapping[loc.lb] # Unmapped
    BY <1>1 DEF Sound, IndInv, MappedInv
  <2>2. AllSynced => AllSynced'
    <3>1. \A l \in LBlocks : \/ Excused(l)'
                             \/ ~Excused(l) /\ ni'.block_mapping[l] = ni.block_mapping[l]
      BY <1>1, <1>2, <1>5, <1>10, <1>11, <1>13, <2>1 DEF Excused
    <3> QED BY <1>1, <3>1, StillSynced
  <2>3. Active' => AllSynced' \/ ni'.dirty
    BY <1>1, <1>10, <1>13, <2>2 DEF DataInv, SyncInv
  <2>4. ni'.protected => Tables' = {}
    BY <1>1, <1>10, <1>12 DEF DataInv, SyncInv, Remapping
  <2> QED BY <1>1, <1>13, <2>3, <2>4 DEF SyncInv
<1>15. CallerInv'
  BY <1>1, <1>3, <1>5, <1>10, <1>11, <1>12, <1>13 DEF DataInv, CallerInv
<1> QED BY <1>1, <1>5, <1>10, <1>12, <1>13, <1>14, <1>15, PlainData

-----------------------------------------------------------------------------
(* Attaching.                                                              *)

\* A step to a point before the instance has its tables.
LEMMA StartData ==
  ASSUME Sound, DataInv, pc \in Starting, pc' \in Starting, w' = w, PledgeInv',
         Pledged' \subseteq Pledged, loc'.mk = loc.mk, loc'.uk = loc.uk, loc'.rk = loc.rk,
         pc \notin {"off"}
  PROVE  DataInv'
<1>1. loc.mk # "er_mapped"
  BY DEF Sound, IndInv, ReturnInv, Starting
<1>2. loc.uk # "bad_done"
  BY DEF DataInv, CallerInv, Starting, RangeUser
<1>3. SyncInv' /\ StandInv'
  BY DEF SyncInv, StandInv, Active, Starting, RangeUser, Remapping, At
<1>4. CallerInv'
  BY <1>1, <1>2 DEF DataInv, CallerInv, Starting
<1> QED BY <1>3, <1>4 DEF DataInv

LEMMA AttachData ==
  ASSUME Sound, DataInv, nmbm_attach PROVE DataInv'
<1>1. /\ pc = "off" /\ UNCHANGED <<cell, oob, w, expect>>
      /\ \/ loc'.mk = "off" /\ loc'.uk = "off" /\ loc'.rk = "off" /\ pc' \in {"search1", "sig_erase"}
         \/ UNCHANGED <<ni, loc, pc>>
  BY DEF nmbm_attach, chip, L0
<1>2. Pledged' = Pledged /\ Shrinks
  BY <1>1, SameTables DEF Pledged
<1>3. pc' \in Starting /\ ~Mounted' /\ pc' \notin RangeUser /\ ~Mounted
  BY <1>1 DEF Starting, Mounted, RangeUser
<1>4. PledgeInv'
  BY <1>1, <1>2, <1>3, PledgeSteady DEF DataInv, Spared
<1>5. SyncInv' /\ StandInv'
  BY <1>1 DEF SyncInv, StandInv, Active, Starting, RangeUser, Remapping, At
<1>6. CallerInv'
  BY <1>1, <1>2, <1>3 DEF DataInv, CallerInv
<1> QED BY <1>4, <1>5, <1>6 DEF DataInv

\* nmbm_write_signature: there is no table on the chip.
LEMMA SignatureData ==
  ASSUME Sound, Sound', DataInv, nmbm_write_signature \/ SignatureProgram PROVE DataInv'
<1>1. /\ pc \in {"sig_erase", "sig_program"} /\ expect' = expect /\ loc \in Locals
      /\ pc \in Starting /\ ~Mounted
  BY LogicTypes DEF nmbm_write_signature, SignatureProgram, hist, Sound, Starting, Mounted
<1>2. Pledged' = Pledged
  BY <1>1 DEF Pledged
<1>4. CASE PowerOff
  <2>1. Tables' = {} /\ pc' = "off"
    <3>1. Tables = {} /\ pc' = "off"
      BY <1>1, <1>4 DEF Sound, TabInv, SeekInv, PowerOff
    <3>2. oob \subseteq oob' /\ \A b \in Blocks : cell'[b].k = "table" => cell'[b] = cell[b]
      <4>1. cell \in [Blocks -> Content]
        BY DEF Sound, IndInv, TypeOK
      <4>2. PICK junk : \/ UNCHANGED chip
                        \/ oob' = oob /\ \E c \in {Blank, Signature} : cell' = [cell EXCEPT ![loc.ba] = c]
                        \/ FailBlock(loc.ba, junk) /\ pc' # "off"
        BY DEF nmbm_write_signature, SignatureProgram, SignatureFails
      <4> QED BY <3>1, <4>1, <4>2 DEF chip, Blank, Signature
    <3> QED BY <3>1, <3>2, ShrinkTables DEF Shrinks
  <2>2. PledgeInv'
    BY <2>1 DEF PledgeInv, Mounted, Starting, RangeUser
  <2> QED BY <1>4, <2>2, DataOff
<1>5. CASE ~PowerOff
  <2>1. loc' = loc \/ NextSignatureBlock
    BY <1>5 DEF nmbm_write_signature, SignatureProgram, SignatureFails
  <2>2. loc'.mk = loc.mk /\ loc'.uk = loc.uk /\ loc'.rk = loc.rk
    BY <1>1, <2>1 DEF NextSignatureBlock, Locals
  <2>3. pc' \in {"sig_erase", "sig_program", "create"} /\ w' = w
    BY <1>1, <1>5 DEF nmbm_write_signature, SignatureProgram
  <2>4. Tables' = {}
    BY <2>3 DEF Sound, TabInv, SeekInv
  <2>5. PledgeInv'
    BY <2>3, <2>4 DEF PledgeInv, Mounted, Starting, RangeUser
  <2>6. pc' \in Starting
    BY <2>3 DEF Starting
  <2> QED BY <1>1, <1>2, <2>2, <2>3, <2>5, <2>6, StartData
<1> QED BY <1>4, <1>5

\* nmbm_create_info_table: everything that was promised is given up.
LEMMA CreateInfoData ==
  ASSUME Sound, DataInv, nmbm_create_info_table PROVE DataInv'
<1>1. /\ pc = "create" /\ UNCHANGED <<cell, oob>> /\ expect' = NoExpectation
      /\ ni \in Instance /\ loc \in Locals
  BY LogicTypes DEF nmbm_create_info_table, chip, Sound
<1>2. Pledged' = {}
  BY <1>1 DEF Pledged, NoExpectation
<1>3. Tables' = {}
  BY <1>1, SameTables DEF Sound, TabInv, SeekInv
<1>4. CASE PowerOff
  BY <1>2, <1>4, NoPledge, DataOff
<1>5. CASE ~PowerOff
  <2>1. PICK t \in nmbm_block_walk_desc(ni.block_state, ni.sig_ba, 1, MgmtStart) :
          /\ Rebuild(nmbm_generate_info_table_cache([ni EXCEPT !.top_ba = t]))
          /\ loc' = [loc EXCEPT !.rk = "create_map"]
    BY <1>5 DEF nmbm_create_info_table
  <2>2. PICK n : n = [ni EXCEPT !.top_ba = t]
    OBVIOUS
  <2>3. t \in Int
    BY <1>1, WalkBelow, GeometryAssumption, Numbers DEF Sound
  <2>4. n \in Instance
    BY <1>1, <2>2, <2>3 DEF Instance
  <2>5. PICK m : m = nmbm_generate_info_table_cache(n)
    OBVIOUS
  <2>6. m \in Instance /\ m.cache.map = m.block_mapping
    BY <2>4, <2>5, GenerateCache DEF nmbm_generate_info_table_cache, Instance
  <2>7. /\ ni' = [m EXCEPT !.main_ba = 0, !.backup_ba = 0, !.map_ba = m.top_ba]
        /\ pc' = "write" /\ w'.k = "rb_main" /\ w'.i = 1
    BY <2>1, <2>2, <2>5 DEF Rebuild, CallWrite
  <2>8. ni'.cache.map = ni'.block_mapping
    BY <2>6, <2>7 DEF Instance
  <2>9. loc'.mk # "er_mapped" /\ loc'.uk # "bad_done"
    <3>1. loc.mk # "er_mapped"
      BY <1>1 DEF Sound, IndInv, ReturnInv
    <3>2. loc.uk # "bad_done"
      BY <1>1 DEF DataInv, CallerInv, RangeUser
    <3> QED BY <1>1, <2>1, <3>1, <3>2 DEF Locals
  <2>10. SyncInv'
    BY <1>3, <2>7, <2>8 DEF SyncInv, RangeUser, Remapping
  <2>11. CallerInv'
    BY <1>2, <2>7, <2>9 DEF CallerInv
  <2>12. StandInv'
    BY <2>7 DEF StandInv, RangeUser, Kept, At
  <2> QED BY <1>2, <2>10, <2>11, <2>12, NoPledge DEF DataInv
<1> QED BY <1>4, <1>5

\* The search for the first table: the mapping is the one of the table found.
LEMMA SearchFirstData ==
  ASSUME TableBlocks = 1, Sound, DataInv, SearchFirst PROVE DataInv'
<1>1. /\ pc = "search1" /\ UNCHANGED <<cell, oob, expect>> /\ pc \in Starting /\ ~Mounted
      /\ ni \in Instance /\ loc \in Locals
  BY LogicTypes DEF SearchFirst, chip, hist, Sound, Starting, Mounted
<1>2. Pledged' = Pledged /\ Shrinks /\ Tables' = Tables /\ \A b : TableIn(b)' = TableIn(b)
  BY <1>1, SameTables DEF Pledged
<1>3. CASE SearchMore /\ TryLoad(loc.ba) /\ pc' = "search2"
  <2>1. PICK t, top : t = cell[loc.ba].t /\ top = MappingTop(t, loc.ba, ni.sig_ba)
    OBVIOUS
  <2>2. /\ ni' = Adopt([ni EXCEPT !.main_ba = loc.ba], t) /\ w' = w
        /\ loc' = [loc EXCEPT !.ba = loc.ba + TableBlocks, !.end = loc.ba + TableBlocks,
                              !.main_wc = t.write_count, !.main_top = top]
    BY <1>1, <1>3, <2>1 DEF SearchFirst, TryLoadFails, PowerOff
  <2>3. /\ loc'.mk = loc.mk /\ loc'.uk = loc.uk /\ loc'.rk = loc.rk
        /\ ni'.block_state = t.state /\ ni'.block_mapping = t.map
    BY <1>1, <2>2 DEF Adopt, Instance, Locals
  <2>4. loc.ba \in Tables /\ t = TableIn(loc.ba)
    BY <1>1, <1>3, <2>1, TryLoadTable DEF TableIn, Sound
  <2>5. ASSUME NEW lb \in Pledged
        PROVE  /\ \A b \in Tables : Serves(lb, TableIn(b).map[lb], TableIn(b).state)'
               /\ \A a, b \in Tables : TableIn(a)'.map[lb] = TableIn(b)'.map[lb]
               /\ Serves(lb, ni.block_mapping[lb], ni.block_state)'
               /\ \A b \in Tables : TableIn(b)'.map[lb] = ni'.block_mapping[lb]
    <3>1. /\ \A b \in Tables : Serves(lb, TableIn(b).map[lb], TableIn(b).state)
          /\ \A a, b \in Tables : TableIn(a).map[lb] = TableIn(b).map[lb]
      BY DEF DataInv, PledgeInv
    <3> QED BY <1>1, <1>2, <2>3, <2>4, <3>1 DEF Serves, Told
  <2>6. pc' \in Starting /\ pc' \notin RangeUser
    BY <1>3 DEF Starting, RangeUser
  <2>7. PledgeInv'
    BY <1>2, <2>5, <2>6 DEF PledgeInv
  <2> QED BY <1>1, <1>2, <2>2, <2>3, <2>6, <2>7, StartData
<1>4. ASSUME ~Mounted', pc' \in Starting PROVE PledgeInv'
  <2>1. pc' \notin RangeUser
    BY <1>4 DEF Starting, RangeUser
  <2> QED BY <1>1, <1>2, <1>4, <2>1, PledgeSteady DEF DataInv, Spared
<1>5. CASE pc' \in {"search1", "create"} /\ ~PowerOff
  <2>1. loc' = loc \/ loc' = [loc EXCEPT !.ba = @ + 1]
    BY <1>1, <1>5 DEF SearchFirst, TryLoadFails
  <2>2. loc'.mk = loc.mk /\ loc'.uk = loc.uk /\ loc'.rk = loc.rk
    BY <1>1, <2>1 DEF Locals
  <2>3. pc' \in Starting /\ ~Mounted' /\ w' = w
    BY <1>5 DEF Starting, Mounted, SearchFirst
  <2> QED BY <1>1, <1>2, <1>4, <2>2, <2>3, StartData
<1>6. CASE PowerOff
  BY <1>1, <1>6, QuietOffData
<1> QED BY <1>1, <1>3, <1>5, <1>6 DEF SearchFirst, TryLoadFails

\* The search for the second table: where both lead to one block, it does not
\* matter which of them is adopted.
LEMMA SearchSecondData ==
  ASSUME TableBlocks = 1, Sound, DataInv, SearchSecond PROVE DataInv'
<1>1. /\ pc = "search2" /\ UNCHANGED <<cell, oob, expect, w>> /\ pc \in Starting /\ Mounted
      /\ ni \in Instance /\ loc \in Locals /\ loc.ba \in Nat
  BY LogicTypes, Numbers DEF SearchSecond, chip, hist, Sound, Starting, Mounted
<1>2. Pledged' = Pledged /\ Shrinks /\ Tables' = Tables /\ \A b : TableIn(b)' = TableIn(b)
  BY <1>1, SameTables DEF Pledged
<1>3. ASSUME pc' \in {"search2", "loaded"},
             \A lb \in Pledged : /\ ni'.block_mapping[lb] = ni.block_mapping[lb]
                                 /\ ni'.block_state[ni.block_mapping[lb]] # BLOCK_ST_BAD,
             loc'.mk = loc.mk, loc'.uk = loc.uk, loc'.rk = loc.rk
      PROVE  DataInv'
  <2>1. pc' \in Starting /\ pc' \notin RangeUser /\ Mounted'
    BY <1>3 DEF Starting, RangeUser, Mounted
  <2>2. PledgeInv'
    BY <1>1, <1>2, <1>3, <2>1, PledgeSteady DEF DataInv, Spared
  <2> QED BY <1>1, <1>2, <1>3, <2>1, <2>2, StartData
<1>4. \A lb \in Pledged :
        /\ Serves(lb, ni.block_mapping[lb], ni.block_state)
        /\ \A b \in Tables : /\ TableIn(b).map[lb] = ni.block_mapping[lb]
                             /\ Serves(lb, TableIn(b).map[lb], TableIn(b).state)
  BY <1>1 DEF DataInv, PledgeInv
<1>5. CASE SearchMore /\ TryLoad(loc.ba) /\ pc' = "loaded"
  <2>1. PICK t, top, n : /\ t = cell[loc.ba].t /\ top = MappingTop(t, loc.ba, ni.sig_ba)
                         /\ n = [ni EXCEPT !.backup_ba = loc.ba]
    OBVIOUS
  <2>2. /\ ni' = IF t.write_count > ni.write_count THEN Adopt(n, t) ELSE n
        /\ loc' = [loc EXCEPT !.end = loc.ba + TableBlocks,
                              !.backup_wc = t.write_count, !.backup_top = top]
    BY <1>1, <1>5, <2>1 DEF SearchSecond, TryLoadFails
  <2>3. loc'.mk = loc.mk /\ loc'.uk = loc.uk /\ loc'.rk = loc.rk
    BY <1>1, <2>2 DEF Locals
  <2>4. n \in Instance /\ n.block_state = ni.block_state /\ n.block_mapping = ni.block_mapping
    BY <1>1, <2>1 DEF Instance
  <2>5. \/ ni'.block_state = t.state /\ ni'.block_mapping = t.map
        \/ ni'.block_state = ni.block_state /\ ni'.block_mapping = ni.block_mapping
    BY <2>2, <2>4 DEF Adopt, Instance
  <2>6. loc.ba \in Tables /\ t = TableIn(loc.ba)
    BY <1>1, <1>5, <2>1, TryLoadTable DEF TableIn, Sound
  <2>7. \A lb \in Pledged : /\ ni'.block_mapping[lb] = ni.block_mapping[lb]
                            /\ ni'.block_state[ni.block_mapping[lb]] # BLOCK_ST_BAD
    BY <1>4, <2>5, <2>6 DEF Serves
  <2> QED BY <1>3, <1>5, <2>3, <2>7
<1>6. CASE SearchMore /\ TryLoadFails
  <2>1. PICK ecc \in SUBSET {b \in TableRange(loc.ba) : cell[b] = Torn} :
          ni' = nmbm_set_block_state(ni, TryLoadMarks(loc.ba, ecc), BLOCK_ST_BAD)
    BY <1>6 DEF TryLoadFails
  <2>2. PICK S : S = TryLoadMarks(loc.ba, ecc)
    OBVIOUS
  <2>3. \A b \in S : b \in oob \/ cell[b] = Torn
    BY <2>1, <2>2 DEF TryLoadMarks
  <2>4. \A lb \in Pledged : /\ ni.block_mapping[lb] \notin S /\ lb \in LBlocks
                            /\ ni.block_mapping[lb] # Unmapped
                            /\ ni.block_state[ni.block_mapping[lb]] # BLOCK_ST_BAD
    BY <1>4, <2>3, ToldKind DEF Serves, Pledged
  <2>5. \A lb \in LBlocks : ni.block_mapping[lb] # Unmapped => ni.block_mapping[lb] \in Blocks
    BY LogicTypes DEF Sound
  <2>6. /\ ni'.block_mapping = ni.block_mapping
        /\ \A b \in Blocks : ni'.block_state[b] = IF b \in S THEN BLOCK_ST_BAD ELSE ni.block_state[b]
    BY <1>1, <2>1, <2>2 DEF nmbm_set_block_state, Instance
  <2>7. loc'.mk = loc.mk /\ loc'.uk = loc.uk /\ loc'.rk = loc.rk /\ pc' = pc
    BY <1>1, <1>6 DEF TryLoadFails, Locals
  <2>8. \A lb \in Pledged : /\ ni'.block_mapping[lb] = ni.block_mapping[lb]
                            /\ ni'.block_state[ni.block_mapping[lb]] # BLOCK_ST_BAD
    BY <2>4, <2>5, <2>6
  <2> QED BY <1>1, <1>3, <2>7, <2>8
<1>7. CASE pc' = "loaded" /\ UNCHANGED <<ni, loc>>
  BY <1>3, <1>4, <1>7 DEF Serves
<1> QED BY <1>5, <1>6, <1>7 DEF SearchSecond

\* The number of logic blocks that nmbm_load_info_table computes covers those
\* that are mapped.
LEMMA CountCovers ==
  ASSUME NEW map \in Mapping, NEW lb \in LBlocks, map[lb] # Unmapped
  PROVE  lb < DataBlockCount(map)
<1> DEFINE mapped == {l \in LBlocks : map[l] >= 0}
<1>1. lb \in mapped
  BY MapNumbers, GeometryAssumption DEF Mapping, Blocks, Unmapped
<1>2. mapped \in SUBSET (0 .. MgmtStart) /\ MgmtStart \in Nat
  BY GeometryAssumption DEF LBlocks
<1>3. Max(mapped) \in mapped /\ lb <= Max(mapped)
  BY <1>1, <1>2, MaxNat
<1>4. DataBlockCount(map) = Max(mapped) + 1
  BY <1>1 DEF DataBlockCount
<1>5. lb \in Int /\ Max(mapped) \in Int
  BY <1>2, <1>3 DEF LBlocks
<1> HIDE DEF mapped
<1> QED BY <1>3, <1>4, <1>5

\* What nmbm_load_info_table finds: the mapping of the newer table.
LEMMA LoadedData ==
  ASSUME TableBlocks = 1, Sound, pc = "loaded"
  PROVE  /\ ni.main_ba \in Tables /\ (ni.backup_ba # 0 => ni.backup_ba \in Tables)
         /\ Tables \subseteq {ni.main_ba, ni.backup_ba} /\ 0 \notin Tables
         /\ ni.main_ba # ni.backup_ba
         /\ IF ni.backup_ba = 0 \/ loc.main_wc > loc.backup_wc
              THEN TableIn(ni.main_ba).map = ni.block_mapping
            ELSE IF loc.main_wc < loc.backup_wc
              THEN TableIn(ni.backup_ba).map = ni.block_mapping
            ELSE TableIn(ni.main_ba).map = ni.block_mapping /\ TableIn(ni.backup_ba).map = ni.block_mapping
<1>1. /\ ni.main_ba \in Nat /\ ni.backup_ba \in Nat /\ loc.main_wc \in Nat /\ loc.backup_wc \in Nat
  BY Searching, Numbers DEF Locals, Sound
<1>2. /\ Loaded(ni.main_ba, loc.main_wc, loc.main_top)
      /\ ni.backup_ba = 0 => ni.block_mapping = TableIn(ni.main_ba).map
      /\ ni.backup_ba # 0 =>
           /\ Loaded(ni.backup_ba, loc.backup_wc, loc.backup_top)
           /\ ni.main_ba + 1 <= ni.backup_ba
           /\ ni.block_mapping = IF loc.backup_wc > loc.main_wc
                               THEN TableIn(ni.backup_ba).map ELSE TableIn(ni.main_ba).map
  BY DEF Sound, LayInv, LoadInv, TableIn
<1>3. ni.main_ba \in Tables /\ loc.main_wc = TableIn(ni.main_ba).write_count
  BY <1>2, LoadableInTables DEF Loaded, TableIn
<1>4. ni.backup_ba # 0 => ni.backup_ba \in Tables /\ loc.backup_wc = TableIn(ni.backup_ba).write_count
  BY <1>2, LoadableInTables DEF Loaded, TableIn
<1>5. Tables \subseteq {ni.main_ba, ni.backup_ba} /\ 0 \notin Tables
  BY LoadedTables DEF Sound
<1>6. ni.backup_ba # 0 /\ loc.main_wc = loc.backup_wc => TableIn(ni.main_ba) = TableIn(ni.backup_ba)
  BY <1>3, <1>4 DEF Sound, TabInv, ChipTables
<1>7. ni.main_ba # ni.backup_ba
  BY <1>1, <1>2, <1>3, <1>5
<1>8. CASE ni.backup_ba = 0
  BY <1>2, <1>3, <1>5, <1>7, <1>8
<1>9. CASE ni.backup_ba # 0
  BY <1>1, <1>2, <1>3, <1>4, <1>5, <1>6, <1>7, <1>9
<1> QED BY <1>8, <1>9

\* nmbm_load_info_table rewrites the older table, or writes the missing one.
LEMMA LoadInfoData ==
  ASSUME TableBlocks = 1, Sound, DataInv, nmbm_load_info_table PROVE DataInv'
<1>1. /\ pc = "loaded" /\ UNCHANGED <<cell, oob, loc, expect>> /\ Mounted
      /\ ni \in Instance /\ loc \in Locals
  BY LogicTypes DEF nmbm_load_info_table, chip, hist, Sound, Mounted
<1>2. /\ ni.main_ba \in Tables /\ (ni.backup_ba # 0 => ni.backup_ba \in Tables)
      /\ Tables \subseteq {ni.main_ba, ni.backup_ba} /\ 0 \notin Tables
      /\ ni.main_ba # ni.backup_ba
      /\ IF ni.backup_ba = 0 \/ loc.main_wc > loc.backup_wc
           THEN TableIn(ni.main_ba).map = ni.block_mapping
         ELSE IF loc.main_wc < loc.backup_wc
           THEN TableIn(ni.backup_ba).map = ni.block_mapping
         ELSE TableIn(ni.main_ba).map = ni.block_mapping /\ TableIn(ni.backup_ba).map = ni.block_mapping
  BY <1>1, LoadedData
<1>3. PICK newer, count : /\ newer = IF ni.backup_ba = 0 \/ loc.main_wc >= loc.backup_wc
                                       THEN loc.main_top ELSE loc.backup_top
                          /\ count = DataBlockCount(ni.block_mapping)
  OBVIOUS
<1>4. newer \in Int /\ count \in Nat /\ ni.block_mapping \in Mapping
      /\ loc.main_wc \in Nat /\ loc.backup_wc \in Nat /\ loc.end \in Nat
  <2>1. ni.block_mapping \in Mapping
    BY <1>1 DEF Instance
  <2> QED BY <1>1, <1>3, <2>1, DataBlockCountType DEF Locals
<1>5. PICK n : n = [ni EXCEPT !.top_ba = newer, !.map_ba = loc.end, !.data_count = count]
  OBVIOUS
<1>6. /\ n \in Instance /\ n.block_state = ni.block_state /\ n.block_mapping = ni.block_mapping
      /\ n.data_count = count /\ n.main_ba = ni.main_ba /\ n.backup_ba = ni.backup_ba
  BY <1>1, <1>4, <1>5 DEF Instance
<1>7. PICK m : m = nmbm_generate_info_table_cache(n)
  OBVIOUS
<1>8. /\ m \in Instance /\ m.main_ba = ni.main_ba /\ m.backup_ba = ni.backup_ba
      /\ m.block_mapping = ni.block_mapping /\ m.data_count = count
  BY <1>6, <1>7, GenerateCache
<1>9. m.block_state = ni.block_state /\ m.cache.map = ni.block_mapping /\ m.cache.state = ni.block_state
  BY <1>6, <1>7 DEF nmbm_generate_info_table_cache, Instance
<1>10. \/ /\ ni.backup_ba = 0 /\ ni' = m
          /\ CallWrite(MgmtStart, m.main_ba, "rs_front")
       \/ /\ ni.backup_ba # 0 /\ ni' = [m EXCEPT !.dirty = TRUE] /\ loc.main_wc < loc.backup_wc
          /\ CallWrite(m.main_ba, m.backup_ba, "us_main")
       \/ /\ ni.backup_ba # 0 /\ ni' = [m EXCEPT !.dirty = TRUE] /\ loc.main_wc > loc.backup_wc
          /\ CallWrite(m.backup_ba, m.top_ba, "us_backup")
       \/ ni.backup_ba # 0 /\ ni' = m /\ pc' = "load_ok" /\ loc.main_wc = loc.backup_wc /\ w' = w
  BY <1>3, <1>5, <1>7, <1>8 DEF nmbm_load_info_table
<1>11. /\ ni'.block_state = ni.block_state /\ ni'.block_mapping = ni.block_mapping
       /\ ni'.cache.map = ni.block_mapping /\ ni'.cache.state = ni.block_state
       /\ ni'.main_ba = ni.main_ba /\ ni'.backup_ba = ni.backup_ba /\ ni'.data_count = count
  BY <1>8, <1>9, <1>10 DEF Instance
<1>12. Pledged' = Pledged /\ Shrinks /\ Tables' = Tables /\ \A b : TableIn(b)' = TableIn(b)
  BY <1>1, SameTables DEF Pledged
<1>13. loc.uk # "bad_done" /\ loc.mk # "er_mapped"
  BY <1>1 DEF DataInv, CallerInv, RangeUser, Sound, IndInv, ReturnInv
<1>14. pc' \in {"write", "load_ok"} /\ (pc' = "load_ok" => w' = w)
       /\ (pc' = "write" => w'.k \in {"rs_front", "us_main", "us_backup"} /\ w'.i = 1)
  BY <1>10 DEF CallWrite
<1>15. pc' \notin Starting /\ Mounted'
  BY <1>14 DEF Starting, Mounted
<1>16. PledgeInv'
  <2>1. \A lb \in Pledged : /\ ni.block_state[ni.block_mapping[lb]] # BLOCK_ST_BAD
                            /\ lb < count
    <3>1. \A lb \in Pledged : lb \in LBlocks /\ Serves(lb, ni.block_mapping[lb], ni.block_state)
      BY <1>1 DEF DataInv, PledgeInv, Pledged
    <3> QED BY <1>3, <1>4, <3>1, CountCovers DEF Serves
  <2> QED BY <1>1, <1>11, <1>12, <1>15, <2>1, PledgeSteady DEF DataInv, Spared
<1>17. CallerInv'
  BY <1>1, <1>12, <1>13, <1>14 DEF DataInv, CallerInv
<1>18. \A b : TableIn(b).map = ni.block_mapping => Synced(b)'
  BY <1>11, <1>12 DEF Synced
<1>19. CASE pc' = "load_ok"
  <2>1. ni.backup_ba # 0 /\ loc.main_wc = loc.backup_wc
    BY <1>10, <1>19 DEF CallWrite
  <2>2. AllSynced'
    BY <1>2, <1>4, <1>12, <1>18, <2>1 DEF AllSynced
  <2>3. SyncInv'
    BY <1>19, <2>2 DEF SyncInv, Remapping, RangeUser
  <2>4. StandInv'
    BY <1>2, <1>11, <1>12, <1>19 DEF StandInv, RangeUser, At
  <2> QED BY <1>16, <1>17, <2>3, <2>4 DEF DataInv
<1>20. CASE pc' = "write"
  <2>1. \A b \in Tables : Synced(b)' \/ b \in Old(w.k)'
    <3>1. CASE ni.backup_ba = 0
      BY <1>2, <1>18, <3>1
    <3>2. CASE ni.backup_ba # 0 /\ loc.main_wc < loc.backup_wc
      <4>1. w'.k = "us_main"
        BY <1>4, <1>10, <1>20, <3>2 DEF CallWrite
      <4> QED BY <1>2, <1>4, <1>11, <1>18, <3>2, <4>1 DEF Old
    <3>3. CASE ni.backup_ba # 0 /\ loc.main_wc > loc.backup_wc
      <4>1. w'.k = "us_backup"
        BY <1>4, <1>10, <1>20, <3>3 DEF CallWrite
      <4> QED BY <1>2, <1>4, <1>11, <1>18, <3>3, <4>1 DEF Old
    <3> QED BY <1>10, <1>20, <3>1, <3>2, <3>3
  <2>2. SyncInv'
    BY <1>11, <1>12, <1>14, <1>20, <2>1 DEF SyncInv, Remapping, RangeUser
  <2>3. StandInv'
    BY <1>2, <1>11, <1>12, <1>14, <1>20 DEF StandInv, RangeUser, At, Kept
  <2> QED BY <1>16, <1>17, <2>2, <2>3 DEF DataInv
<1> QED BY <1>14, <1>19, <1>20

-----------------------------------------------------------------------------
(* Steps of the functions that write tables.                               *)

\* What a caller of a loop leaves.
Leaves ==
  /\ UNCHANGED <<cell, oob, expect>>
  /\ ni'.block_mapping = ni.block_mapping /\ ni'.block_state = ni.block_state
  /\ ni'.data_count = ni.data_count /\ ni'.cache = ni.cache
  /\ loc'.mk = loc.mk /\ loc'.lb = loc.lb /\ loc'.uk = loc.uk

\* The call of a loop by a caller of another.
LEMMA NextData ==
  ASSUME Sound, DataInv, pc \in RangeUser, Leaves, loc'.rk \in {loc.rk, "update"},
         NEW ba, NEW limit, NEW k, CallWrite(ba, limit, k) \/ CallErase(ba, limit, k),
         k = "create_map" => loc.rk = "create_map",
         k \in Repairs => w.k \in Repairs,
         \A b \in Tables : Synced(b) \/ b \in Old(k)',
         Kept(k)' \ {0} \subseteq Tables,
         k \notin Writers => /\ ni'.main_ba < ba
                             /\ limit <= IF k = "rs_erased" THEN loc'.start ELSE ni'.backup_ba,
         k \in Writers => CallWrite(ba, limit, k),
         k = "rb_backup" => ni'.backup_ba = 0 /\ ni'.main_ba < loc'.end
  PROVE  DataInv'
<1>1. /\ pc' \in {"write", "erase"} /\ w'.ba = ba /\ w'.limit = limit /\ w'.k = k /\ w'.i = 1
      /\ pc' = "erase" => k \notin Writers
  BY DEF CallWrite, CallErase
<1>2. pc' \in RangeUser /\ pc' \notin Starting /\ pc \notin Starting
  BY <1>1 DEF RangeUser, Starting
<1>3. Tables' = Tables /\ \A b : TableIn(b)' = TableIn(b)
  BY SameTables DEF Leaves
<1>4. PledgeInv'
  BY <1>2, PledgeQuiet DEF DataInv, Leaves
<1>5. CallerInv'
  BY <1>1, <1>2, CallerQuiet DEF DataInv, Leaves
<1>6. SyncInv'
  <2>1. \A b : Synced(b) => Synced(b)'
    BY <1>1, <1>3, SyncedSame DEF Leaves
  <2>2. ni'.cache.map = ni'.block_mapping
    BY DEF DataInv, SyncInv, Leaves
  <2>3. \A b \in Tables' : Synced(b)' \/ (w'.i = 1 /\ b \in Old(w.k)')
    BY <1>1, <1>3, <2>1
  <2> QED BY <1>1, <1>2, <2>2, <2>3 DEF SyncInv, Remapping
<1>7. StandInv'
  BY <1>1, <1>2, <1>3 DEF StandInv, At
<1> QED BY <1>4, <1>5, <1>6, <1>7 DEF DataInv

\* The return of a caller of a loop.
LEMMA BackData ==
  ASSUME Sound, Sound', DataInv, pc \in RangeUser, Leaves, w' = w, loc'.rk = loc.rk,
         pc' \in {"update", "load_ok", "load_failed", "create_map", "create_done"} \cup UpdateReturn,
         pc' = "create_map" => loc.rk = "create_map" \/ w.k = "create_map",
         pc' = "create_done" => loc.rk = "create_map" \/ pc' = loc.uk,
         pc' \in {"load_ok", "load_failed"} => w.k \in Repairs,
         pc' \in {"er_try", "map_failed", "bad_done", "done", "detached"} => pc' = loc.uk,
         ni'.protected => Tables = {},
         Active' => /\ \A b \in Tables : Synced(b)
                    /\ {ni'.main_ba, ni'.backup_ba} \ {0} \subseteq Tables
  PROVE  DataInv'
<1>1. pc' \notin RangeUser /\ pc \notin Starting /\ pc \notin {"done", "er_try", "wr_program", "map"}
  BY DEF RangeUser, Starting, UpdateReturn
<1>2. Tables' = Tables /\ (\A b : TableIn(b)' = TableIn(b)) /\ Pledged' = Pledged
  BY SameTables DEF Leaves, Pledged
<1>3. PledgeInv'
  BY <1>1, PledgeQuiet DEF DataInv, Leaves
<1>4. SyncInv'
  <2>1. \A b : Synced(b) /\ pc' # "done" => Synced(b)'
    BY <1>2, SyncedSame DEF Leaves
  <2>2. Active' => AllSynced' \/ pc' = "done"
    BY <1>2, <2>1 DEF AllSynced
  <2>3. Active' /\ pc' = "done" => AllSynced'
    <3> SUFFICES ASSUME Active', pc' = "done" PROVE AllSynced'
      OBVIOUS
    <3>1. ASSUME loc.uk # "bad_done", NEW b, Synced(b) PROVE Synced(b)'
      BY <1>2, <3>1, SyncedSame DEF Leaves
    <3>2. loc.uk # "bad_done"
      OBVIOUS
    <3> QED BY <1>2, <3>1, <3>2 DEF AllSynced
  <2>4. ni'.protected => Tables' = {}
    BY <1>2
  <2> QED BY <1>1, <2>2, <2>3, <2>4 DEF SyncInv
<1>5. CallerInv'
  <2>1. pc' = "er_try" => loc.mk = "er_mapped"
    BY DEF Sound, IndInv, ReturnInv
  <2>2. loc'.mk = "er_mapped" \/ pc' = "er_try" => loc'.rk # "create_map" /\ w'.k # "create_map"
    BY DEF Sound, IndInv, ReturnInv
  <2>3. pc' \notin {"wr_program", "map", "create_mapped"}
    BY DEF UpdateReturn
  <2>4. (loc.mk = "er_mapped" => loc.lb \notin Pledged /\ loc.lb < ni.data_count)
    BY <1>1 DEF DataInv, CallerInv
  <2>5. loc.mk = "create_mapped" \/ loc.rk = "create_map" \/ w.k = "create_map" => Pledged = {}
    BY DEF DataInv, CallerInv
  <2>6. loc.uk = "bad_done" =>
          /\ loc.rk # "create_map" /\ w.k \notin Repairs \cup {"create_map"}
          /\ loc.lb \notin Pledged
    BY <1>1 DEF DataInv, CallerInv
  <2>7. loc.uk = "bad_done" => pc' \in {"update", "bad_done", "done", "off"}
    BY <2>6 DEF UpdateReturn
  <2>8. /\ loc'.mk = loc.mk /\ loc'.lb = loc.lb /\ loc'.uk = loc.uk
        /\ ni'.data_count = ni.data_count
    BY DEF Leaves
  <2> QED BY <1>1, <1>2, <2>1, <2>2, <2>3, <2>4, <2>5, <2>6, <2>7, <2>8 DEF CallerInv
<1>6. StandInv'
  BY <1>1, <1>2 DEF StandInv, At, RangeUser
<1> QED BY <1>3, <1>4, <1>5, <1>6 DEF DataInv

\* Back from a loop, no table is left that it was to replace.
LEMMA BackOld ==
  ASSUME TableBlocks = 1, Sound, pc \in Writers, pc # "us_backup" \/ Written
  PROVE  /\ pc \in RangeUser /\ w.k = pc
         /\ \A b \in Tables : ~(w.i = 1 /\ b \in Old(pc))
<1>1. pc \in RangeUser /\ w.k = pc
  BY DEF Sound, IndInv, FrameInv, Writers, RangeUser
<1>2. CASE Written
  BY <1>1, <1>2 DEF Written
<1>3. CASE ~Written
  <2>1. /\ w.i = 1 /\ w.limit <= w.ba
        /\ \A b \in Tables : b \in Kept(pc) \/ (b \in Old(pc) /\ w.ba <= b)
    BY <1>3, Unwritten DEF Sound
  <2>2. \A b \in Tables : b \in Nat
    BY TableValue DEF Sound, IndInv
  <2>3. pc # "rb_main" => Placed(ni) /\ ni.map_ba <= ni.top_ba
    BY <1>1, <1>3, PlaceNow DEF Sound, At, Writers
  <2>4. /\ pc = "u_main" => w.limit = IF ni.backup_ba = 0 THEN ni.top_ba ELSE ni.backup_ba
        /\ pc = "u_backup" => w.limit = ni.top_ba
        /\ pc = "us_main" => w.limit = ni.backup_ba
        /\ pc = "rm_main" => w.limit = loc.start /\ ni.backup_ba < loc.start
    BY DEF Sound, TabInv, ReachInv, At
  <2>5. pc \in {"us_main"} => ni.backup_ba # 0
    BY DEF Sound, LayInv, WriterInv, At
  <2>6. pc = "u_backup" => ni.backup_ba # 0
    BY <1>1 DEF Sound, IndInv, FrameInv
  <2>7. ASSUME NEW b \in Tables, b \in Old(pc), w.ba <= b PROVE FALSE
    <3>1. pc \in {"u_backup", "rm_main", "u_main", "us_main"}
      BY <1>3, <2>7 DEF Old, Writers
    <3>2. CASE pc = "u_backup"
      BY <2>1, <2>2, <2>3, <2>4, <2>6, <2>7, <3>2, Numbers DEF Old, Placed, Sound
    <3>3. CASE pc = "rm_main"
      BY <2>1, <2>2, <2>3, <2>4, <2>7, <3>3, Numbers DEF Old, Placed, Sound
    <3>4. CASE pc \in {"u_main", "us_main"}
      BY <2>1, <2>2, <2>3, <2>4, <2>5, <2>7, <3>4, Numbers DEF Old, Placed, Sound
    <3> QED BY <3>1, <3>2, <3>3, <3>4
  <2>8. CASE Kept(pc) \cap Old(pc) = {}
    BY <1>1, <2>1, <2>7, <2>8
  <2>9. CASE Kept(pc) \cap Old(pc) # {}
    <3>1. FALSE
      <4>1. 0 \notin Tables
        BY GeometryAssumption DEF Sound, TabInv, ChipTables
      <4> QED BY <1>3, <2>3, <2>4, <2>9, Numbers DEF Kept, Old, Writers, Placed, Sound
    <3> QED BY <3>1
  <2> QED BY <2>8, <2>9
<1> QED BY <1>2, <1>3

\* So all tables are in sync but for the main table whose turn comes next.
LEMMA BackSynced ==
  ASSUME TableBlocks = 1, Sound, DataInv, pc \in Writers, pc # "us_backup" \/ Written
  PROVE  \A b \in Tables : Synced(b) \/ (pc = "u_backup" /\ b = ni.main_ba)
BY BackOld DEF DataInv, SyncInv

\* Back from a loop that wrote the table: it is on the chip, and so are the
\* tables that the loop was to keep.
LEMMA BackStands ==
  ASSUME Sound, DataInv, pc \in Writers
  PROVE  /\ pc \in RangeUser /\ w.k = pc /\ ~ni.protected
         /\ Kept(pc) \ {0} \subseteq Tables
         /\ Written => w.start \in Tables
<1>1. pc \in RangeUser /\ w.k = pc
  BY DEF Sound, IndInv, FrameInv, Writers, RangeUser
<1>2. ~ni.protected
  BY <1>1, Running DEF Sound
<1>3. Written => w.i # 1
  BY GeometryAssumption DEF Written
<1> QED BY <1>1, <1>2, <1>3 DEF DataInv, StandInv

LEMMA RebuildMainData ==
  ASSUME TableBlocks = 1, Sound, Sound', DataInv, RebuildMain PROVE DataInv'
<1>1. /\ pc = "rb_main" /\ pc \in Writers /\ UNCHANGED <<cell, oob, expect>>
      /\ ni \in Instance /\ loc \in Locals /\ loc.rk \in RebuildReturn /\ loc.uk \in UpdateReturn
  BY LogicTypes DEF RebuildMain, chip, hist, Writers, Sound
<1>2. pc \in RangeUser /\ w.k = pc /\ ~ni.protected /\ (Written => w.start \in Tables)
  BY <1>1, BackStands
<1>3. \A b \in Tables : Synced(b)
  BY <1>1, BackSynced
<1>4. ni.backup_ba = 0
  BY <1>1 DEF Sound, LayInv, WriterInv, At
<1>5. CASE ~Written
  <2>1. Tables = {}
    BY <1>1, <1>5, Unwritten DEF Sound, Kept, Old
  <2>2. /\ ni' = [ni EXCEPT !.protected = TRUE] /\ loc' = [loc EXCEPT !.ok = FALSE] /\ w' = w
        /\ pc' = IF loc.rk = "create_map" THEN "create_done" ELSE loc.uk
    BY <1>5 DEF RebuildMain
  <2>3. Leaves /\ loc'.rk = loc.rk /\ ni'.protected
    BY <1>1, <2>2 DEF Leaves, Instance, Locals
  <2>4. ~Active'
    BY <2>3 DEF Active
  <2>5. pc' \notin {"load_ok", "load_failed", "create_map"}
    BY <1>1, <2>2 DEF UpdateReturn
  <2> QED BY <1>1, <1>2, <2>1, <2>2, <2>3, <2>4, <2>5, BackData
<1>6. CASE Written
  <2>1. ni' = nmbm_mark_tables_clean([ni EXCEPT !.main_ba = TableStart, !.map_ba = TableEnd])
    BY <1>6 DEF RebuildMain
  <2>2. /\ ni'.main_ba = w.start /\ ni'.backup_ba = 0 /\ ~ni'.protected
        /\ ni'.block_mapping = ni.block_mapping /\ ni'.block_state = ni.block_state
        /\ ni'.data_count = ni.data_count /\ ni'.cache = ni.cache
    BY <1>1, <1>2, <1>4, <2>1 DEF nmbm_mark_tables_clean, TableStart, Instance
  <2>3. CASE pc' = loc.rk /\ w' = w /\ loc' = loc
    <3>1. Leaves
      BY <1>1, <2>2, <2>3 DEF Leaves
    <3>2. pc' \in {"off", "create_map", "update"} /\ "off" \in UpdateReturn
      BY <1>1, <2>3 DEF RebuildReturn, UpdateReturn
    <3> QED BY <1>2, <1>3, <1>6, <2>2, <2>3, <3>1, <3>2, BackData
  <2>4. CASE \E next \in Reserve(ni, TableEnd) :
               /\ CallWrite(next, ni.top_ba, "rb_backup")
               /\ loc' = [loc EXCEPT !.end = TableEnd]
    <3>1. PICK next : CallWrite(next, ni.top_ba, "rb_backup")
      BY <2>4
    <3>2. Leaves /\ loc'.rk = loc.rk /\ loc'.end = w.ba
      BY <1>1, <2>2, <2>4 DEF Leaves, Locals, TableEnd
    <3>3. w.start < w.ba
      BY <1>1, <1>6, WrittenPlace, Numbers DEF Sound
    <3>4. Kept("rb_backup")' = {w.start}
      BY <2>2 DEF Kept
    <3> QED BY <1>2, <1>3, <1>6, <2>2, <3>1, <3>2, <3>3, <3>4, NextData DEF Writers, Repairs
  <2> QED BY <1>6, <2>3, <2>4 DEF RebuildMain
<1> QED BY <1>5, <1>6

LEMMA RebuildBackupData ==
  ASSUME TableBlocks = 1, Sound, Sound', DataInv, RebuildBackup PROVE DataInv'
<1>1. /\ pc = "rb_backup" /\ pc \in Writers /\ UNCHANGED <<cell, oob, expect, loc>>
      /\ ni \in Instance /\ loc \in Locals /\ loc.rk \in RebuildReturn
  BY LogicTypes DEF RebuildBackup, chip, hist, Writers, Sound
<1>2. /\ pc \in RangeUser /\ w.k = pc /\ ~ni.protected /\ (Written => w.start \in Tables)
      /\ {ni.main_ba} \ {0} \subseteq Tables
  BY <1>1, BackStands DEF Kept
<1>3. \A b \in Tables : Synced(b)
  BY <1>1, BackSynced
<1>4. ni.backup_ba = 0 /\ ni.main_ba < loc.end
  BY <1>1 DEF DataInv, StandInv, At
<1>5. loc.rk \in {"off", "create_map", "update"} /\ loc.rk \notin Writers
  BY <1>1 DEF RebuildReturn, Writers
<1>6. CASE pc' = loc.rk /\ UNCHANGED <<ni, w>>
  <2>1. Leaves /\ "off" \in UpdateReturn
    BY <1>1, <1>6 DEF Leaves, UpdateReturn
  <2> QED BY <1>1, <1>2, <1>3, <1>4, <1>5, <1>6, <2>1, BackData
<1>7. CASE /\ Written /\ ni' = [ni EXCEPT !.backup_ba = TableStart, !.map_ba = TableEnd]
           /\ CallErase(loc.end, TableStart, loc.rk)
  <2>1. Leaves /\ ni'.main_ba = ni.main_ba /\ ni'.backup_ba = w.start
    BY <1>1, <1>7 DEF Leaves, Instance, TableStart
  <2>3. w.start <= w.start
    BY Numbers DEF Sound
  <2>4. loc.rk \notin Repairs /\ loc.rk # "rs_erased"
    BY <1>5 DEF Repairs
  <2>6. CallErase(loc.end, w.start, loc.rk)
    BY <1>7 DEF TableStart
  <2>8. PICK k : k = loc.rk
    OBVIOUS
  <2>9. Kept(k)' = {ni.main_ba, w.start}
    BY <1>5, <2>1, <2>8 DEF Kept
  <2> QED BY <1>1, <1>2, <1>3, <1>4, <1>5, <1>7, <2>1, <2>3, <2>4, <2>6, <2>8, <2>9, NextData
<1> QED BY <1>6, <1>7 DEF RebuildBackup

\* nmbm_update_info_table: what is in memory now is what is written.
LEMMA UpdateData ==
  ASSUME TableBlocks = 1, Sound, Sound', DataInv, nmbm_update_info_table PROVE DataInv'
<1>1. /\ pc = "update" /\ pc \notin Starting /\ pc \notin RangeUser /\ UNCHANGED <<cell, oob, expect>>
      /\ pc # "load_failed" /\ pc \notin Remapping
      /\ ni \in Instance /\ loc \in Locals /\ loc.uk \in UpdateReturn
  BY LogicTypes DEF nmbm_update_info_table, chip, hist, Starting, RangeUser, Remapping, Sound
<1>2. Tables' = Tables /\ (\A b : TableIn(b)' = TableIn(b)) /\ Pledged' = Pledged
  BY <1>1, SameTables DEF Pledged
<1>3. CASE /\ ni.protected \/ ~ni.dirty
           /\ pc' = loc.uk /\ loc' = [loc EXCEPT !.ok = TRUE] /\ UNCHANGED <<ni, w>>
  <2>1. loc'.mk = loc.mk /\ loc'.lb = loc.lb /\ loc'.uk = loc.uk /\ loc'.rk = loc.rk
    BY <1>1, <1>3 DEF Locals
  <2>2. /\ pc' \notin RangeUser /\ pc' \notin Starting \ {"off"}
        /\ pc' \notin {"wr_program", "map", "create_map", "create_mapped"}
    BY <1>1, <1>3 DEF UpdateReturn, RangeUser, Starting
  <2>3. Active' => Active
    BY <1>1, <1>3 DEF Active
  <2>4. SyncInv'
    <3>1. ASSUME Active' PROVE AllSynced'
      <4>1. AllSynced
        BY <1>1, <1>3, <2>3, <3>1 DEF DataInv, SyncInv, Active
      <4>2. pc' = "done" => loc.uk # "bad_done"
        BY <1>3
      <4> QED BY <1>2, <1>3, <2>1, <4>1, <4>2, <1>1, SyncedSame DEF AllSynced
    <3>2. pc' \in Remapping \cup {"er_try"} => loc.uk \in {"map_failed", "er_try"}
      BY <1>1, <1>3 DEF UpdateReturn, Remapping
    <3>3. pc' # "update"
      BY <1>1, <1>3 DEF UpdateReturn
    <3>4. loc.uk \in {"map_failed", "er_try"} => (ni.protected => Tables = {})
      BY <1>1 DEF DataInv, SyncInv
    <3> QED BY <1>2, <1>3, <2>2, <3>1, <3>2, <3>3, <3>4 DEF SyncInv
  <2>5. CallerInv'
    <3>1. loc'.mk = "er_mapped" \/ pc' = "er_try" =>
            loc'.rk # "create_map" /\ w'.k # "create_map" /\ loc'.mk = "er_mapped"
      BY <1>3, <2>1 DEF Sound, IndInv, ReturnInv
    <3>2. loc.mk = "er_mapped" => loc.lb \notin Pledged /\ loc.lb < ni.data_count
      BY <1>1 DEF DataInv, CallerInv
    <3>3. loc.mk = "create_mapped" \/ loc.rk = "create_map" \/ w.k = "create_map" => Pledged = {}
      BY DEF DataInv, CallerInv
    <3>4. loc.uk = "bad_done" => loc.rk # "create_map" /\ loc.lb \notin Pledged
      BY <1>1 DEF DataInv, CallerInv
    <3> QED BY <1>2, <1>3, <2>1, <2>2, <3>1, <3>2, <3>3, <3>4 DEF CallerInv
  <2> QED BY <1>1, <1>2, <1>3, <2>2, <2>3, <2>4, <2>5, PlainData
<1>4. CASE ~ni.protected /\ ni.dirty
  <2>1. PICK n : n = nmbm_generate_info_table_cache(ni)
    OBVIOUS
  <2>2. /\ n \in Instance /\ n.main_ba = ni.main_ba /\ n.backup_ba = ni.backup_ba
        /\ n.top_ba = ni.top_ba /\ n.block_mapping = ni.block_mapping
        /\ n.data_count = ni.data_count
    BY <1>1, <2>1, GenerateCache
  <2>3. n.block_state = ni.block_state /\ n.cache.map = ni.block_mapping /\ n.cache.state = ni.block_state
    BY <1>1, <2>1 DEF nmbm_generate_info_table_cache, Instance
  <2>4. Active /\ Placed(ni) /\ ni.main_ba # 0
    <3>1. Active /\ ~At("rb_main")
      BY <1>1, <1>4 DEF Active, At, RangeUser
    <3>2. Placed(ni)
      BY <1>1, <1>4, <3>1 DEF Sound, LayInv, PlaceInv
    <3> QED BY <3>1, <3>2, Numbers DEF Placed, Sound
  <2>5. /\ Tables \subseteq {ni.main_ba, ni.backup_ba}
        /\ {ni.main_ba, ni.backup_ba} \ {0} \subseteq Tables
    BY <1>1, <2>4 DEF Sound, TabInv, HomeInv, DataInv, StandInv
  <2>6. /\ ni' = n /\ loc' = loc /\ pc' = "write" /\ w'.i = 1
        /\ w'.k = IF ni.backup_ba = 0 THEN "u_main" ELSE "u_backup"
    BY <1>4, <2>1, <2>2, <2>4 DEF nmbm_update_info_table, WriteMain, CallWrite
  <2>7. pc' \in RangeUser
    BY <2>6 DEF RangeUser
  <2>8. PledgeInv'
    BY <1>1, <2>2, <2>3, <2>6, PledgeQuiet DEF DataInv
  <2>9. CallerInv'
    BY <1>1, <2>2, <2>6, <2>7, CallerQuiet DEF DataInv, Repairs
  <2>10. SyncInv'
    <3>1. \A b \in Tables : b \in Old(w.k)' \/ (w'.k = "u_backup" /\ b = ni'.main_ba)
      <4>1. 0 \notin Tables
        BY GeometryAssumption DEF Sound, TabInv, ChipTables
      <4> QED BY <2>2, <2>5, <2>6, <4>1 DEF Old
    <3> QED BY <1>2, <2>2, <2>3, <2>6, <2>7, <3>1 DEF SyncInv, Remapping
  <2>11. StandInv'
    BY <1>2, <2>2, <2>5, <2>6, <2>7 DEF StandInv, At, Kept
  <2> QED BY <2>8, <2>9, <2>10, <2>11 DEF DataInv
<1> QED BY <1>3, <1>4 DEF nmbm_update_info_table

LEMMA UpdateBackupData ==
  ASSUME TableBlocks = 1, Sound, Sound', DataInv, UpdateBackup PROVE DataInv'
<1>1. /\ pc = "u_backup" /\ pc \in Writers /\ UNCHANGED <<cell, oob, expect>>
      /\ ni \in Instance /\ loc \in Locals
  BY LogicTypes DEF UpdateBackup, chip, hist, Writers, Sound
<1>2. pc \in RangeUser /\ w.k = pc /\ ~ni.protected /\ (Written => w.start \in Tables)
  BY <1>1, BackStands
<1>3. \A b \in Tables : Synced(b) \/ b = ni.main_ba
  BY <1>1, BackSynced
<1>4. Placed(ni) /\ ni.main_ba # 0
  <2>1. Placed(ni)
    BY <1>1, <1>2, PlaceNow DEF Sound, At
  <2> QED BY <2>1, Numbers DEF Sound, Placed
<1>5. ASSUME NEW n \in Instance, WriteMain(n, IF Written THEN w.start ELSE ni.top_ba),
             n.main_ba = ni.main_ba, n.backup_ba \in {0} \cup {b \in {w.start} : Written},
             n.block_mapping = ni.block_mapping, n.block_state = ni.block_state,
             n.data_count = ni.data_count, n.cache = ni.cache
      PROVE  DataInv'
  <2>1. /\ ni' = n /\ loc' = loc
        /\ CallWrite(ni.main_ba, IF Written THEN w.start ELSE ni.top_ba, "u_main")
    BY <1>4, <1>5 DEF WriteMain
  <2>2. Leaves
    BY <1>1, <1>5, <2>1 DEF Leaves
  <2>3. Kept("u_main")' = {n.backup_ba} /\ Old("u_main")' = {ni.main_ba}
    BY <1>5, <2>1 DEF Kept, Old
  <2>4. Kept("u_main")' \ {0} \subseteq Tables
    BY <1>2, <1>5, <2>3
  <2> QED BY <1>2, <1>3, <2>1, <2>2, <2>3, <2>4, NextData DEF Writers, Repairs
<1>6. CASE Written
  <2>1. PICK n : n = nmbm_mark_tables_clean([ni EXCEPT !.backup_ba = TableStart, !.map_ba = TableEnd])
    OBVIOUS
  <2>2. /\ n \in Instance /\ n.main_ba = ni.main_ba /\ n.backup_ba = w.start
        /\ n.block_mapping = ni.block_mapping /\ n.block_state = ni.block_state
        /\ n.data_count = ni.data_count /\ n.cache = ni.cache
    BY <1>1, <2>1, Numbers DEF nmbm_mark_tables_clean, Instance, TableStart, TableEnd, Sound
  <2>3. WriteMain(n, w.start)
    BY <1>6, <2>1 DEF UpdateBackup, TableStart
  <2> QED BY <1>5, <1>6, <2>2, <2>3
<1>7. CASE ~Written
  <2>1. PICK n : n = [ni EXCEPT !.map_ba = ni.backup_ba, !.backup_ba = 0]
    OBVIOUS
  <2>2. /\ n \in Instance /\ n.main_ba = ni.main_ba /\ n.backup_ba = 0
        /\ n.block_mapping = ni.block_mapping /\ n.block_state = ni.block_state
        /\ n.data_count = ni.data_count /\ n.cache = ni.cache
    BY <1>1, <2>1, Numbers DEF Instance, Sound
  <2>3. WriteMain(n, ni.top_ba)
    BY <1>7, <2>1 DEF UpdateBackup
  <2> QED BY <1>5, <1>7, <2>2, <2>3
<1> QED BY <1>6, <1>7

\* nmbm_update_info_table_once after the write of the main table.
LEMMA UpdateMainData ==
  ASSUME TableBlocks = 1, Sound, Sound', DataInv, UpdateMain PROVE DataInv'
<1>1. /\ pc = "u_main" /\ pc \in Writers /\ UNCHANGED <<cell, oob, expect>>
      /\ ni \in Instance /\ loc \in Locals
  BY LogicTypes DEF UpdateMain, chip, hist, Writers, Sound
<1>2. /\ pc \in RangeUser /\ w.k = pc /\ ~ni.protected /\ (Written => w.start \in Tables)
      /\ {ni.backup_ba} \ {0} \subseteq Tables
  BY <1>1, BackStands DEF Kept
<1>3. \A b \in Tables : Synced(b)
  BY <1>1, BackSynced
<1>4. CASE /\ Written /\ pc' = "update" /\ UNCHANGED <<w, loc>>
           /\ ni' = nmbm_mark_tables_clean(
                      [ni EXCEPT !.main_ba = TableStart,
                                 !.map_ba = IF ni.backup_ba = 0 THEN TableEnd ELSE @])
  <2>1. Leaves /\ ni'.main_ba = w.start /\ ni'.backup_ba = ni.backup_ba /\ ~ni'.protected
    BY <1>1, <1>2, <1>4 DEF Leaves, nmbm_mark_tables_clean, TableStart, Instance
  <2> QED BY <1>2, <1>3, <1>4, <2>1, BackData
<1>5. CASE ~Written /\ Rebuild(ni) /\ loc' = [loc EXCEPT !.rk = "update"]
  <2>1. Leaves /\ loc'.rk = "update"
    BY <1>1, <1>5 DEF Leaves, Rebuild, Instance, Locals
  <2>2. CallWrite(MgmtStart, ni.top_ba, "rb_main") /\ Kept("rb_main")' = {}
    BY <1>5 DEF Rebuild, Kept
  <2> QED BY <1>2, <1>3, <2>1, <2>2, NextData DEF Writers, Repairs
<1>6. CASE ni' = BackupBecomesMain(ni) /\ pc' = "update" /\ UNCHANGED <<w, loc>>
  <2>1. Leaves /\ ni'.main_ba = ni.backup_ba /\ ni'.backup_ba = 0 /\ ~ni'.protected
    BY <1>1, <1>2, <1>6 DEF Leaves, BackupBecomesMain, Instance
  <2> QED BY <1>2, <1>3, <1>6, <2>1, BackData
<1>7. CASE \E write_ba \in Reserve(ni, ni.map_ba) :
             /\ CallWrite(write_ba, ni.top_ba, "rm_tmp")
             /\ loc' = [loc EXCEPT !.ba = write_ba] /\ UNCHANGED ni
  <2>1. PICK write_ba : CallWrite(write_ba, ni.top_ba, "rm_tmp")
    BY <1>7
  <2>2. Leaves /\ loc'.rk = loc.rk
    BY <1>1, <1>7 DEF Leaves, Locals
  <2>3. Kept("rm_tmp")' = {ni.backup_ba}
    BY <1>7 DEF Kept
  <2> QED BY <1>2, <1>3, <2>1, <2>2, <2>3, NextData DEF Writers, Repairs
<1> QED BY <1>4, <1>5, <1>6, <1>7 DEF UpdateMain

\* nmbm_rescue_main_info_table: the temporary table, ...
LEMMA RescueTmpData ==
  ASSUME TableBlocks = 1, Sound, Sound', DataInv, RescueTmp PROVE DataInv'
<1>1. /\ pc = "rm_tmp" /\ pc \in Writers /\ UNCHANGED <<cell, oob, expect>>
      /\ ni \in Instance /\ loc \in Locals
  BY LogicTypes DEF RescueTmp, chip, hist, Writers, Sound
<1>2. /\ pc \in RangeUser /\ w.k = pc /\ ~ni.protected /\ (Written => w.start \in Tables)
      /\ {ni.backup_ba} \ {0} \subseteq Tables
  BY <1>1, BackStands DEF Kept
<1>3. \A b \in Tables : Synced(b)
  BY <1>1, BackSynced
<1>4. CASE /\ Written /\ ni' = [ni EXCEPT !.map_ba = TableEnd]
           /\ loc' = [loc EXCEPT !.start = TableStart]
           /\ CallWrite(MgmtStart, TableStart, "rm_main")
  <2>1. Leaves /\ loc'.rk = loc.rk /\ loc'.start = w.start
    BY <1>1, <1>4 DEF Leaves, TableStart, Instance, Locals
  <2>2. Kept("rm_main")' = {w.start}
    BY <2>1 DEF Kept
  <2> QED BY <1>2, <1>3, <1>4, <2>1, <2>2, NextData DEF Writers, Repairs
<1>5. CASE /\ CallWrite(loc.ba - 1, ni.top_ba, "rm_tmp")
           /\ loc' = [loc EXCEPT !.ba = @ - 1] /\ UNCHANGED ni
  <2>1. Leaves /\ loc'.rk = loc.rk /\ Kept("rm_tmp")' = {ni.backup_ba}
    BY <1>1, <1>5 DEF Leaves, Locals, Kept
  <2> QED BY <1>2, <1>3, <1>5, <2>1, NextData DEF Writers, Repairs
<1>6. CASE ni' = BackupBecomesMain(ni) /\ pc' = "update" /\ UNCHANGED <<w, loc>>
  <2>1. Leaves /\ ni'.main_ba = ni.backup_ba /\ ni'.backup_ba = 0 /\ ~ni'.protected
    BY <1>1, <1>2, <1>6 DEF Leaves, BackupBecomesMain, Instance
  <2> QED BY <1>2, <1>3, <1>6, <2>1, BackData
<1> QED BY <1>4, <1>5, <1>6 DEF RescueTmp

\* ... and then the main one, next to which the temporary one is the backup.
LEMMA RescueMainData ==
  ASSUME TableBlocks = 1, Sound, Sound', DataInv, RescueMain PROVE DataInv'
<1>1. /\ pc = "rm_main" /\ pc \in Writers /\ UNCHANGED <<cell, oob, expect, w, loc>>
      /\ ni \in Instance /\ pc' = "update"
  BY LogicTypes DEF RescueMain, chip, hist, Writers, Sound
<1>2. /\ pc \in RangeUser /\ w.k = pc /\ ~ni.protected /\ (Written => w.start \in Tables)
      /\ {loc.start} \ {0} \subseteq Tables
  BY <1>1, BackStands DEF Kept
<1>3. \A b \in Tables : Synced(b)
  BY <1>1, BackSynced
<1>4. /\ Leaves /\ ~ni'.protected
      /\ Written => ni'.main_ba = w.start /\ ni'.backup_ba = loc.start
      /\ ~Written => ni'.main_ba = loc.start /\ ni'.backup_ba = 0
  BY <1>1, <1>2 DEF RescueMain, Leaves, nmbm_mark_tables_clean, TableStart, Instance
<1> QED BY <1>1, <1>2, <1>3, <1>4, BackData

\* nmbm_update_single_info_table, called by nmbm_load_info_table.
LEMMA UpdateSingleData ==
  ASSUME TableBlocks = 1, Sound, Sound', DataInv, UpdateSingle PROVE DataInv'
<1>1. /\ pc \in {"us_main", "us_backup"} /\ pc \in Writers /\ UNCHANGED <<cell, oob, expect, loc>>
      /\ ni \in Instance /\ pc \in Repairs
  BY LogicTypes DEF UpdateSingle, chip, hist, Writers, Sound, Repairs
<1>2. /\ pc \in RangeUser /\ w.k = pc /\ ~ni.protected /\ (Written => w.start \in Tables)
      /\ pc = "us_main" => {ni.backup_ba} \ {0} \subseteq Tables
      /\ pc = "us_backup" => {ni.main_ba} \ {0} \subseteq Tables
  BY <1>1, BackStands DEF Kept
<1>3. pc = "us_main" \/ Written => \A b \in Tables : Synced(b)
  BY <1>1, BackSynced
<1>4. CASE pc = "us_main" /\ Written /\ pc' = "load_ok" /\ w' = w
           /\ ni' = nmbm_mark_tables_clean([ni EXCEPT !.main_ba = TableStart])
  <2>1. Leaves /\ ni'.main_ba = w.start /\ ni'.backup_ba = ni.backup_ba /\ ~ni'.protected
    BY <1>1, <1>2, <1>4 DEF Leaves, nmbm_mark_tables_clean, TableStart, Instance
  <2> QED BY <1>1, <1>2, <1>3, <1>4, <2>1, BackData
<1>5. CASE pc = "us_main" /\ ni' = BackupBecomesMain(ni)
           /\ CallWrite(MgmtStart, ni.backup_ba, "rs_front")
  <2>1. Leaves /\ ni'.main_ba = ni.backup_ba
    BY <1>1, <1>5 DEF Leaves, BackupBecomesMain, Instance
  <2>2. Kept("rs_front")' = {ni.backup_ba}
    BY <2>1 DEF Kept
  <2> QED BY <1>1, <1>2, <1>3, <1>5, <2>1, <2>2, NextData DEF Writers
<1>6. CASE /\ pc = "us_backup" /\ Written /\ pc' = "load_ok" /\ w' = w
           /\ ni' = nmbm_mark_tables_clean([ni EXCEPT !.backup_ba = TableStart,
                                                      !.map_ba = TableEnd])
  <2>1. Leaves /\ ni'.main_ba = ni.main_ba /\ ni'.backup_ba = w.start /\ ~ni'.protected
    BY <1>1, <1>2, <1>6 DEF Leaves, nmbm_mark_tables_clean, TableStart, Instance
  <2> QED BY <1>1, <1>2, <1>3, <1>6, <2>1, BackData
<1>7. CASE pc = "us_backup" /\ pc' = "load_failed" /\ w' = w
           /\ ni' = [ni EXCEPT !.map_ba = ni.backup_ba, !.backup_ba = 0]
  <2>1. Leaves /\ ~ni'.protected /\ ~Active'
    BY <1>1, <1>2, <1>7 DEF Leaves, Instance, Active
  <2> QED BY <1>1, <1>2, <1>7, <2>1, BackData
<1> QED BY <1>4, <1>5, <1>6, <1>7 DEF UpdateSingle

\* nmbm_rescue_single_info_table: a second table in front of the first, ...
LEMMA RescueFrontData ==
  ASSUME TableBlocks = 1, Sound, Sound', DataInv, RescueFront PROVE DataInv'
<1>1. /\ pc = "rs_front" /\ pc \in Writers /\ UNCHANGED <<cell, oob, expect>>
      /\ ni \in Instance /\ loc \in Locals /\ pc \in Repairs
  BY LogicTypes DEF RescueFront, chip, hist, Writers, Sound, Repairs
<1>2. /\ pc \in RangeUser /\ w.k = pc /\ ~ni.protected /\ (Written => w.start \in Tables)
      /\ {ni.main_ba} \ {0} \subseteq Tables
  BY <1>1, BackStands DEF Kept
<1>3. \A b \in Tables : Synced(b)
  BY <1>1, BackSynced
<1>4. CASE /\ Written /\ CallErase(TableEnd, ni.main_ba, "load_ok") /\ UNCHANGED loc
           /\ ni' = nmbm_mark_tables_clean([ni EXCEPT !.backup_ba = ni.main_ba,
                                                      !.main_ba = TableStart])
  <2>1. Leaves /\ ni'.main_ba = w.start /\ ni'.backup_ba = ni.main_ba
    BY <1>1, <1>4 DEF Leaves, nmbm_mark_tables_clean, TableStart, Instance
  <2>2. Kept("load_ok")' = {w.start, ni.main_ba}
    BY <2>1 DEF Kept
  <2>3. w.start < w.ba /\ ni.main_ba <= ni.main_ba
    BY <1>1, <1>4, WrittenPlace, Numbers DEF Sound
  <2>4. CallErase(w.ba, ni.main_ba, "load_ok")
    BY <1>4 DEF TableEnd
  <2> QED BY <1>1, <1>2, <1>3, <1>4, <2>1, <2>2, <2>3, <2>4, NextData DEF Writers
<1>5. CASE pc' = "load_failed" /\ UNCHANGED <<ni, w, loc>>
  <2>1. Leaves /\ ~Active'
    BY <1>1, <1>5 DEF Leaves, Active
  <2> QED BY <1>1, <1>2, <1>5, <2>1, BackData
<1>6. CASE \E write_ba \in Reserve(ni, ni.map_ba) :
             /\ loc' = [loc EXCEPT !.ba = write_ba]
             /\ CallWrite(write_ba, ni.top_ba, "rs_next") /\ UNCHANGED ni
  <2>1. PICK write_ba : CallWrite(write_ba, ni.top_ba, "rs_next")
    BY <1>6
  <2>2. Leaves /\ loc'.rk = loc.rk /\ Kept("rs_next")' = {ni.main_ba}
    BY <1>1, <1>6 DEF Leaves, Locals, Kept
  <2> QED BY <1>1, <1>2, <1>3, <2>1, <2>2, NextData DEF Writers
<1> QED BY <1>4, <1>5, <1>6 DEF RescueFront

\* ... or behind it, from which the blocks between the two are erased.
LEMMA RescueNextData ==
  ASSUME TableBlocks = 1, Sound, Sound', DataInv, RescueNext PROVE DataInv'
<1>1. /\ pc \in {"rs_next", "rs_erased"} /\ UNCHANGED <<cell, oob, expect>>
      /\ ni \in Instance /\ loc \in Locals /\ pc \in Repairs
  BY LogicTypes DEF RescueNext, chip, hist, Sound, Repairs
<1>2. CASE pc = "rs_next"
  <2>1. pc \in Writers
    BY <1>2 DEF Writers
  <2>2. /\ pc \in RangeUser /\ w.k = pc /\ ~ni.protected /\ (Written => w.start \in Tables)
        /\ {ni.main_ba} \ {0} \subseteq Tables
    BY <1>2, <2>1, BackStands DEF Kept
  <2>3. \A b \in Tables : Synced(b)
    BY <1>2, <2>1, BackSynced
  <2>4. CASE /\ Written /\ loc' = [loc EXCEPT !.start = TableStart, !.end = TableEnd]
             /\ CallErase(ni.map_ba, TableStart, "rs_erased") /\ UNCHANGED ni
    <3>1. Leaves /\ loc'.rk = loc.rk /\ loc'.start = w.start
      BY <1>1, <2>4 DEF Leaves, TableStart, Locals
    <3>2. Kept("rs_erased")' = {ni.main_ba, w.start}
      BY <2>4, <3>1 DEF Kept
    <3>3. Placed(ni)
      BY <1>2, <2>2, PlaceNow DEF Sound, At
    <3>4. ni.main_ba < ni.map_ba /\ w.start <= w.start
      BY <3>3, Numbers DEF Placed, Sound
    <3>5. CallErase(ni.map_ba, w.start, "rs_erased")
      BY <2>4 DEF TableStart
    <3> QED BY <1>1, <2>2, <2>3, <2>4, <3>1, <3>2, <3>4, <3>5, NextData DEF Writers
  <2>5. CASE /\ loc' = [loc EXCEPT !.ba = @ - 1] /\ UNCHANGED ni
             /\ CallWrite(loc.ba - 1, ni.top_ba, "rs_next")
    <3>1. Leaves /\ loc'.rk = loc.rk /\ Kept("rs_next")' = {ni.main_ba}
      BY <1>1, <2>5 DEF Leaves, Locals, Kept
    <3> QED BY <1>1, <1>2, <2>2, <2>3, <2>5, <3>1, NextData DEF Writers
  <2>6. CASE pc' = "load_failed" /\ UNCHANGED <<ni, w, loc>>
    <3>1. Leaves /\ ~Active'
      BY <1>1, <2>6 DEF Leaves, Active
    <3> QED BY <1>1, <2>2, <2>6, <3>1, BackData
  <2> QED BY <1>2, <2>4, <2>5, <2>6 DEF RescueNext
<1>3. CASE pc = "rs_erased"
  <2>1. pc \in RangeUser /\ w.k = pc /\ ~ni.protected
    BY <1>3, Running DEF Sound, IndInv, FrameInv, RangeUser
  <2>2. {ni.main_ba, loc.start} \ {0} \subseteq Tables
    BY <1>3, <2>1 DEF DataInv, StandInv, Kept
  <2>3. \A b \in Tables : Synced(b)
    BY <1>3, <2>1 DEF DataInv, SyncInv, Old
  <2>4. /\ ni' = nmbm_mark_tables_clean([ni EXCEPT !.backup_ba = loc.start, !.map_ba = loc.end])
        /\ pc' = "load_ok" /\ UNCHANGED <<w, loc>>
    BY <1>3 DEF RescueNext
  <2>5. Leaves /\ ni'.main_ba = ni.main_ba /\ ni'.backup_ba = loc.start /\ ~ni'.protected
    BY <1>1, <2>1, <2>4 DEF Leaves, nmbm_mark_tables_clean, Instance
  <2> QED BY <1>1, <2>1, <2>2, <2>3, <2>4, <2>5, BackData
<1> QED BY <1>1, <1>2, <1>3

-----------------------------------------------------------------------------
(* Steps of the loops over management blocks.                              *)

\* What a loop erases is no table that it keeps.
LEMMA KeptSafe ==
  ASSUME TableBlocks = 1, Sound, DataInv, pc \in {"write", "program", "erase"}, w.ba < w.limit,
         NEW b \in Kept(w.k) \ {0}
  PROVE  b # w.ba
<1>1. pc \in RangeUser /\ w \in Frame
  BY Numbers DEF RangeUser, Sound
<1>2. CASE pc = "erase"
  <2>1. w.k \notin Writers
    BY <1>2 DEF Sound, LayInv, WriterInv
  <2>2. /\ ni.main_ba < w.ba
        /\ w.limit <= IF w.k = "rs_erased" THEN loc.start ELSE ni.backup_ba
    BY <1>2 DEF DataInv, StandInv
  <2>3. b = ni.main_ba \/ b = IF w.k = "rs_erased" THEN loc.start ELSE ni.backup_ba
    BY <2>1 DEF Kept, Writers
  <2> QED BY <2>2, <2>3, Numbers DEF Sound
<1>3. CASE pc # "erase"
  <2>1. w.k \in Writers /\ TableFrame
    BY <1>1, <1>3 DEF Sound, LayInv, WriterInv
  <2>2. w.limit <= Limit(w.k) /\ Base(w.k) <= w.ba
    BY <2>1 DEF TableFrame
  <2>3. w.k # "rb_main"
    BY DEF Kept
  <2>4. Placed(ni)
    <3>1. pc \notin Starting \cup {"load_failed"} /\ ~ni.protected /\ ~At("rb_main")
      BY <1>1, <1>3, <2>3, Running DEF At, RangeUser, Sound
    <3> QED BY <3>1 DEF Sound, LayInv, PlaceInv
  <2>5. w.k \in {"u_backup", "us_backup"} => ni.backup_ba # 0
    BY <1>1 DEF Sound, IndInv, FrameInv
  <2>6. CASE w.k \in {"rb_backup", "rs_next"}
    BY <2>2, <2>4, <2>6, Numbers DEF Kept, Base, Placed, Sound
  <2>7. CASE w.k \in {"u_backup", "us_backup"}
    BY <2>2, <2>4, <2>5, <2>7, Numbers DEF Kept, Base, Placed, Sound
  <2>8. CASE w.k = "rs_front"
    BY <2>2, <2>8, Numbers DEF Kept, Limit, Sound
  <2>9. CASE w.k \in {"u_main", "us_main"}
    BY <2>2, <2>9, Numbers DEF Kept, Limit, Sound
  <2>10. CASE w.k = "rm_tmp"
    BY <2>2, <2>4, <2>10, Numbers DEF Kept, Base, Placed, Sound
  <2>11. CASE w.k = "rm_main"
    BY <2>2, <2>11, Numbers DEF Kept, Limit, Sound
  <2> QED BY <2>1, <2>3, <2>6, <2>7, <2>8, <2>9, <2>10, <2>11 DEF Writers
<1> QED BY <1>2, <1>3

\* ... and no block that a logic block is mapped to.
LEMMA MappedSafe ==
  ASSUME TableBlocks = 1, Sound, DataInv, pc \in {"write", "program", "erase"}, w.ba < w.limit,
         NEW lb \in LBlocks
  PROVE  ni.block_mapping[lb] # w.ba
<1>1. pc \in RangeUser /\ w \in Frame /\ pc \notin Starting /\ ~ni.protected
  BY Numbers, Running DEF RangeUser, Sound
<1>2. ni.block_mapping[lb] < MgmtStart \/ ni.top_ba < ni.block_mapping[lb]
  BY <1>1 DEF Sound, LayInv, MapInv, Above
<1>3. MgmtStart <= w.ba
  BY <1>1 DEF Sound, IndInv, FrameInv
<1>4. w.ba < ni.top_ba
  <2>1. CASE w.k \in Writers
    <3>1. w.limit <= ni.top_ba
      BY <1>1, <2>1 DEF Sound, LayInv, WriterInv, TableFrame
    <3> QED BY <3>1, Numbers DEF Sound
  <2>2. CASE w.k \notin Writers
    <3>1. pc = "erase"
      BY <2>2 DEF Sound, LayInv, WriterInv
    <3>2. /\ ni.main_ba < w.ba
          /\ w.limit <= IF w.k = "rs_erased" THEN loc.start ELSE ni.backup_ba
      BY <3>1 DEF DataInv, StandInv
    <3>3. CASE w.k = "rs_erased"
      <4>1. loc.start + TableBlocks <= loc.end /\ loc.end <= ni.top_ba
        BY <3>1, <3>3 DEF Sound, LayInv, WriterInv, At
      <4> QED BY <3>2, <3>3, <4>1, Numbers DEF Sound
    <3>4. CASE w.k # "rs_erased"
      <4>1. Placed(ni) /\ ni.map_ba <= ni.top_ba
        BY <1>1, <2>2, <3>1, PlaceNow DEF Sound, At, Writers
      <4>2. w.limit <= ni.backup_ba /\ ni.backup_ba # 0
        BY <3>2, <3>4, Numbers DEF Sound
      <4> QED BY <4>1, <4>2, Numbers DEF Sound, Placed
    <3> QED BY <3>3, <3>4
  <2> QED BY <2>1, <2>2
<1>5. ni.block_mapping[lb] \in Int
  BY MapNumbers, LogicTypes DEF Sound
<1> QED BY <1>2, <1>3, <1>4, <1>5, Numbers DEF Sound

\* A step of a loop that puts no table on the chip.
LEMMA LoopData ==
  ASSUME TableBlocks = 1, Sound, DataInv, pc \in {"write", "program", "erase"}, w.ba < w.limit,
         pc' \in {"write", "program", "erase"}, pc' = "erase" => pc = "erase",
         Shrinks, UNCHANGED <<expect, loc>>, w.k \in Writers => w.i = 1,
         w'.k = w.k, w'.i = w.i, w'.start = w.start, w'.limit = w.limit,
         w'.ba \in {w.ba, w.ba + 1},
         ni' = ni \/ ni' = nmbm_set_block_state(ni, {w.ba}, BLOCK_ST_BAD),
         \A b \in Blocks : b # w.ba => cell'[b] = cell[b] /\ (b \in oob' => b \in oob)
  PROVE  DataInv'
<1>1. /\ pc \in RangeUser /\ pc' \in RangeUser /\ pc \notin Starting /\ pc' \notin Starting
      /\ ni \in Instance
  BY Numbers DEF RangeUser, Starting, Sound
<1>2. Tables' \subseteq Tables /\ \A b \in Tables' : TableIn(b)' = TableIn(b)
  BY ShrinkTables
<1>3. /\ ni'.block_mapping = ni.block_mapping /\ ni'.cache = ni.cache
      /\ ni'.main_ba = ni.main_ba /\ ni'.backup_ba = ni.backup_ba
      /\ ni'.data_count = ni.data_count
      /\ \A b \in Blocks : b # w.ba => ni'.block_state[b] = ni.block_state[b]
  <2>1. CASE ni' = nmbm_set_block_state(ni, {w.ba}, BLOCK_ST_BAD)
    <3>1. \A b \in Blocks : b # w.ba => ni'.block_state[b] = ni.block_state[b]
      BY <1>1, <2>1 DEF nmbm_set_block_state, Instance
    <3>2. ni'.data_count = ni.data_count
      BY <1>1, <2>1 DEF nmbm_set_block_state, Instance
    <3>3. /\ ni'.block_mapping = ni.block_mapping /\ ni'.cache = ni.cache
          /\ ni'.main_ba = ni.main_ba /\ ni'.backup_ba = ni.backup_ba
      BY <1>1, <2>1, SetStateRest DEF BlockState
    <3> QED BY <3>1, <3>2, <3>3
  <2> QED BY <2>1
<1>4. Pledged' = Pledged /\ Pledged \subseteq LBlocks
  BY DEF Pledged
<1>5. PledgeInv'
  <2>1. Mounted /\ Mounted'
    BY <1>1 DEF Mounted
  <2>2. \A lb \in Pledged : /\ Serves(lb, ni.block_mapping[lb], ni.block_state)
                            /\ lb < ni.data_count
                            /\ ni.cache.state[ni.block_mapping[lb]] # BLOCK_ST_BAD
    BY <1>1, <2>1 DEF DataInv, PledgeInv
  <2>3. \A lb \in Pledged : ni.block_mapping[lb] \in Blocks /\ ni.block_mapping[lb] # w.ba
    BY <1>4, <2>2, LogicTypes, MappedSafe DEF Sound, Serves
  <2>4. \A lb \in Pledged : /\ Spared(ni.block_mapping[lb])
                            /\ ni'.block_state[ni.block_mapping[lb]] # BLOCK_ST_BAD
    BY <1>3, <2>2, <2>3 DEF Spared, Serves
  <2> QED BY <1>1, <1>3, <1>4, <2>1, <2>2, <2>4, PledgeSteady DEF DataInv
<1>6. Kept(w.k)' = Kept(w.k) /\ Old(w.k)' = Old(w.k)
  BY <1>3 DEF Kept, Old
<1>7. SyncInv'
  <2>1. \A b \in Tables' : Synced(b) => Synced(b)'
    BY <1>1, <1>2, <1>3, SyncedSame DEF RangeUser
  <2>2. ni'.cache.map = ni'.block_mapping
    BY <1>1, <1>3 DEF DataInv, SyncInv
  <2>3. \A b \in Tables' : \/ Synced(b)'
                           \/ w'.i = 1 /\ b \in Old(w.k)'
                           \/ w'.k = "u_backup" /\ b = ni'.main_ba
    BY <1>1, <1>2, <1>3, <1>6, <2>1 DEF DataInv, SyncInv
  <2>4. pc' \notin Remapping \cup {"er_try", "update"}
    BY DEF Remapping
  <2> QED BY <1>1, <2>2, <2>3, <2>4 DEF SyncInv
<1>8. CallerInv'
  BY <1>1, <1>3, CallerQuiet DEF DataInv
<1>9. StandInv'
  <2>1. Kept(w.k) \ {0} \subseteq Tables
    BY <1>1 DEF DataInv, StandInv
  <2>2. Kept(w.k)' \ {0} \subseteq Tables'
    <3>1. ASSUME NEW b \in Kept(w.k) \ {0} PROVE b \in Tables'
      <4>1. b # w.ba /\ b \in Tables
        BY <2>1, <3>1, KeptSafe
      <4> QED BY <4>1 DEF Tables
    <3> QED BY <1>6, <3>1
  <2>3. pc' = "erase" => /\ ni'.main_ba < w'.ba
                         /\ w'.limit <= IF w'.k = "rs_erased" THEN loc'.start ELSE ni'.backup_ba
    <3>1. pc = "erase" => /\ ni.main_ba < w.ba
                         /\ w.limit <= IF w.k = "rs_erased" THEN loc.start ELSE ni.backup_ba
      BY DEF DataInv, StandInv
    <3> QED BY <1>3, <3>1, Numbers DEF Sound
  <2>4. At("rb_backup")' => At("rb_backup")
    BY DEF At
  <2> QED BY <1>1, <1>3, <2>2, <2>3, <2>4 DEF DataInv, StandInv
<1> QED BY <1>5, <1>7, <1>8, <1>9 DEF DataInv

\* A block is skipped, or fails and is marked.
LEMMA FailData ==
  ASSUME ~MarkMayFail, TableBlocks = 1, Sound, DataInv, pc \in {"write", "program", "erase"},
         w.ba < w.limit, pc' \in {"write", "erase"}, pc' = "erase" => pc = "erase",
         SkipBlock \/ EraseFails, UNCHANGED <<expect, loc>>, w.k \in Writers => w.i = 1
  PROVE  DataInv'
<1>1. TypeOK /\ w.ba \in Blocks /\ w \in Frame /\ NextBlock
  BY InLoop, Numbers DEF IndInv, SkipBlock, EraseFails, Sound
<1>2. /\ w'.k = w.k /\ w'.limit = w.limit /\ w'.i = w.i /\ w'.start = w.start
      /\ w'.ba = w.ba + 1
  BY <1>1 DEF NextBlock, Frame
<1>3. ni' = ni \/ ni' = nmbm_set_block_state(ni, {w.ba}, BLOCK_ST_BAD)
  BY DEF SkipBlock, EraseFails
<1>4. Shrinks /\ \A b \in Blocks : b # w.ba => cell'[b] = cell[b] /\ (b \in oob' => b \in oob)
  <2>1. CASE SkipBlock
    BY <2>1 DEF SkipBlock, Shrinks
  <2>2. CASE EraseFails
    <3>1. oob' = oob \cup {w.ba} /\ \A a \in Blocks : cell'[a].k = "table" => cell'[a] = cell[a]
      BY <1>1, <2>2, FailMarks DEF EraseFails
    <3>2. cell' = [cell EXCEPT ![w.ba] = Torn]
      BY <2>2 DEF EraseFails, FailBlock
    <3> QED BY <1>1, <3>1, <3>2 DEF TypeOK, Shrinks
  <2> QED BY <2>1, <2>2
<1> QED BY <1>2, <1>3, <1>4, LoopData

LEMMA WriteEraseData ==
  ASSUME ~MarkMayFail, TableBlocks = 1, Sound, DataInv, WriteErase PROVE DataInv'
<1>1. /\ pc = "write" /\ UNCHANGED <<loc, expect>> /\ ~Written /\ w.ba < w.limit /\ w.i = 1 /\ TypeOK
  <2>1. pc = "write" /\ UNCHANGED <<loc, expect>> /\ ~Written /\ ~(w.ba >= w.limit)
    BY DEF WriteErase, WriteReturns, hist
  <2>2. w \in Frame /\ w.i \in Nat /\ w.i # 0 /\ w.ba \in Nat /\ w.limit \in Int
    BY DEF Sound, IndInv, TypeOK, Frame
  <2> QED BY <2>1, <2>2, Numbers DEF Written, IndInv, Sound
<1>2. CASE (SkipBlock \/ EraseFails) /\ pc' = pc
  BY <1>1, <1>2, FailData
<1>3. CASE /\ cell' = [cell EXCEPT ![w.ba] = Blank]
           /\ pc' = "program" /\ UNCHANGED <<oob, ni, w>>
  <2>1. w.ba \in Blocks
    BY <1>1, InLoop DEF Sound
  <2>2. \A c \in Blocks : cell'[c].k = "table" => cell'[c] = cell[c]
    BY <1>1, <1>3, <2>1, ErasedCell
  <2>3. \A b \in Blocks : b # w.ba => cell'[b] = cell[b] /\ (b \in oob' => b \in oob)
    BY <1>1, <1>3, <2>1 DEF TypeOK
  <2>4. Shrinks
    BY <1>3, <2>2 DEF Shrinks
  <2> QED BY <1>1, <1>3, <2>3, <2>4, LoopData
<1> QED BY <1>2, <1>3 DEF WriteErase, SkipBlock

\* The table is on the chip: it has the mapping that is in memory.
LEMMA ProgramData ==
  ASSUME TableBlocks = 1, Sound, DataInv, pc = "program", pc' = "write",
         cell' = [cell EXCEPT ![w.ba] = Chunk(w.i, ni.cache)],
         w' = [w EXCEPT !.start = IF w.i = 1 THEN w.ba ELSE @, !.i = @ + 1, !.ba = @ + 1],
         UNCHANGED <<oob, ni, loc, expect>>
  PROVE  DataInv'
<1>1. /\ pc \in RangeUser /\ pc' \in RangeUser /\ pc \notin Starting /\ pc' \notin Starting
      /\ ni \in Instance /\ w \in Frame /\ w.k \in Writers /\ TypeOK
  BY Numbers DEF RangeUser, Starting, Sound, LayInv, WriterInv, IndInv
<1>2. w.ba \in Blocks /\ w.ba < w.limit /\ w.i = 1 /\ w.ba # 0
  <2>1. w.ba < w.limit /\ w.i <= TableBlocks /\ MgmtStart <= w.ba
    BY <1>1 DEF Sound, IndInv, FrameInv
  <2>2. w.i \in Nat /\ w.i # 0
    BY <1>1 DEF Frame
  <2>3. w.i = 1
    BY <2>1, <2>2
  <2> QED BY <2>1, <2>3, InLoop, Numbers DEF Sound
<1>3. w'.start = w.ba /\ w'.i = 2 /\ w'.k = w.k
  BY <1>1, <1>2 DEF Frame
<1>4. w.ba \notin oob /\ Tables \subseteq Kept(w.k) /\ 0 \notin Tables
  BY GeometryAssumption DEF Sound, TabInv, HomeInv, ChipTables
<1>5. /\ cell'[w.ba].k = "table" /\ cell'[w.ba].t = ni.cache
      /\ \A b \in Blocks : b # w.ba => cell'[b] = cell[b]
  BY <1>1, <1>2 DEF TypeOK, Chunk
<1>6. PICK n : n = w.ba
  OBVIOUS
<1>7. n \notin Tables
  BY <1>2, <1>4, <1>6, KeptSafe
<1>8. /\ Tables' = Tables \cup {n} /\ TableIn(n)' = ni.cache
      /\ \A b \in Tables : TableIn(b)' = TableIn(b)
  BY <1>2, <1>4, <1>5, <1>6, <1>7 DEF Tables, TableIn
<1>9. ni.cache.map = ni.block_mapping
  BY <1>1 DEF DataInv, SyncInv
<1>10. Pledged' = Pledged /\ (\A lb \in Pledged : lb \in LBlocks /\ Told(lb)' = Told(lb))
  BY DEF Pledged, Told
<1>11. PledgeInv'
  <2> SUFFICES ASSUME NEW lb \in Pledged
               PROVE  /\ \A b \in Tables' : Serves(lb, TableIn(b).map[lb], TableIn(b).state)'
                      /\ \A a, b \in Tables' : TableIn(a)'.map[lb] = TableIn(b)'.map[lb]
                      /\ Mounted' => /\ Serves(lb, ni.block_mapping[lb], ni.block_state)'
                                     /\ \A b \in Tables' : TableIn(b)'.map[lb] = ni'.block_mapping[lb]
                      /\ pc' \notin Starting => lb < ni'.data_count
                      /\ pc' \in RangeUser =>
                           ni'.cache.state[ni'.block_mapping[lb]] # BLOCK_ST_BAD
    BY <1>10 DEF PledgeInv
  <2>1. Mounted
    BY <1>1 DEF Mounted
  <2>2. /\ \A b \in Tables : Serves(lb, TableIn(b).map[lb], TableIn(b).state)
        /\ Serves(lb, ni.block_mapping[lb], ni.block_state)
        /\ \A b \in Tables : TableIn(b).map[lb] = ni.block_mapping[lb]
        /\ lb < ni.data_count
        /\ ni.cache.state[ni.block_mapping[lb]] # BLOCK_ST_BAD
    BY <1>1, <2>1 DEF DataInv, PledgeInv
  <2>3. PICK p : p = ni.block_mapping[lb]
    OBVIOUS
  <2>4. p # n /\ p \in Blocks
    BY <1>2, <1>6, <1>10, <2>2, <2>3, LogicTypes, MappedSafe DEF Sound, Serves
  <2>5. p # Unmapped /\ p \notin oob' /\ cell'[p] = Told(lb)'
    BY <1>5, <1>6, <1>10, <2>2, <2>3, <2>4 DEF Serves
  <2>6. \A b \in Tables' : TableIn(b)'.map[lb] = p /\ TableIn(b)'.state[p] # BLOCK_ST_BAD
    BY <1>8, <1>9, <2>2, <2>3 DEF Serves
  <2>7. ni'.block_mapping[lb] = p /\ ni'.block_state[p] # BLOCK_ST_BAD
        /\ ni'.cache.state[p] # BLOCK_ST_BAD /\ lb < ni'.data_count
    BY <2>2, <2>3 DEF Serves
  <2> QED BY <2>5, <2>6, <2>7 DEF Serves
<1>12. SyncInv'
  <2>1. Synced(n)'
    BY <1>8, <1>9 DEF Synced
  <2>2. Kept(w.k) \cap Old(w.k) \subseteq {0}
    <3>1. w.k # "rb_main" => Placed(ni)
      <4>1. pc \notin Starting \cup {"load_failed"} /\ ~ni.protected
        BY <1>1, Running DEF Sound
      <4> QED BY <4>1 DEF Sound, LayInv, PlaceInv, At
    <3>2. w.k = "rm_main" => ni.backup_ba < loc.start
      BY DEF Sound, TabInv, ReachInv, At
    <3> QED BY <1>1, <3>1, <3>2, Numbers DEF Kept, Old, Writers, Placed, Sound
  <2>3. \A b \in Tables : Synced(b) \/ (w.k = "u_backup" /\ b = ni.main_ba)
    BY <1>1, <1>4, <2>2 DEF DataInv, SyncInv
  <2>4. \A b \in Tables : Synced(b) => Synced(b)'
    BY <1>8, SyncedSame
  <2> QED BY <1>1, <1>3, <1>8, <1>9, <2>1, <2>3, <2>4 DEF SyncInv, Remapping
<1>13. CallerInv'
  BY <1>1, <1>3, CallerQuiet DEF DataInv
<1>14. StandInv'
  <2>1. Kept(w.k)' = Kept(w.k) /\ (At("rb_backup")' <=> At("rb_backup"))
    BY <1>3 DEF Kept, At
  <2> QED BY <1>1, <1>3, <1>6, <1>8, <2>1 DEF DataInv, StandInv
<1> QED BY <1>11, <1>12, <1>13, <1>14 DEF DataInv

LEMMA WriteProgramData ==
  ASSUME ~MarkMayFail, TableBlocks = 1, Sound, DataInv, WriteProgram PROVE DataInv'
<1>1. pc = "program" /\ pc' = "write" /\ UNCHANGED <<loc, expect>> /\ pc \in RangeUser
  BY DEF WriteProgram, hist, RangeUser
<1>2. CASE EraseFails
  <2>1. w.ba < w.limit /\ w.i <= TableBlocks /\ w.i \in Nat /\ w.i # 0
    BY <1>1 DEF Sound, IndInv, FrameInv, TypeOK, Frame
  <2> QED BY <1>1, <1>2, <2>1, FailData
<1>3. CASE ~EraseFails
  BY <1>1, <1>3, ProgramData DEF WriteProgram
<1> QED BY <1>2, <1>3

\* A loop returns.
LEMMA ReturnData ==
  ASSUME Sound, Sound', DataInv, pc \in {"write", "erase"}, pc' = w.k,
         UNCHANGED <<cell, oob, ni, w, loc, expect>>
  PROVE  DataInv'
<1>1. /\ pc \in RangeUser /\ pc \notin Starting /\ w \in Frame /\ ~ni.protected
  BY Running, Numbers DEF RangeUser, Sound
<1>2. Tables' = Tables /\ (\A b : TableIn(b)' = TableIn(b))
  BY SameTables
<1>3. w.k \in RangeReturn
  BY <1>1 DEF Frame
<1>4. CASE w.k \in RangeUser
  <2>1. PledgeInv'
    BY <1>1, PledgeQuiet DEF DataInv
  <2>2. CallerInv'
    BY <1>1, <1>4, CallerQuiet DEF DataInv
  <2>3. pc' \notin {"erase", "done"} /\ pc' \notin Remapping \cup {"er_try", "update"}
    BY <1>3, <1>4 DEF RangeReturn, RangeUser, Remapping
  <2>4. \A b : Synced(b) => Synced(b)'
    BY <1>2, <2>3, SyncedSame
  <2>5. SyncInv'
    BY <1>1, <1>2, <1>4, <2>3, <2>4 DEF DataInv, SyncInv, Old
  <2>6. At("rb_backup")' => At("rb_backup")
    BY <1>3, <1>4 DEF At, RangeReturn
  <2>7. StandInv'
    BY <1>1, <1>2, <1>4, <2>3, <2>6 DEF DataInv, StandInv, Kept
  <2> QED BY <2>1, <2>2, <2>5, <2>7 DEF DataInv
<1>5. CASE w.k \notin RangeUser
  <2>1. w.k \in {"off", "load_ok", "create_map", "update"}
    BY <1>3, <1>5 DEF RangeReturn, RangeUser
  <2>3. \A b \in Tables : Synced(b)
    BY <1>1, <2>1 DEF DataInv, SyncInv, Old
  <2>4. {ni.main_ba, ni.backup_ba} \ {0} \subseteq Tables
    BY <1>1, <2>1 DEF DataInv, StandInv, Kept
  <2>5. Leaves /\ "off" \in UpdateReturn /\ "load_ok" \in Repairs
    BY DEF Leaves, UpdateReturn, Repairs
  <2> QED BY <1>1, <2>1, <2>3, <2>4, <2>5, BackData
<1> QED BY <1>4, <1>5

LEMMA EraseRangeData ==
  ASSUME ~MarkMayFail, TableBlocks = 1, Sound, Sound', DataInv, nmbm_erase_range PROVE DataInv'
<1>1. pc = "erase" /\ UNCHANGED <<loc, expect>> /\ TypeOK /\ w.k \notin Writers /\ w \in Frame
  BY Numbers DEF nmbm_erase_range, IndInv, Sound, hist, LayInv, WriterInv
<1>2. CASE pc' = w.k /\ UNCHANGED <<cell, oob, ni, w>>
  BY <1>1, <1>2, ReturnData
<1>3. CASE w.ba < w.limit /\ (SkipBlock \/ EraseFails) /\ pc' = pc
  BY <1>1, <1>3, FailData
<1>4. CASE w.ba < w.limit /\ cell' = [cell EXCEPT ![w.ba] = Blank] /\ NextBlock
           /\ UNCHANGED <<oob, ni>> /\ pc' = pc
  <2>1. w.ba \in Blocks
    BY <1>1, <1>4, InLoop DEF Sound
  <2>2. \A c \in Blocks : cell'[c].k = "table" => cell'[c] = cell[c]
    BY <1>1, <1>4, <2>1, ErasedCell
  <2>3. \A b \in Blocks : b # w.ba => cell'[b] = cell[b] /\ (b \in oob' => b \in oob)
    BY <1>1, <1>4, <2>1 DEF TypeOK
  <2>4. Shrinks
    BY <1>4, <2>2 DEF Shrinks
  <2>5. /\ w'.k = w.k /\ w'.limit = w.limit /\ w'.i = w.i /\ w'.start = w.start
        /\ w'.ba = w.ba + 1
    BY <1>1, <1>4 DEF NextBlock, Frame
  <2> QED BY <1>1, <1>4, <2>3, <2>4, <2>5, LoopData
<1> QED BY <1>2, <1>3, <1>4 DEF nmbm_erase_range, SkipBlock

-----------------------------------------------------------------------------
(* What users call.                                                        *)

\* A step that changes the block pb of the logic block lb and no other.
Touches(lb, pb) ==
  /\ lb \in LBlocks /\ pb = ni.block_mapping[lb] /\ pb # Unmapped
  /\ Shrinks
  /\ \A b \in Blocks : b # pb => /\ cell'[b] = cell[b] /\ (b \in oob' => b \in oob)
                                 /\ ni'.block_state[b] = ni.block_state[b]
  /\ \A l \in LBlocks : l # lb => ni'.block_mapping[l] = ni.block_mapping[l]
  /\ ni'.main_ba = ni.main_ba /\ ni'.backup_ba = ni.backup_ba
  /\ ni'.data_count = ni.data_count /\ ni'.protected = ni.protected

\* It leaves the tables, and the blocks of the other users.
LEMMA TouchSpares ==
  ASSUME Sound, DataInv, pc \notin Starting, pc \notin RangeUser, pc # "load_failed",
         ni.protected => Tables = {}, NEW lb, NEW pb, Touches(lb, pb)
  PROVE  /\ pb \in Blocks /\ Tables' = Tables /\ \A b \in Tables : TableIn(b)' = TableIn(b)
         /\ \A l \in LBlocks : l # lb /\ ni.block_mapping[l] # Unmapped =>
              /\ ni.block_mapping[l] \in Blocks /\ ni.block_mapping[l] # pb
              /\ Spared(ni.block_mapping[l])
              /\ ni'.block_state[ni.block_mapping[l]] = ni.block_state[ni.block_mapping[l]]
<1>1. lb \in LBlocks /\ pb = ni.block_mapping[lb] /\ pb # Unmapped /\ Shrinks
  BY DEF Touches
<1>2. \A l \in LBlocks : ni.block_mapping[l] # Unmapped => ni.block_mapping[l] \in Blocks
  BY LogicTypes DEF Sound
<1>3. \A l \in LBlocks : l # lb => ni.block_mapping[l] # pb
  BY <1>1 DEF Sound, LayInv, MapInv, Apart
<1>4. pb \notin Tables
  <2>1. CASE ni.protected
    BY <2>1
  <2>2. CASE ~ni.protected
    BY <1>1, <2>2, UserBlockNoTable DEF Sound
  <2> QED BY <2>1, <2>2
<1>5. Tables' \subseteq Tables /\ \A b \in Tables' : TableIn(b)' = TableIn(b)
  BY <1>1, ShrinkTables
<1>6. ASSUME NEW b \in Tables PROVE b \in Tables'
  <2>1. b \in Blocks /\ b # pb /\ b \notin oob /\ cell[b].k = "table"
    BY <1>4, <1>6 DEF Tables
  <2>2. cell'[b] = cell[b] /\ (b \in oob' => b \in oob)
    BY <2>1 DEF Touches
  <2> QED BY <2>1, <2>2 DEF Tables
<1>7. ASSUME NEW l \in LBlocks, l # lb, ni.block_mapping[l] # Unmapped
      PROVE  /\ ni.block_mapping[l] \in Blocks /\ ni.block_mapping[l] # pb
             /\ Spared(ni.block_mapping[l])
             /\ ni'.block_state[ni.block_mapping[l]] = ni.block_state[ni.block_mapping[l]]
  <2>1. ni.block_mapping[l] \in Blocks /\ ni.block_mapping[l] # pb
    BY <1>2, <1>3, <1>7
  <2> QED BY <2>1 DEF Touches, Spared
<1> QED BY <1>1, <1>2, <1>5, <1>6, <1>7

\* ... so that nobody else loses anything by it.
LEMMA TouchData ==
  ASSUME Sound, DataInv, pc \notin Starting, pc \notin RangeUser, pc # "load_failed",
         pc' \notin RangeUser, pc' \notin Starting,
         ni.protected => Tables = {}, NEW lb, NEW pb, Touches(lb, pb),
         \A l \in Pledged' : l \in Pledged /\ l # lb /\ expect'[l] = expect[l],
         SyncInv', CallerInv'
  PROVE  DataInv'
<1>1. /\ Tables' = Tables /\ \A b \in Tables : TableIn(b)' = TableIn(b)
      /\ \A l \in LBlocks : l # lb /\ ni.block_mapping[l] # Unmapped =>
              /\ Spared(ni.block_mapping[l])
              /\ ni'.block_state[ni.block_mapping[l]] = ni.block_state[ni.block_mapping[l]]
  BY TouchSpares
<1>2. Mounted /\ (Active' => Active)
  BY DEF Mounted, Active, Touches
<1>3. \A l \in Pledged' : /\ l \in LBlocks /\ l # lb /\ Serves(l, ni.block_mapping[l], ni.block_state)
                          /\ l < ni.data_count
  BY <1>2 DEF DataInv, PledgeInv, Pledged
<1>4. \A l \in Pledged' : /\ Spared(ni.block_mapping[l])
                          /\ ni'.block_mapping[l] = ni.block_mapping[l]
                          /\ ni'.block_state[ni.block_mapping[l]] # BLOCK_ST_BAD
                          /\ l < ni'.data_count
  BY <1>1, <1>3 DEF Serves, Touches
<1>5. PledgeInv'
  BY <1>2, <1>4, PledgeSteady DEF DataInv, Touches
<1>6. StandInv'
  BY <1>1, <1>2, StandStill DEF DataInv, Touches
<1> QED BY <1>5, <1>6 DEF DataInv

\* A logic block got new contents, and its user is told so.
LEMMA FulfilData ==
  ASSUME Sound, DataInv, pc \in {"er_try", "wr_program"}, pc' = "done",
         NEW pb, pb = ni.block_mapping[loc.lb], pb \notin oob, ni.block_state[pb] # BLOCK_ST_BAD,
         \A b \in Tables : TableIn(b).state[pb] # BLOCK_ST_BAD,
         NEW e, NEW c, \/ e = "blank" /\ c = Blank
                       \/ e = "data" /\ c = Data(loc.lb),
         cell' = [cell EXCEPT ![pb] = c], expect' = [expect EXCEPT ![loc.lb] = e],
         UNCHANGED <<oob, ni, loc, w>>, ni.protected => Tables = {}
  PROVE  DataInv'
<1>1. /\ pc \notin Starting /\ pc \notin RangeUser /\ pc \notin Remapping /\ pc # "load_failed"
      /\ pc' \notin Starting /\ pc' \notin RangeUser /\ pc' \notin Remapping
      /\ loc.lb \in LBlocks /\ expect \in [LBlocks -> Expected] /\ TypeOK
  BY LogicTypes DEF Starting, RangeUser, Remapping, Sound, IndInv
<1>2. PICK lb : lb = loc.lb
  OBVIOUS
<1>3. pb # Unmapped /\ pb \in Blocks
  BY <1>1, LogicTypes DEF Sound, IndInv, MappedInv
<1>4. cell'[pb] = c /\ \A b \in Blocks : b # pb => cell'[b] = cell[b]
  BY <1>1, <1>3 DEF TypeOK
<1>5. c.k # "table"
  BY DEF Blank, Data
<1>6. Shrinks
  BY <1>4, <1>5 DEF Shrinks
<1>7. Touches(lb, pb)
  BY <1>1, <1>2, <1>3, <1>4, <1>6 DEF Touches
<1>8. /\ Tables' = Tables /\ \A b \in Tables : TableIn(b)' = TableIn(b)
      /\ \A l \in LBlocks : l # lb /\ ni.block_mapping[l] # Unmapped => Spared(ni.block_mapping[l])
  BY <1>1, <1>7, TouchSpares
<1>9. /\ lb \notin Pledged /\ lb < ni.data_count /\ loc.mk # "create_mapped"
      /\ loc.rk # "create_map" /\ w.k # "create_map" /\ loc.uk # "bad_done"
  BY <1>1, <1>2 DEF DataInv, CallerInv, RangeUser
<1>10. \A b \in Tables : Synced(b)
  <2>1. CASE ni.protected
    BY <2>1
  <2>2. CASE ~ni.protected
    BY <1>1, <2>2 DEF DataInv, SyncInv, Active, AllSynced
  <2> QED BY <2>1, <2>2
<1>11. /\ expect'[lb] = e /\ Told(lb)' = c /\ \A l \in LBlocks : l # lb => expect'[l] = expect[l]
  BY <1>1, <1>2 DEF Told
<1>12. PledgeInv'
  <2> SUFFICES ASSUME NEW l \in Pledged'
               PROVE  /\ \A b \in Tables' : Serves(l, TableIn(b).map[l], TableIn(b).state)'
                      /\ \A a, b \in Tables' : TableIn(a)'.map[l] = TableIn(b)'.map[l]
                      /\ Serves(l, ni.block_mapping[l], ni.block_state)'
                      /\ \A b \in Tables' : TableIn(b)'.map[l] = ni'.block_mapping[l]
                      /\ l < ni'.data_count
    BY <1>1 DEF PledgeInv
  <2>1. l \in LBlocks
    BY DEF Pledged
  <2>2. CASE l = lb
    <3>1. \A b \in Tables : TableIn(b).map[lb] = pb
      <4>1. ~Excused(lb)
        BY <1>2, <1>3 DEF Excused
      <4> QED BY <1>1, <1>2, <1>10, <4>1 DEF Synced
    <3>2. Serves(lb, ni.block_mapping[lb], ni.block_state)'
      BY <1>2, <1>3, <1>4, <1>11 DEF Serves
    <3>3. ASSUME NEW b \in Tables' PROVE Serves(lb, TableIn(b).map[lb], TableIn(b).state)'
      BY <1>3, <1>4, <1>8, <1>11, <3>1, <3>3 DEF Serves
    <3> QED BY <1>2, <1>8, <1>9, <2>2, <3>1, <3>2, <3>3
  <2>3. CASE l # lb
    <3>1. l \in Pledged /\ Told(l)' = Told(l)
      BY <1>11, <2>1, <2>3 DEF Pledged, Told
    <3>2. /\ \A b \in Tables : Serves(l, TableIn(b).map[l], TableIn(b).state)
          /\ Serves(l, ni.block_mapping[l], ni.block_state)
          /\ \A b \in Tables : TableIn(b).map[l] = ni.block_mapping[l]
          /\ l < ni.data_count
      BY <1>1, <3>1 DEF DataInv, PledgeInv, Mounted
    <3>3. Spared(ni.block_mapping[l])
      BY <1>8, <2>1, <2>3, <3>2 DEF Serves
    <3>4. Serves(l, ni.block_mapping[l], ni.block_state)'
      BY <3>1, <3>2, <3>3 DEF Serves, Spared
    <3>5. ASSUME NEW b \in Tables' PROVE Serves(l, TableIn(b).map[l], TableIn(b).state)'
      BY <1>8, <3>1, <3>2, <3>3, <3>5 DEF Serves, Spared
    <3> QED BY <1>8, <3>2, <3>4, <3>5
  <2> QED BY <2>2, <2>3
<1>13. SyncInv'
  <2>1. \A l \in LBlocks : Excused(l) => Excused(l)'
    BY <1>2, <1>3, <1>9, <1>11 DEF Excused
  <2>2. AllSynced'
    BY <1>8, <1>10, <2>1 DEF AllSynced, Synced
  <2> QED BY <1>1, <2>2 DEF SyncInv
<1>14. CallerInv'
  BY <1>1, <1>2, <1>9 DEF DataInv, CallerInv, RangeUser
<1>15. StandInv'
  <2>1. Active' => Active
    BY <1>1 DEF Active
  <2> QED BY <1>1, <1>8, <2>1, StandStill DEF DataInv
<1> QED BY <1>12, <1>13, <1>14, <1>15 DEF DataInv

\* nmbm_erase_logic_block.
LEMMA EraseLogicData ==
  ASSUME ~MarkMayFail, Sound, DataInv, nmbm_erase_logic_block PROVE DataInv'
<1>1. /\ pc = "er_try" /\ pc \notin Starting /\ pc \notin RangeUser /\ pc \notin Remapping
      /\ pc # "load_failed" /\ TypeOK /\ ni \in Instance /\ loc \in Locals /\ loc.lb \in LBlocks
      /\ w' = w /\ cell \in [Blocks -> Content]
  BY LogicTypes DEF nmbm_erase_logic_block, Starting, RangeUser, Remapping, Sound, IndInv, TypeOK
<1>2. PICK pb : pb = ni.block_mapping[loc.lb]
  OBVIOUS
<1>3. pb # Unmapped /\ pb \in Blocks
  BY <1>1, <1>2, LogicTypes DEF Sound, IndInv, MappedInv
<1>4. ni.protected => Tables = {}
  BY <1>1 DEF DataInv, SyncInv
<1>5. /\ loc.lb \notin Pledged /\ loc.lb < ni.data_count /\ loc.mk # "create_mapped"
      /\ loc.rk # "create_map" /\ w.k # "create_map" /\ loc.uk # "bad_done"
  BY <1>1 DEF DataInv, CallerInv, RangeUser
<1>6. PICK bad : bad = nmbm_set_block_state(ni, {pb}, BLOCK_ST_BAD)
  OBVIOUS
<1>7. ASSUME NEW n, n \in {ni, bad}, RemapLogicBlock(n, pb), Shrinks, expect' = expect,
             \A b \in Blocks : b # pb => cell'[b] = cell[b] /\ (b \in oob' => b \in oob)
      PROVE  DataInv'
  <2>1. /\ ni' = n /\ pc' = "map" /\ loc'.mk = "er_mapped" /\ loc'.lb = loc.lb
        /\ loc'.uk = loc.uk /\ loc'.rk = loc.rk
    BY <1>1, <1>7 DEF RemapLogicBlock, Locals
  <2>2. /\ n.block_mapping = ni.block_mapping /\ n.main_ba = ni.main_ba
        /\ n.backup_ba = ni.backup_ba /\ n.protected = ni.protected
    BY <1>1, <1>6, <1>7, SetStateRest DEF BlockState
  <2>3. n.data_count = ni.data_count /\ \A b \in Blocks : b # pb => n.block_state[b] = ni.block_state[b]
    <3>1. bad.data_count = ni.data_count /\ \A b \in Blocks : b # pb => bad.block_state[b] = ni.block_state[b]
      BY <1>1, <1>6 DEF nmbm_set_block_state, Instance
    <3> QED BY <1>7, <3>1
  <2>4. Touches(loc.lb, pb)
    BY <1>1, <1>2, <1>3, <1>7, <2>1, <2>2, <2>3 DEF Touches
  <2>5. /\ pc' \notin RangeUser /\ pc' \notin Starting
    BY <2>1 DEF RangeUser, Starting
  <2>6. Tables' = Tables /\ \A b \in Tables : TableIn(b)' = TableIn(b)
    BY <1>1, <1>4, <2>4, TouchSpares
  <2>7. Pledged' = Pledged
    BY <1>7 DEF Pledged
  <2>8. SyncInv'
    <3>1. ASSUME Active' PROVE AllSynced'
      <4>1. AllSynced
        BY <1>1, <2>1, <2>2, <3>1 DEF DataInv, SyncInv, Active
      <4>2. \A b \in Tables : Synced(b) => Synced(b)'
        BY <1>7, <2>1, <2>2, <2>6, SyncedSame
      <4> QED BY <2>6, <4>1, <4>2 DEF AllSynced
    <3> QED BY <1>4, <2>1, <2>2, <2>5, <2>6, <3>1 DEF SyncInv
  <2>9. CallerInv'
    BY <1>1, <1>5, <2>1, <2>2, <2>3, <2>7 DEF CallerInv
  <2>10. \A l \in Pledged' : l \in Pledged /\ l # loc.lb /\ expect'[l] = expect[l]
    BY <1>5, <1>7, <2>7
  <2> QED BY <1>1, <1>4, <2>4, <2>5, <2>8, <2>9, <2>10, TouchData
<1>8. CASE RemapLogicBlock(ni, pb) /\ UNCHANGED <<chip, expect>>
  BY <1>7, <1>8 DEF chip, Shrinks
<1>9. CASE RemapLogicBlock(bad, pb) /\ UNCHANGED <<chip, expect>>
  BY <1>7, <1>9 DEF chip, Shrinks
<1>10. CASE FailBlock(pb, {Torn}) /\ RemapLogicBlock(bad, pb) /\ UNCHANGED expect
  <2>1. oob' = oob \cup {pb} /\ \A a \in Blocks : cell'[a].k = "table" => cell'[a] = cell[a]
    BY <1>1, <1>3, <1>10, FailMarks
  <2>2. cell' = [cell EXCEPT ![pb] = Torn]
    BY <1>10 DEF FailBlock
  <2>3. Shrinks /\ \A b \in Blocks : b # pb => cell'[b] = cell[b] /\ (b \in oob' => b \in oob)
    BY <1>1, <1>3, <2>1, <2>2 DEF Shrinks
  <2> QED BY <1>7, <1>10, <2>3
<1>11. CASE /\ Good(pb) /\ pb \notin oob /\ cell' = [cell EXCEPT ![pb] = Blank]
            /\ expect' = [expect EXCEPT ![loc.lb] = "blank"]
            /\ pc' = "done" /\ UNCHANGED <<oob, ni, loc>>
  <2>1. ni.block_state[pb] # BLOCK_ST_BAD
    BY <1>11 DEF Good, BLOCK_ST_GOOD, BLOCK_ST_BAD
  <2>2. ASSUME NEW b \in Tables PROVE TableIn(b).state[pb] # BLOCK_ST_BAD
    <3>1. Covers(TableIn(b), ni.block_state)
      BY <1>1, <2>2 DEF Sound, TabInv, NewestInv
    <3> QED BY <1>3, <1>11, <3>1 DEF Covers, Good, BLOCK_ST_GOOD, BLOCK_ST_BAD
  <2> QED BY <1>1, <1>2, <1>4, <1>11, <2>1, <2>2, FulfilData
<1> QED BY <1>2, <1>6, <1>8, <1>9, <1>10, <1>11 DEF nmbm_erase_logic_block

\* nmbm_write_logic_page: the table on the chip does not call the block bad,
\* for its user has just erased it.
LEMMA WriteLogicData ==
  ASSUME Sound, DataInv, nmbm_write_logic_page PROVE DataInv'
<1>1. /\ pc = "wr_program" /\ pc \notin Starting /\ pc \notin RangeUser /\ pc \notin Remapping
      /\ pc # "load_failed" /\ TypeOK /\ ni \in Instance /\ loc \in Locals /\ loc.lb \in LBlocks
      /\ UNCHANGED <<w, oob>> /\ ~ni.protected /\ cell \in [Blocks -> Content]
  BY LogicTypes DEF nmbm_write_logic_page, Starting, RangeUser, Remapping, Sound, IndInv,
                    TabInv, UserInv, TypeOK
<1>2. PICK pb : pb = ni.block_mapping[loc.lb]
  OBVIOUS
<1>3. pb # Unmapped /\ pb \in Blocks
  BY <1>1, <1>2, LogicTypes DEF Sound, IndInv, MappedInv
<1>4. /\ loc.lb \notin Pledged /\ loc.lb < ni.data_count /\ loc.mk # "create_mapped"
      /\ loc.rk # "create_map" /\ w.k # "create_map" /\ loc.uk # "bad_done"
      /\ pb \notin oob /\ ni.block_state[pb] # BLOCK_ST_BAD
      /\ \A b \in Tables : TableIn(b).state[pb] # BLOCK_ST_BAD
  BY <1>1, <1>2 DEF DataInv, CallerInv, RangeUser
<1>5. CASE /\ cell' = [cell EXCEPT ![pb] = Data(loc.lb)] /\ pc' = "done"
           /\ expect' = [expect EXCEPT ![loc.lb] = "data"] /\ UNCHANGED <<ni, loc>>
  BY <1>1, <1>2, <1>4, <1>5, FulfilData
<1>6. CASE /\ cell' \in {cell, [cell EXCEPT ![pb] = Torn]}
           /\ ni' = nmbm_set_block_state(ni, {pb}, BLOCK_ST_NEED_REMAP)
           /\ loc' = [loc EXCEPT !.uk = "done"] /\ pc' = "update" /\ UNCHANGED expect
  <2>1. /\ loc'.mk = loc.mk /\ loc'.lb = loc.lb /\ loc'.uk = "done" /\ loc'.rk = loc.rk
    BY <1>1, <1>6 DEF Locals
  <2>2. /\ ni'.block_mapping = ni.block_mapping /\ ni'.main_ba = ni.main_ba
        /\ ni'.backup_ba = ni.backup_ba /\ ni'.protected = ni.protected
    BY <1>1, <1>6, SetStateRest DEF BlockState
  <2>3. ni'.data_count = ni.data_count /\ \A b \in Blocks : b # pb => ni'.block_state[b] = ni.block_state[b]
    BY <1>1, <1>6 DEF nmbm_set_block_state, Instance
  <2>4. \A b \in Blocks : cell'[b] = cell[b] \/ (b = pb /\ cell'[b] = Torn)
    BY <1>1, <1>3, <1>6
  <2>5. Torn.k # "table"
    BY DEF Torn
  <2>6. Shrinks
    BY <1>1, <2>4, <2>5 DEF Shrinks
  <2>7. Touches(loc.lb, pb)
    BY <1>1, <1>2, <1>3, <2>2, <2>3, <2>4, <2>6 DEF Touches
  <2>8. /\ pc' \notin RangeUser /\ pc' \notin Starting /\ pc' \notin Remapping
    BY <1>6 DEF RangeUser, Starting, Remapping
  <2>9. Tables' = Tables /\ \A b \in Tables : TableIn(b)' = TableIn(b)
    BY <1>1, <2>7, TouchSpares
  <2>10. Pledged' = Pledged
    BY <1>6 DEF Pledged
  <2>11. SyncInv'
    <3>1. AllSynced
      BY <1>1 DEF DataInv, SyncInv, Active
    <3>2. \A l \in LBlocks : Excused(l) => Excused(l)'
      BY <1>4, <1>6, <2>2 DEF Excused
    <3>3. AllSynced'
      BY <2>2, <2>9, <3>1, <3>2 DEF AllSynced, Synced
    <3> QED BY <1>6, <2>1, <2>8, <3>3 DEF SyncInv
  <2>12. CallerInv'
    BY <1>1, <1>4, <1>6, <2>1, <2>2, <2>3, <2>10 DEF CallerInv
  <2>13. \A l \in Pledged' : l \in Pledged /\ l # loc.lb /\ expect'[l] = expect[l]
    BY <1>4, <1>6, <2>10
  <2> QED BY <1>1, <2>7, <2>8, <2>11, <2>12, <2>13, TouchData
<1> QED BY <1>2, <1>5, <1>6 DEF nmbm_write_logic_page

\* nmbm_mark_bad_block gives the logic block up.
LEMMA MarkBadData ==
  ASSUME ~MarkMayFail, Sound, DataInv, nmbm_mark_bad_block PROVE DataInv'
<1>1. /\ pc = "idle" /\ pc \notin Starting /\ pc \notin RangeUser /\ pc \notin Remapping
      /\ pc # "load_failed" /\ ni \in Instance /\ pc' = "update" /\ UNCHANGED <<cell, w>>
      /\ pc' \notin RangeUser /\ pc' \notin Starting /\ pc' \notin Remapping
      /\ ~ni.protected /\ loc = L0 /\ w = W0 /\ expect \in [LBlocks -> Expected]
  BY LogicTypes DEF nmbm_mark_bad_block, Begin, Idle, Starting, RangeUser, Remapping, Sound,
                    IndInv, ReturnInv
<1>2. PICK lb \in Markable :
        /\ ni.block_mapping[lb] # Unmapped
        /\ ni' = nmbm_set_block_state([ni EXCEPT !.block_mapping[lb] = Unmapped],
                                      {ni.block_mapping[lb]}, BLOCK_ST_BAD)
        /\ oob' = oob \cup {ni.block_mapping[lb]}
        /\ loc' = [loc EXCEPT !.lb = lb, !.uk = "bad_done"]
        /\ expect' = [expect EXCEPT ![lb] = "any"]
  BY DEF nmbm_mark_bad_block, Begin, Idle
<1>3. PICK pb : pb = ni.block_mapping[lb]
  OBVIOUS
<1>4. PICK n : n = [ni EXCEPT !.block_mapping[lb] = Unmapped]
  OBVIOUS
<1>5. lb \in LBlocks
  BY EnvironmentAssumption
<1>6. /\ n \in Instance /\ n.block_state = ni.block_state /\ n.main_ba = ni.main_ba
      /\ n.backup_ba = ni.backup_ba /\ n.protected = ni.protected
      /\ n.data_count = ni.data_count /\ n.block_mapping[lb] = Unmapped
      /\ \A l \in LBlocks : l # lb => n.block_mapping[l] = ni.block_mapping[l]
  BY <1>1, <1>4, <1>5 DEF Instance, Mapping
<1>7. ni' = nmbm_set_block_state(n, {pb}, BLOCK_ST_BAD) /\ oob' = oob \cup {pb}
  BY <1>2, <1>3, <1>4
<1>8. /\ ni'.block_mapping = n.block_mapping /\ ni'.main_ba = ni.main_ba
      /\ ni'.backup_ba = ni.backup_ba /\ ni'.protected = ni.protected
  BY <1>6, <1>7, SetStateRest DEF BlockState
<1>9. ni'.data_count = ni.data_count /\ \A b \in Blocks : b # pb => ni'.block_state[b] = ni.block_state[b]
  BY <1>6, <1>7 DEF nmbm_set_block_state, Instance
<1>10. /\ loc'.lb = lb /\ loc'.uk = "bad_done" /\ loc'.rk = "off" /\ loc'.mk = "off" /\ w'.k = "off"
       /\ loc.uk = "off"
  BY <1>1, <1>2 DEF L0, W0
<1>11. Touches(lb, pb)
  BY <1>1, <1>2, <1>3, <1>5, <1>6, <1>7, <1>8, <1>9 DEF Touches, Shrinks
<1>12. Tables' = Tables /\ \A b \in Tables : TableIn(b)' = TableIn(b)
  BY <1>1, <1>11, TouchSpares
<1>13. /\ expect'[lb] = "any" /\ \A l \in LBlocks : l # lb => expect'[l] = expect[l]
  BY <1>1, <1>2, <1>5
<1>14. \A l \in Pledged' : l \in Pledged /\ l # lb /\ expect'[l] = expect[l]
  BY <1>13 DEF Pledged
<1>15. SyncInv'
  <2>1. AllSynced
    BY <1>1 DEF DataInv, SyncInv, Active
  <2>2. \A l \in LBlocks : Excused(l) \/ l = lb => Excused(l)'
    BY <1>1, <1>6, <1>8, <1>10, <1>13 DEF Excused
  <2>3. \A l \in LBlocks : l # lb => ni'.block_mapping[l] = ni.block_mapping[l]
    BY <1>6, <1>8
  <2>4. AllSynced'
    BY <1>12, <2>1, <2>2, <2>3 DEF AllSynced, Synced
  <2> QED BY <1>1, <1>10, <2>4 DEF SyncInv
<1>16. CallerInv'
  BY <1>1, <1>10, <1>14 DEF CallerInv
<1> QED BY <1>1, <1>11, <1>14, <1>15, <1>16, TouchData

\* The power is cut: what the chip was at work on is no user's.
LEMMA PowerFailsData ==
  ASSUME TableBlocks = 1, Sound, DataInv, PowerFails PROVE DataInv'
<1>1. PowerOff /\ oob' = oob /\ expect' = expect /\ pc' = "off" /\ cell \in [Blocks -> Content]
  BY DEF PowerFails, PowerOff, hist, Sound, IndInv, TypeOK
<1>2. Shrinks
  BY <1>1 DEF PowerFails, Shrinks, Torn, Signature
<1>3. \A b \in Blocks : cell'[b] = cell[b] \/ b \in InFlight
  BY <1>1 DEF PowerFails
<1>4. ASSUME NEW lb \in Pledged, Mounted PROVE Spared(ni.block_mapping[lb])
  <2>1. lb \in LBlocks /\ Serves(lb, ni.block_mapping[lb], ni.block_state)
    BY <1>4 DEF Pledged, DataInv, PledgeInv
  <2>2. PICK p : p = ni.block_mapping[lb]
    OBVIOUS
  <2>3. p \in Blocks
    BY <2>1, <2>2, LogicTypes DEF Serves, Sound
  <2>4. p \notin InFlight
    <3>1. pc \notin {"sig_erase", "sig_program"}
      BY <1>4 DEF Mounted, Starting
    <3>2. ASSUME pc \in {"write", "erase", "program"}, w.ba < w.limit PROVE p # w.ba
      BY <2>1, <2>2, <3>2, MappedSafe
    <3>3. pc = "program" => w.ba < w.limit
      BY DEF Sound, IndInv, FrameInv, RangeUser
    <3>4. pc = "write" /\ ~WriteReturns => w.ba < w.limit
      BY Numbers DEF WriteReturns, Sound
    <3>5. ASSUME pc \in {"er_try", "wr_program"} PROVE p # ni.block_mapping[loc.lb]
      <4>1. loc.lb # lb /\ loc.lb \in LBlocks
        BY <1>4, <3>5, LogicTypes DEF DataInv, CallerInv, Sound
      <4> QED BY <2>1, <2>2, <4>1 DEF Serves, Sound, LayInv, MapInv, Apart
    <3> QED BY <3>1, <3>2, <3>3, <3>4, <3>5 DEF InFlight
  <2> QED BY <1>1, <1>3, <2>2, <2>3, <2>4 DEF Spared
<1>5. ASSUME NEW lb \in Pledged, ~Mounted, NEW b \in Tables' PROVE Spared(TableIn(b).map[lb])
  <2>1. b \in Tables
    BY <1>2, ShrinkTables
  <2>2. pc \notin {"sig_erase", "sig_program"}
    BY <2>1 DEF Sound, TabInv, SeekInv
  <2>3. InFlight = {}
    BY <1>5, <2>2 DEF Mounted, Starting, InFlight
  <2>4. Serves(lb, TableIn(b).map[lb], TableIn(b).state)
    BY <2>1 DEF DataInv, PledgeInv
  <2>5. lb \in LBlocks /\ TableIn(b) \in InfoTable
    BY <2>1, TableValue DEF Pledged, Sound, IndInv
  <2>6. TableIn(b).map[lb] \in Blocks
    BY <2>4, <2>5 DEF Serves, InfoTable, Mapping
  <2> QED BY <1>1, <1>3, <2>3, <2>6 DEF Spared
<1>6. PledgeInv'
  BY <1>1, <1>2, <1>4, <1>5, PledgeOff DEF DataInv
<1> QED BY <1>1, <1>6, DataOff

\* A step that changes nothing.
LEMMA StutterData ==
  ASSUME DataInv, UNCHANGED <<cell, oob, ni, pc, w, loc, expect>> PROVE DataInv'
<1>1. /\ Tables' = Tables /\ (\A b : TableIn(b)' = TableIn(b)) /\ Pledged' = Pledged
      /\ (Mounted' <=> Mounted) /\ (Active' <=> Active) /\ (\A k : At(k)' <=> At(k))
  BY SameTables DEF Pledged, Mounted, Active, At
<1>2. \A lb : Told(lb)' = Told(lb) /\ (Excused(lb)' <=> Excused(lb))
  BY DEF Told, Excused
<1>3. \A b : Synced(b)' <=> Synced(b)
  BY <1>1, <1>2 DEF Synced
<1>4. PledgeInv'
  BY <1>1, <1>2 DEF DataInv, PledgeInv, Serves
<1>5. SyncInv'
  BY <1>1, <1>3 DEF DataInv, SyncInv, AllSynced, Old
<1>6. CallerInv'
  BY <1>1 DEF DataInv, CallerInv
<1>7. StandInv'
  BY <1>1 DEF DataInv, StandInv, Kept
<1> QED BY <1>4, <1>5, <1>6, <1>7 DEF DataInv

-----------------------------------------------------------------------------
(* The invariant is inductive.                                             *)

LEMMA DataInvInit == Init => DataInv
<1> SUFFICES ASSUME Init PROVE DataInv
  OBVIOUS
<1>1. Pledged = {}
  BY DEF Init, NoExpectation, Pledged
<1>2. pc = "off" /\ loc = L0 /\ w = W0
  BY DEF Init
<1> QED BY <1>1, <1>2 DEF DataInv, PledgeInv, SyncInv, CallerInv, StandInv, Active, Starting,
                          RangeUser, At, Remapping, L0, W0

LEMMA DataInvNext ==
  ASSUME ~MarkMayFail, TableBlocks = 1
  PROVE  Sound /\ Sound' /\ DataInv /\ [Next]_vars => DataInv'
<1> SUFFICES ASSUME Sound, Sound', DataInv, [Next]_vars PROVE DataInv'
  OBVIOUS
<1>1. CASE DriverStep
  <2>1. WriteReturn => DataInv'
    BY ReturnData DEF WriteReturn, hist
  <2>2. CreateDone => DataInv'
    BY LoadDoneData, QuietOffData DEF CreateDone, chip, hist
  <2>3. Detached => DataInv'
    BY QuietOffData DEF Detached, chip, hist
  <2>4. nmbm_write_signature \/ SignatureProgram => DataInv'
    BY SignatureData
  <2> QED BY <1>1, <2>1, <2>2, <2>3, <2>4, WriteEraseData, WriteProgramData, EraseRangeData,
     RebuildMainData, RebuildBackupData, UpdateData, UpdateBackupData, UpdateMainData,
     RescueTmpData, RescueMainData, MapBlockData, MapFailedData,
     CreateInfoData, CreateData, SearchFirstData, SearchSecondData,
     LoadInfoData, UpdateSingleData, RescueFrontData, RescueNextData, LoadDoneData,
     EraseLogicData, EraseMappedData, WriteLogicData, EndData
     DEF DriverStep
<1>2. CASE UserStep
  BY <1>2, AttachData, BeginData, MarkBadData, EndData DEF UserStep
<1>3. CASE PowerFails
  BY <1>3, PowerFailsData
<1>4. CASE UNCHANGED vars
  BY <1>4, StutterData DEF vars
<1> QED BY <1>1, <1>2, <1>3, <1>4 DEF Next, Retired

\* The tables are what an attach would load,
LEMMA TablesLoad ==
  ASSUME TableBlocks = 1
  PROVE  Sound => LoadableAt(cell, oob) = Tables
<1> SUFFICES ASSUME Sound PROVE LoadableAt(cell, oob) = Tables
  OBVIOUS
<1>1. LoadableAt(cell, oob) \subseteq Tables
  BY LoadableInTables
<1>2. ASSUME NEW b \in Tables PROVE b \in LoadableAt(cell, oob)
  <2>1. /\ b \in Blocks /\ b \in Nat /\ b \notin oob /\ TableIn(b) \in InfoTable
        /\ cell[b].k = "table" /\ cell[b].i \in 1 .. TableBlocks /\ cell[b].t = TableIn(b)
        /\ cell[b] = Chunk(cell[b].i, TableIn(b))
    BY TableValue DEF Sound, IndInv, TableIn
  <2>2. cell[b].i = 1 /\ MgmtStart <= b
    BY <2>1 DEF Sound, TabInv, ChipTables
  <2>3. PICK s \in Found : b + 1 < s
    BY DEF Sound, TabInv, SightInv, LayInv, ChipInv
  <2>4. Found \subseteq 0 .. BlockCount /\ Found \subseteq Nat
    BY GeometryAssumption DEF Found, nmbm_find_signature
  <2>5. PICK sig : sig = Max(Found)
    OBVIOUS
  <2>6. sig \in Found /\ (\A y \in Found : y <= sig)
    BY <2>3, <2>4, <2>5, MaxNat, GeometryAssumption
  <2>7. OnChip(b, TableIn(b), Found)
    BY <2>1 DEF Sound, LayInv, ChipInv
  <2>8. nmbm_check_info_table(TableIn(b), b, sig)
    <3>1. ASSUME NEW lb \in LBlocks
          PROVE  TableIn(b).map[lb] \notin MgmtStart .. b /\ TableIn(b).map[lb] # sig
      <4>1. TableIn(b).map \in Mapping
        BY <2>1 DEF InfoTable
      <4>2. TableIn(b).map[lb] \in Int
        BY <4>1, MapNumbers
      <4>3. TableIn(b).map[lb] < MgmtStart \/ b + 1 < TableIn(b).map[lb]
        BY <2>7 DEF OnChip, Above
      <4>4. PICK t \in Found : TableIn(b).map[lb] < t
        BY <2>7 DEF OnChip, Below
      <4>5. t \in Int /\ sig \in Int /\ t <= sig /\ MgmtStart \in Int
        BY <2>4, <2>6, GeometryAssumption
      <4> QED BY <2>1, <4>2, <4>3, <4>4, <4>5
    <3>2. TableIn(b).state[b] = BLOCK_ST_GOOD
      BY DEF Sound, TabInv, ChipTables
    <3>3. b + TableBlocks - 1 = b /\ b .. b = {b}
      BY <2>1
    <3> QED BY <3>1, <3>2, <3>3 DEF nmbm_check_info_table
  <2>9. TableAt(cell, b, TableIn(b)) /\ TableRange(b) \cap oob = {}
    <3>1. b + 1 - 1 = b /\ b + TableBlocks - 1 = b /\ b .. b = {b}
      BY <2>1
    <3>2. \A i \in 1 .. TableBlocks : i = 1
      OBVIOUS
    <3> QED BY <2>1, <2>2, <3>1, <3>2 DEF TableAt, TableRange
  <2>10. b \in MgmtStart .. BlockCount - 1 /\ IsHeader(cell[b])
    BY <2>1, <2>2, GeometryAssumption DEF Blocks, IsHeader
  <2>11. b < sig - TableBlocks
    BY <2>1, <2>3, <2>4, <2>6
  <2>12. nmbm_find_signature(cell, oob) # {} /\ sig = Max(nmbm_find_signature(cell, oob))
    BY <2>3, <2>5 DEF Found
  <2> QED BY <2>1, <2>8, <2>9, <2>10, <2>11, <2>12 DEF LoadableAt
<1> QED BY <1>1, <1>2

\* of which it adopts one with the highest write count.
LEMMA RecoveredNewest ==
  ASSUME TableBlocks = 1
  PROVE  Sound => IF Tables = {} THEN Recovered = {}
                  ELSE \E a \in Tables :
                         /\ Recovered = {TableIn(a)}
                         /\ \A b \in Tables : TableIn(b).write_count <= TableIn(a).write_count
<1> SUFFICES ASSUME Sound
             PROVE  IF Tables = {} THEN Recovered = {}
                    ELSE \E a \in Tables :
                           /\ Recovered = {TableIn(a)}
                           /\ \A b \in Tables : TableIn(b).write_count <= TableIn(a).write_count
  OBVIOUS
<1>1. LoadableAt(cell, oob) = Tables
  BY TablesLoad
<1>2. CASE Tables = {}
  BY <1>1, <1>2 DEF Recovered, RecoveredFrom
<1>3. CASE Tables # {}
  <2>1. Recovered = {Adopted(cell, Tables)}
    BY <1>1, <1>3 DEF Recovered, RecoveredFrom
  <2>2. Tables \subseteq Nat /\ \A b \in Tables : TableIn(b).write_count \in Nat
    BY TableValue DEF Sound, IndInv, InfoTable
  <2>3. PICK first \in Tables : first = Min(Tables) /\ \A b \in Tables : first <= b
    BY <1>3, <2>2, MinNat
  <2>4. PICK rest : rest = {b \in Tables : first + TableBlocks <= b}
    OBVIOUS
  <2>5. PICK second \in Tables : second = (IF rest = {} THEN first ELSE Min(rest)) /\ (rest # {} => second \in rest)
    <3>1. CASE rest = {}
      BY <3>1
    <3>2. CASE rest # {}
      BY <2>2, <2>4, <3>2, MinNat
    <3> QED BY <3>1, <3>2
  <2>6. \A b \in Tables : b = first \/ b = second
    <3>1. ASSUME NEW b \in Tables, b # first PROVE b = second
      <4>1. b \in rest /\ rest # {}
        BY <2>2, <2>3, <2>4, <3>1
      <4>2. second # first
        BY <2>2, <2>4, <2>5, <4>1
      <4> QED BY <3>1, <4>2 DEF Sound, TabInv, ChipTables
    <3> QED BY <3>1
  <2>7. Adopted(cell, Tables) = IF TableIn(second).write_count > TableIn(first).write_count
                                  THEN TableIn(second) ELSE TableIn(first)
    BY <2>3, <2>4, <2>5 DEF Adopted, TableIn
  <2>8. CASE TableIn(second).write_count > TableIn(first).write_count
    <3>1. /\ Recovered = {TableIn(second)}
          /\ \A b \in Tables : TableIn(b).write_count <= TableIn(second).write_count
      BY <2>1, <2>2, <2>6, <2>7, <2>8
    <3> QED BY <1>3, <3>1
  <2>9. CASE ~(TableIn(second).write_count > TableIn(first).write_count)
    <3>1. /\ Recovered = {TableIn(first)}
          /\ \A b \in Tables : TableIn(b).write_count <= TableIn(first).write_count
      BY <2>1, <2>2, <2>6, <2>7, <2>9
    <3> QED BY <1>3, <3>1
  <2> QED BY <1>3, <2>8, <2>9
<1> QED BY <1>2, <1>3

-----------------------------------------------------------------------------
(* What follows from the invariant.                                        *)

\* The table that the next attach adopts serves every user.
LEMMA DataInvRecovers ==
  ASSUME TableBlocks = 1
  PROVE  Sound /\ DataInv => DataRecoverable
<1> SUFFICES ASSUME Sound, DataInv, NEW t \in Recovered, NEW lb \in LBlocks
             PROVE  /\ expect[lb] = "data" => t.map[lb] # Unmapped /\ cell[t.map[lb]] = Data(lb)
                    /\ expect[lb] = "blank" => t.map[lb] # Unmapped /\ cell[t.map[lb]] = Blank
  BY DEF DataRecoverable
<1>1. PICK a \in Tables : t = TableIn(a)
  BY RecoveredNewest
<1>2. lb \in Pledged => Serves(lb, t.map[lb], t.state)
  BY <1>1 DEF DataInv, PledgeInv
<1> QED BY <1>2 DEF Pledged, Serves, Told

\* The mapping in memory serves every user between operations.
LEMMA DataInvIntact == Sound /\ DataInv => DataIntact
<1> SUFFICES ASSUME Sound, DataInv, Idle, NEW lb \in LBlocks
             PROVE  /\ expect[lb] = "data" => nmbm_read(lb) = Data(lb)
                    /\ expect[lb] = "blank" => nmbm_read(lb) = Blank
  BY DEF DataIntact
<1>1. pc \notin Starting /\ Mounted
  BY DEF Idle, Starting, Mounted
<1>2. lb \in Pledged =>
        Serves(lb, ni.block_mapping[lb], ni.block_state) /\ lb < ni.data_count
  BY <1>1 DEF DataInv, PledgeInv
<1>3. lb \in Int /\ ni.data_count \in Int
  BY LogicTypes DEF Sound
<1> QED BY <1>2, <1>3 DEF Pledged, Serves, Told, nmbm_read, Reachable, Idle

\* An instance that works has its main table on the chip between operations.
LEMMA MainStands == Sound /\ DataInv /\ Idle => ni.main_ba \in Tables
<1> SUFFICES ASSUME Sound, DataInv, Idle PROVE ni.main_ba \in Tables
  OBVIOUS
<1>1. Active /\ pc \notin RangeUser
  BY DEF Idle, Active, Starting, RangeUser
<1>2. Placed(ni)
  BY DEF Sound, LayInv, PlaceInv, Idle, Starting, At
<1>3. ni.main_ba # 0
  BY <1>2, Numbers, GeometryAssumption DEF Placed
<1> QED BY <1>1, <1>3 DEF DataInv, StandInv

\* Between operations the tables have the mapping in memory.
LEMMA DataInvSaved ==
  ASSUME TableBlocks = 1
  PROVE  Sound /\ DataInv => MappingSaved
<1> SUFFICES ASSUME Sound, DataInv, Idle
             PROVE  \E t \in Recovered : \A lb \in LBlocks :
                      expect[lb] # "bad" => t.map[lb] = ni.block_mapping[lb]
  BY DEF MappingSaved
<1>1. PICK a \in Tables : Recovered = {TableIn(a)}
  BY MainStands, RecoveredNewest
<1>2. Active /\ pc \notin RangeUser /\ pc \notin Remapping \cup {"update"}
  BY DEF Idle, Active, Starting, RangeUser, Remapping
<1>3. Synced(a)
  BY <1>2 DEF DataInv, SyncInv, AllSynced
<1>4. loc.uk # "bad_done"
  BY DEF DataInv, CallerInv, Idle, RangeUser
<1>5. \A lb \in LBlocks : expect[lb] # "bad" => TableIn(a).map[lb] = ni.block_mapping[lb]
  BY <1>3, <1>4 DEF Synced, Excused
<1> QED BY <1>1, <1>5

\* An attach can load the main table.
LEMMA DataInvMain ==
  ASSUME TableBlocks = 1
  PROVE  Sound /\ DataInv => MainTableReadable
BY MainStands, TablesLoad DEF MainTableReadable

\* The invariant holds where nmbm_map_block passes no bad block.
LEMMA DataInvariance ==
  ASSUME ~MarkMayFail, TableBlocks = 1
  PROVE  Spec /\ []TopIsGood => [](Sound /\ DataInv)
<1>1. Init => Sound /\ DataInv
  BY IndInvInit, LayInvInit, TabInvInit, DataInvInit DEF Sound
<1>2. (Sound /\ DataInv) /\ TopIsGood /\ [Next]_vars => (Sound /\ DataInv)'
  BY IndInvNext, LayInvNext, TabInvNext, TabInvIdentifies, DataInvNext DEF Sound
<1> QED BY <1>1, <1>2, PTL DEF Spec

-----------------------------------------------------------------------------
(* The theorems.                                                           *)

\* Whatever blocks fail and wherever the power is cut, the table that the next
\* nmbm_attach adopts leads every logic block to the physical block with what
\* its user was last told it holds.
THEOREM DataIsRecoverable ==
  ASSUME ~MarkMayFail, TableBlocks = 1
  PROVE  Spec /\ []TopIsGood => []DataRecoverable
BY DataInvariance, DataInvRecovers, PTL

\* Between operations nmbm_read_single_page returns what was written to a
\* logic block, and blank pages of one that was erased.
THEOREM DataStaysIntact ==
  ASSUME ~MarkMayFail, TableBlocks = 1
  PROVE  Spec /\ []TopIsGood => []DataIntact
BY DataInvariance, DataInvIntact, PTL

\* No operation returns before nmbm_update_info_table has put its mapping on
\* the chip, in the table that the next attach adopts.
THEOREM MappingIsSaved ==
  ASSUME ~MarkMayFail, TableBlocks = 1
  PROVE  Spec /\ []TopIsGood => []MappingSaved
BY DataInvariance, DataInvSaved, PTL

\* Between operations the block main_table_ba holds a table that
\* nmbm_load_info_table accepts.
THEOREM MainTableStands ==
  ASSUME ~MarkMayFail, TableBlocks = 1
  PROVE  Spec /\ []TopIsGood => []MainTableReadable
BY DataInvariance, DataInvMain, PTL

\* Where only data blocks wear out and the supply does not fail, nothing is
\* assumed of the behaviour: every one keeps its users' data.
THEOREM DataSafeWithoutCuts ==
  ASSUME ~MarkMayFail, TableBlocks = 1, ~PowerCut, Markable = {},
         FactoryBad \cup Weak \subseteq LBlocks
  PROVE  Spec => [](DataRecoverable /\ DataIntact /\ MappingSaved /\ MainTableReadable)
<1>1. Weak \subseteq LBlocks
  OBVIOUS
<1>2. Spec => []TornSeen
  BY <1>1, Invariance, WeakAlways, SearchAboveData, PTL
<1>3. Spec => []TopIsGood
  BY <1>2, Invariance, MarkInvariance, WeakAlways, SparesAreGood, PTL
<1> QED BY <1>3, DataIsRecoverable, DataStaysIntact, MappingIsSaved, MainTableStands, PTL

-----------------------------------------------------------------------------
(* What a step does to the tables on the chip.                             *)

TablesStay == Tables' = Tables /\ \A b \in Tables : TableIn(b)' = TableIn(b)

\* A loop erases the table that it is to replace.
OldLost ==
  /\ pc = "write" /\ w.i = 1 /\ w.k \in Writers /\ w.ba \in Old(w.k)
  /\ Tables' = Tables \ {w.ba} /\ Tables' \subseteq Kept(w.k) \cup Old(w.k)
  /\ Kept(w.k) \ {0} \subseteq Tables'
  /\ \A b \in Tables' : TableIn(b)' = TableIn(b)

\* A loop writes the table it was called for.
TableNew ==
  /\ pc = "program" /\ w.ba \notin Tables /\ Tables \subseteq Kept(w.k)
  /\ Tables' = Tables \cup {w.ba} /\ cell'[w.ba].t = ni.cache
  /\ \A b \in Tables : TableIn(b)' = TableIn(b)

\* What becomes of the block that a loop is at.
LEMMA LoopEffect ==
  ASSUME TableBlocks = 1, Sound, DataInv, pc \in {"write", "program", "erase"}, w.ba < w.limit,
         w.k \in Writers => w.i = 1, Shrinks,
         \A b \in Blocks : b # w.ba => cell'[b] = cell[b] /\ (b \in oob' => b \in oob)
  PROVE  TablesStay \/ OldLost
<1>1. Tables' \subseteq Tables /\ \A b \in Tables' : TableIn(b)' = TableIn(b)
  BY ShrinkTables
<1>2. \A b \in Tables : b # w.ba => b \in Tables'
  BY DEF Tables
<1>3. CASE w.ba \notin Tables \/ w.ba \in Tables'
  BY <1>1, <1>2, <1>3 DEF TablesStay
<1>4. CASE w.ba \in Tables /\ w.ba \notin Tables'
  <2>1. 0 \notin Tables
    BY GeometryAssumption DEF Sound, TabInv, ChipTables
  <2>2. w.ba \notin Kept(w.k)
    BY <1>4, <2>1, KeptSafe
  <2>3. /\ \A b \in Tables : \/ b \in Kept(w.k)
                             \/ w.i = 1 /\ b \in Old(w.k)
                             \/ w.i # 1 /\ w.k \in Writers /\ b = w.start
        /\ pc = "program" => Tables \subseteq Kept(w.k)
    BY DEF Sound, TabInv, HomeInv, RangeUser
  <2>4. w.i = 1 /\ w.ba \in Old(w.k)
    BY <1>4, <2>2, <2>3
  <2>5. pc # "program" /\ (pc = "erase" => w.k \notin Writers)
    BY <1>4, <2>2, <2>3 DEF Sound, LayInv, WriterInv
  <2>6. w.k \in Writers
    BY <2>4 DEF Old, Writers
  <2>7. Kept(w.k) \ {0} \subseteq Tables
    BY DEF DataInv, StandInv, RangeUser
  <2>8. Tables' \subseteq Kept(w.k) \cup Old(w.k)
    BY <1>1, <2>3, <2>6
  <2> QED BY <1>1, <1>2, <1>4, <2>2, <2>4, <2>5, <2>6, <2>7, <2>8 DEF OldLost
<1> QED BY <1>3, <1>4

LEMMA FailEffect ==
  ASSUME ~MarkMayFail, TableBlocks = 1, Sound, DataInv, pc \in {"write", "program", "erase"},
         w.ba < w.limit, SkipBlock \/ EraseFails, w.k \in Writers => w.i = 1
  PROVE  TablesStay \/ OldLost
<1>1. TypeOK /\ w.ba \in Blocks
  BY InLoop DEF IndInv, Sound
<1>2. Shrinks /\ \A b \in Blocks : b # w.ba => cell'[b] = cell[b] /\ (b \in oob' => b \in oob)
  <2>1. CASE SkipBlock
    BY <2>1 DEF SkipBlock, Shrinks
  <2>2. CASE EraseFails
    <3>1. oob' = oob \cup {w.ba} /\ \A a \in Blocks : cell'[a].k = "table" => cell'[a] = cell[a]
      BY <1>1, <2>2, FailMarks DEF EraseFails
    <3>2. cell' = [cell EXCEPT ![w.ba] = Torn]
      BY <2>2 DEF EraseFails, FailBlock
    <3> QED BY <1>1, <3>1, <3>2 DEF TypeOK, Shrinks
  <2> QED BY <2>1, <2>2
<1> QED BY <1>2, LoopEffect

\* The frame of a loop that has a block to go to.
LEMMA FirstChunk ==
  ASSUME TableBlocks = 1, Sound
  PROVE  /\ pc = "write" /\ ~WriteReturns => w.i = 1 /\ w.ba < w.limit
         /\ pc = "program" => w.i = 1 /\ w.ba < w.limit
         /\ pc = "erase" => w.k \notin Writers
<1>1. w \in Frame /\ w.i \in Nat /\ w.i # 0 /\ w.ba \in Nat /\ w.limit \in Int
  BY DEF Sound, IndInv, TypeOK, Frame
<1>2. pc = "program" => w.ba < w.limit /\ w.i <= TableBlocks
  BY DEF Sound, IndInv, FrameInv, RangeUser
<1>3. pc = "erase" => w.k \notin Writers
  BY DEF Sound, LayInv, WriterInv
<1> QED BY <1>1, <1>2, <1>3 DEF WriteReturns, Written

LEMMA EraseEffect ==
  ASSUME TableBlocks = 1, Sound, DataInv, pc \in {"write", "erase"}, w.ba < w.limit,
         w.k \in Writers => w.i = 1, cell' = [cell EXCEPT ![w.ba] = Blank], oob' = oob
  PROVE  TablesStay \/ OldLost
<1>1. TypeOK /\ w.ba \in Blocks
  BY InLoop DEF IndInv, Sound
<1>2. \A c \in Blocks : cell'[c].k = "table" => cell'[c] = cell[c]
  BY <1>1, ErasedCell
<1>3. \A b \in Blocks : b # w.ba => cell'[b] = cell[b] /\ (b \in oob' => b \in oob)
  BY <1>1 DEF TypeOK
<1>4. Shrinks
  BY <1>2 DEF Shrinks
<1> QED BY <1>3, <1>4, LoopEffect

LEMMA WriteEraseEffect ==
  ASSUME ~MarkMayFail, TableBlocks = 1, Sound, DataInv, WriteErase PROVE TablesStay \/ OldLost
<1>1. pc = "write" /\ w.i = 1 /\ w.ba < w.limit
  BY FirstChunk DEF WriteErase
<1> QED BY <1>1, FailEffect, EraseEffect DEF WriteErase

LEMMA WriteProgramEffect ==
  ASSUME ~MarkMayFail, TableBlocks = 1, Sound, DataInv, WriteProgram
  PROVE  TablesStay \/ OldLost \/ (TableNew /\ w'.i = 2 /\ w'.k = w.k /\ ni' = ni)
<1>1. pc = "program" /\ w.i = 1 /\ w.ba < w.limit /\ w \in Frame /\ TypeOK
  BY FirstChunk, Numbers DEF WriteProgram, Sound, IndInv
<1>2. CASE EraseFails
  BY <1>1, <1>2, FailEffect
<1>3. CASE /\ cell' = [cell EXCEPT ![w.ba] = Chunk(w.i, ni.cache)]
           /\ w' = [w EXCEPT !.start = IF w.i = 1 THEN w.ba ELSE @,
                             !.i = @ + 1, !.ba = @ + 1]
           /\ UNCHANGED <<oob, ni>>
  <2>1. w.ba \in Blocks
    BY <1>1, InLoop DEF Sound
  <2>2. w'.i = 2 /\ w'.k = w.k
    BY <1>1, <1>3 DEF Frame
  <2>3. w.ba \notin oob /\ Tables \subseteq Kept(w.k) /\ 0 \notin Tables
    BY <1>1, GeometryAssumption DEF Sound, TabInv, HomeInv, ChipTables
  <2>4. /\ cell'[w.ba].k = "table" /\ cell'[w.ba].t = ni.cache
        /\ \A b \in Blocks : b # w.ba => cell'[b] = cell[b]
    BY <1>1, <1>3, <2>1 DEF TypeOK, Chunk
  <2>5. PICK n : n = w.ba
    OBVIOUS
  <2>6. n \notin Tables
    BY <1>1, <2>3, <2>5, KeptSafe
  <2>7. /\ Tables' = Tables \cup {n} /\ TableIn(n)' = ni.cache
        /\ \A b \in Tables : TableIn(b)' = TableIn(b)
    BY <1>3, <2>1, <2>3, <2>4, <2>5, <2>6 DEF Tables, TableIn
  <2> QED BY <1>1, <1>3, <2>2, <2>3, <2>4, <2>5, <2>6, <2>7 DEF TableNew
<1> QED BY <1>2, <1>3 DEF WriteProgram

LEMMA EraseRangeEffect ==
  ASSUME ~MarkMayFail, TableBlocks = 1, Sound, DataInv, nmbm_erase_range
  PROVE  TablesStay \/ OldLost
<1>1. pc = "erase" /\ w.k \notin Writers
  BY FirstChunk DEF nmbm_erase_range
<1>2. CASE UNCHANGED <<cell, oob>>
  BY <1>2, SameTables DEF TablesStay
<1>3. CASE w.ba < w.limit /\ (SkipBlock \/ EraseFails)
  BY <1>1, <1>3, FailEffect
<1>4. CASE w.ba < w.limit /\ cell' = [cell EXCEPT ![w.ba] = Blank] /\ oob' = oob
  BY <1>1, <1>4, EraseEffect
<1> QED BY <1>2, <1>3, <1>4 DEF nmbm_erase_range

\* What users' operations erase and program is no table.
LEMMA UserEffect ==
  ASSUME Sound, pc \in {"er_try", "wr_program", "idle"}, ni.protected => Tables = {}, Shrinks,
         NEW lb \in LBlocks, ni.block_mapping[lb] # Unmapped,
         \A b \in Blocks : b # ni.block_mapping[lb] => cell'[b] = cell[b] /\ (b \in oob' => b \in oob)
  PROVE  TablesStay
<1>1. ni.block_mapping[lb] \notin Tables
  <2>1. pc \notin Starting /\ pc \notin RangeUser /\ pc # "load_failed"
    BY DEF Starting, RangeUser
  <2> QED BY <2>1, UserBlockNoTable DEF Sound
<1>2. Tables' \subseteq Tables /\ \A b \in Tables' : TableIn(b)' = TableIn(b)
  BY ShrinkTables
<1>3. \A b \in Tables : b \in Tables'
  BY <1>1 DEF Tables
<1> QED BY <1>2, <1>3 DEF TablesStay

\* The block that a user's operation is about.
LEMMA WorkedBlock ==
  ASSUME Sound, DataInv, pc \in {"er_try", "wr_program"}
  PROVE  /\ loc.lb \in LBlocks /\ ni.block_mapping[loc.lb] \in Blocks
         /\ ni.block_mapping[loc.lb] # Unmapped /\ (ni.protected => Tables = {})
<1>1. loc.lb \in LBlocks /\ ni.block_mapping[loc.lb] # Unmapped
  BY LogicTypes DEF Sound, IndInv, MappedInv
<1>2. ni.block_mapping[loc.lb] \in Blocks
  BY <1>1, LogicTypes DEF Sound
<1>3. ni.protected => Tables = {}
  BY DEF DataInv, SyncInv, Sound, TabInv, UserInv
<1> QED BY <1>1, <1>2, <1>3

LEMMA EraseLogicEffect ==
  ASSUME ~MarkMayFail, Sound, DataInv, nmbm_erase_logic_block PROVE TablesStay
<1>1. pc = "er_try" /\ cell \in [Blocks -> Content] /\ TypeOK
  BY DEF nmbm_erase_logic_block, Sound, IndInv, TypeOK
<1>2. PICK pb : pb = ni.block_mapping[loc.lb]
  OBVIOUS
<1>3. loc.lb \in LBlocks /\ pb \in Blocks /\ pb # Unmapped /\ (ni.protected => Tables = {})
  BY <1>1, <1>2, WorkedBlock
<1>4. CASE UNCHANGED <<cell, oob>>
  BY <1>4, SameTables DEF TablesStay
<1>5. CASE oob' = oob /\ cell' = [cell EXCEPT ![pb] = Blank]
  <2>1. \A c \in Blocks : cell'[c].k = "table" => cell'[c] = cell[c]
    BY <1>1, <1>3, <1>5, ErasedCell
  <2>2. Shrinks /\ \A b \in Blocks : b # pb => cell'[b] = cell[b] /\ (b \in oob' => b \in oob)
    BY <1>1, <1>3, <1>5, <2>1 DEF Shrinks
  <2> QED BY <1>1, <1>2, <1>3, <2>2, UserEffect
<1>6. CASE FailBlock(pb, {Torn})
  <2>1. oob' = oob \cup {pb} /\ \A a \in Blocks : cell'[a].k = "table" => cell'[a] = cell[a]
    BY <1>1, <1>3, <1>6, FailMarks
  <2>2. cell' = [cell EXCEPT ![pb] = Torn]
    BY <1>6 DEF FailBlock
  <2>3. Shrinks /\ \A b \in Blocks : b # pb => cell'[b] = cell[b] /\ (b \in oob' => b \in oob)
    BY <1>1, <1>3, <2>1, <2>2 DEF Shrinks
  <2> QED BY <1>1, <1>2, <1>3, <2>3, UserEffect
<1> QED BY <1>2, <1>4, <1>5, <1>6 DEF nmbm_erase_logic_block, chip

LEMMA WriteLogicEffect ==
  ASSUME Sound, DataInv, nmbm_write_logic_page PROVE TablesStay
<1>1. pc = "wr_program" /\ cell \in [Blocks -> Content] /\ oob' = oob
  BY DEF nmbm_write_logic_page, Sound, IndInv, TypeOK
<1>2. PICK pb : pb = ni.block_mapping[loc.lb]
  OBVIOUS
<1>3. loc.lb \in LBlocks /\ pb \in Blocks /\ pb # Unmapped /\ (ni.protected => Tables = {})
  BY <1>1, <1>2, WorkedBlock
<1>4. PICK c \in {Data(loc.lb), Torn, cell[pb]} : cell' = [cell EXCEPT ![pb] = c]
  BY <1>1, <1>2, <1>3 DEF nmbm_write_logic_page
<1>5. Data(loc.lb).k # "table" /\ Torn.k # "table"
  BY DEF Data, Torn
<1>6. Shrinks /\ \A b \in Blocks : b # pb => cell'[b] = cell[b] /\ (b \in oob' => b \in oob)
  BY <1>1, <1>3, <1>4, <1>5 DEF Shrinks
<1> QED BY <1>1, <1>2, <1>3, <1>6, UserEffect

LEMMA MarkBadEffect ==
  ASSUME ~MarkMayFail, Sound, nmbm_mark_bad_block PROVE TablesStay
<1>1. /\ pc = "idle" /\ ~ni.protected /\ cell' = cell
  BY DEF nmbm_mark_bad_block, Begin, Idle
<1>2. PICK lb \in Markable : /\ ni.block_mapping[lb] # Unmapped
                             /\ oob' = oob \cup {ni.block_mapping[lb]}
  BY DEF nmbm_mark_bad_block, Begin, Idle
<1>3. lb \in LBlocks
  BY EnvironmentAssumption
<1>4. Shrinks /\ \A b \in Blocks : b # ni.block_mapping[lb] =>
                                     cell'[b] = cell[b] /\ (b \in oob' => b \in oob)
  BY <1>1, <1>2 DEF Shrinks
<1> QED BY <1>1, <1>2, <1>3, <1>4, UserEffect

\* A signature is written where there are no tables.
LEMMA SignatureEffect ==
  ASSUME Sound, pc \in {"sig_erase", "sig_program"} PROVE Tables = {}
BY DEF Sound, TabInv, SeekInv

LEMMA PowerFailsEffect ==
  ASSUME TableBlocks = 1, Sound, DataInv, PowerFails
  PROVE  TablesStay \/ OldLost \/ Tables = {}
<1>1. oob' = oob /\ cell \in [Blocks -> Content]
  BY DEF PowerFails, Sound, IndInv, TypeOK
<1>2. Shrinks
  BY <1>1 DEF PowerFails, Shrinks, Torn, Signature
<1>3. \A b \in Blocks : cell'[b] = cell[b] \/ b \in InFlight
  BY <1>1 DEF PowerFails
<1>4. CASE pc \in {"sig_erase", "sig_program"}
  BY <1>4, SignatureEffect
<1>5. CASE pc \in {"er_try", "wr_program"}
  <2>1. InFlight \subseteq {ni.block_mapping[loc.lb]}
    BY <1>5 DEF InFlight
  <2> QED BY <1>1, <1>2, <1>3, <1>5, <2>1, WorkedBlock, UserEffect
<1>6. CASE pc \in {"write", "program", "erase"} /\ InFlight # {}
  <2>1. InFlight \subseteq {w.ba} /\ w.ba < w.limit /\ (w.k \in Writers => w.i = 1)
    BY <1>6, FirstChunk DEF InFlight
  <2> QED BY <1>1, <1>2, <1>3, <1>6, <2>1, LoopEffect
<1>7. CASE InFlight = {}
  <2>1. \A b \in Blocks : cell'[b] = cell[b]
    BY <1>3, <1>7
  <2> QED BY <1>1, <2>1 DEF TablesStay, Tables, TableIn
<1> QED BY <1>4, <1>5, <1>6, <1>7 DEF InFlight

\* So a step leaves the tables, or is one of a loop that replaces one.
LEMMA ChipEffect ==
  ASSUME ~MarkMayFail, TableBlocks = 1, Sound, DataInv, [Next]_vars
  PROVE  TablesStay \/ OldLost \/ TableNew \/ Tables = {}
<1>1. UNCHANGED chip => TablesStay
  BY SameTables DEF chip, TablesStay
<1>2. CASE DriverStep
  <2>1. CASE \/ WriteErase \/ WriteProgram \/ nmbm_erase_range \/ nmbm_write_signature
             \/ SignatureProgram \/ nmbm_erase_logic_block \/ nmbm_write_logic_page
    BY <2>1, WriteEraseEffect, WriteProgramEffect, EraseRangeEffect, SignatureEffect,
       EraseLogicEffect, WriteLogicEffect DEF nmbm_write_signature, SignatureProgram
  <2>2. CASE \/ WriteReturn \/ RebuildMain \/ RebuildBackup
             \/ nmbm_update_info_table \/ UpdateBackup \/ UpdateMain \/ RescueTmp \/ RescueMain
             \/ nmbm_map_block \/ MapFailed \/ nmbm_create_info_table
    BY <1>1, <2>2 DEF WriteReturn, RebuildMain, RebuildBackup, nmbm_update_info_table,
       UpdateBackup, UpdateMain, RescueTmp, RescueMain, nmbm_map_block, MapFailed,
       nmbm_create_info_table, chip
  <2>3. CASE \/ CreateMap \/ CreateMapped \/ CreateDone
             \/ SearchFirst \/ SearchSecond \/ nmbm_load_info_table
             \/ UpdateSingle \/ RescueFront \/ RescueNext \/ LoadDone
             \/ EraseMapped \/ BadDone \/ OperationDone \/ Detached
    BY <1>1, <2>3 DEF CreateMap, CreateMapped, CreateDone, SearchFirst, SearchSecond,
       nmbm_load_info_table, UpdateSingle, RescueFront, RescueNext, LoadDone, EraseMapped,
       BadDone, OperationDone, Detached
  <2> QED BY <1>2, <2>1, <2>2, <2>3 DEF DriverStep
<1>3. CASE UserStep
  BY <1>1, <1>3, MarkBadEffect DEF UserStep, nmbm_attach, EraseBegin, WriteBegin, nmbm_detach
<1>4. CASE PowerFails
  BY <1>4, PowerFailsEffect
<1>5. CASE UNCHANGED vars
  BY <1>1, <1>5 DEF vars, chip
<1> QED BY <1>2, <1>3, <1>4, <1>5 DEF Next, Retired

-----------------------------------------------------------------------------
(* That the tables on the chip have one mapping, but for the one that a    *)
(* loop is to replace.                                                     *)

Uniform == \A a, b \in Tables : TableIn(a).map = TableIn(b).map

\* The table in block b is in step with what is being written.
Twin(b) == TableIn(b).map = ni.cache.map

TwinInv ==
  /\ pc \notin RangeUser /\ Active => Uniform
  /\ pc \in RangeUser =>
       /\ \A b \in Tables : \/ Twin(b)
                            \/ w.i = 1 /\ b \in Old(w.k)
                            \/ w.k = "u_backup" /\ b = ni.main_ba
       /\ w.k = "u_backup" /\ w.i = 1 => Uniform

\* An instance that is being set up, or has none, writes no tables.
LEMMA TwinOff == ASSUME pc' \in Starting \cup {"load_failed"} PROVE TwinInv'
BY DEF TwinInv, Active, Starting, RangeUser

LEMMA TwinNone == ASSUME Tables' = {} PROVE TwinInv'
BY DEF TwinInv, Uniform

\* A step outside of the loops that leaves the tables.
LEMMA TwinCalm ==
  ASSUME TwinInv, TablesStay, pc \notin RangeUser, pc \notin Starting \cup {"load_failed"},
         pc' \notin RangeUser, ~ni'.protected => ~ni.protected
  PROVE  TwinInv'
<1>1. Active' => Active
  BY DEF Active
<1>2. Uniform => Uniform'
  BY DEF Uniform, TablesStay
<1> QED BY <1>1, <1>2 DEF TwinInv

\* A step after a loop that left the tables in step.
LEMMA TwinDone ==
  ASSUME \A b \in Tables : Twin(b), TablesStay, ni'.cache = ni.cache
  PROVE  TwinInv'
<1>1. \A b \in Tables' : Twin(b)'
  BY DEF Twin, TablesStay
<1>2. Uniform'
  BY <1>1 DEF Twin, Uniform
<1> QED BY <1>1, <1>2 DEF TwinInv

\* nmbm_load_info_table rewrites the older table.
LEMMA LoadInfoTwin ==
  ASSUME TableBlocks = 1, Sound, DataInv, nmbm_load_info_table PROVE TwinInv'
<1>1. /\ pc = "loaded" /\ UNCHANGED <<cell, oob>> /\ ni \in Instance /\ loc \in Locals
  BY LogicTypes DEF nmbm_load_info_table, chip, Sound
<1>2. /\ Tables \subseteq {ni.main_ba, ni.backup_ba} /\ 0 \notin Tables
      /\ IF ni.backup_ba = 0 \/ loc.main_wc > loc.backup_wc
           THEN TableIn(ni.main_ba).map = ni.block_mapping
         ELSE IF loc.main_wc < loc.backup_wc
           THEN TableIn(ni.backup_ba).map = ni.block_mapping
         ELSE TableIn(ni.main_ba).map = ni.block_mapping /\ TableIn(ni.backup_ba).map = ni.block_mapping
  BY <1>1, LoadedData
<1>3. PICK newer, count : /\ newer = IF ni.backup_ba = 0 \/ loc.main_wc >= loc.backup_wc
                                       THEN loc.main_top ELSE loc.backup_top
                          /\ count = DataBlockCount(ni.block_mapping)
  OBVIOUS
<1>4. newer \in Int /\ count \in Nat /\ loc.main_wc \in Nat /\ loc.backup_wc \in Nat /\ loc.end \in Nat
  <2>1. ni.block_mapping \in Mapping
    BY <1>1 DEF Instance
  <2> QED BY <1>1, <1>3, <2>1, DataBlockCountType DEF Locals
<1>5. PICK n : n = [ni EXCEPT !.top_ba = newer, !.map_ba = loc.end, !.data_count = count]
  OBVIOUS
<1>6. /\ n \in Instance /\ n.block_mapping = ni.block_mapping
      /\ n.main_ba = ni.main_ba /\ n.backup_ba = ni.backup_ba
  BY <1>1, <1>4, <1>5 DEF Instance
<1>7. PICK m : m = nmbm_generate_info_table_cache(n)
  OBVIOUS
<1>8. m \in Instance /\ m.main_ba = ni.main_ba /\ m.backup_ba = ni.backup_ba
  BY <1>6, <1>7, GenerateCache
<1>9. m.cache.map = ni.block_mapping
  BY <1>6, <1>7 DEF nmbm_generate_info_table_cache, Instance
<1>10. \/ ni.backup_ba = 0 /\ ni' = m /\ pc' = "write" /\ w'.k = "rs_front" /\ w'.i = 1
       \/ /\ ni.backup_ba # 0 /\ ni' = [m EXCEPT !.dirty = TRUE] /\ loc.main_wc < loc.backup_wc
          /\ pc' = "write" /\ w'.k = "us_main" /\ w'.i = 1
       \/ /\ ni.backup_ba # 0 /\ ni' = [m EXCEPT !.dirty = TRUE] /\ loc.main_wc > loc.backup_wc
          /\ pc' = "write" /\ w'.k = "us_backup" /\ w'.i = 1
       \/ ni.backup_ba # 0 /\ ni' = m /\ pc' = "load_ok" /\ loc.main_wc = loc.backup_wc
  BY <1>3, <1>5, <1>7, <1>8 DEF nmbm_load_info_table, CallWrite
<1>11. /\ ni'.cache.map = ni.block_mapping
       /\ ni'.main_ba = ni.main_ba /\ ni'.backup_ba = ni.backup_ba
  BY <1>8, <1>9, <1>10 DEF Instance
<1>12. Tables' = Tables /\ \A b : TableIn(b)' = TableIn(b)
  BY <1>1, SameTables
<1>13. \A b : TableIn(b).map = ni.block_mapping => Twin(b)'
  BY <1>11, <1>12 DEF Twin
<1>14. CASE pc' = "load_ok"
  <2>1. ni.backup_ba # 0 /\ loc.main_wc = loc.backup_wc
    BY <1>10, <1>14
  <2>2. Uniform'
    BY <1>2, <1>4, <1>12, <2>1 DEF Uniform
  <2> QED BY <1>14, <2>2 DEF TwinInv, RangeUser
<1>15. CASE pc' = "write"
  <2>1. \A b \in Tables : Twin(b)' \/ b \in Old(w.k)'
    <3>1. CASE ni.backup_ba = 0
      BY <1>2, <1>13, <3>1
    <3>2. CASE ni.backup_ba # 0 /\ loc.main_wc < loc.backup_wc
      <4>1. w'.k = "us_main"
        BY <1>4, <1>10, <1>15, <3>2
      <4> QED BY <1>2, <1>4, <1>11, <1>13, <3>2, <4>1 DEF Old
    <3>3. CASE ni.backup_ba # 0 /\ loc.main_wc > loc.backup_wc
      <4>1. w'.k = "us_backup"
        BY <1>4, <1>10, <1>15, <3>3
      <4> QED BY <1>2, <1>4, <1>11, <1>13, <3>3, <4>1 DEF Old
    <3> QED BY <1>10, <1>15, <3>1, <3>2, <3>3
  <2>2. w'.i = 1 /\ w'.k # "u_backup"
    BY <1>10, <1>15
  <2> QED BY <1>12, <1>15, <2>1, <2>2 DEF TwinInv, RangeUser
<1> QED BY <1>10, <1>14, <1>15

\* nmbm_update_info_table begins with the backup table.
LEMMA UpdateTwin ==
  ASSUME TableBlocks = 1, Sound, DataInv, TwinInv, nmbm_update_info_table PROVE TwinInv'
<1>1. /\ pc = "update" /\ pc \notin Starting \cup {"load_failed"} /\ pc \notin RangeUser
      /\ UNCHANGED <<cell, oob>> /\ ni \in Instance /\ loc.uk \in UpdateReturn
  BY LogicTypes DEF nmbm_update_info_table, chip, Starting, RangeUser, Sound
<1>2. Tables' = Tables /\ (\A b : TableIn(b)' = TableIn(b)) /\ TablesStay
  BY <1>1, SameTables DEF TablesStay
<1>3. CASE pc' = loc.uk /\ ni' = ni
  BY <1>1, <1>2, <1>3, TwinCalm DEF UpdateReturn, RangeUser
<1>4. CASE ~ni.protected /\ ni.dirty
  <2>1. PICK n : n = nmbm_generate_info_table_cache(ni)
    OBVIOUS
  <2>2. n.main_ba = ni.main_ba /\ n.backup_ba = ni.backup_ba
    BY <1>1, <2>1, GenerateCache
  <2>3. Active /\ Placed(ni) /\ ni.main_ba # 0
    <3>1. Active /\ ~At("rb_main")
      BY <1>1, <1>4 DEF Active, At, RangeUser
    <3>2. Placed(ni)
      BY <1>1, <1>4, <3>1 DEF Sound, LayInv, PlaceInv
    <3> QED BY <3>1, <3>2, Numbers DEF Placed, Sound
  <2>4. Tables \subseteq {ni.main_ba, ni.backup_ba} /\ 0 \notin Tables /\ Uniform
    BY <1>1, <2>3, GeometryAssumption DEF Sound, TabInv, HomeInv, ChipTables, TwinInv
  <2>5. /\ ni' = n /\ pc' = "write" /\ w'.i = 1
        /\ w'.k = IF ni.backup_ba = 0 THEN "u_main" ELSE "u_backup"
    BY <1>4, <2>1, <2>2, <2>3 DEF nmbm_update_info_table, WriteMain, CallWrite
  <2>6. \A b \in Tables : b \in Old(w.k)' \/ (w'.k = "u_backup" /\ b = ni'.main_ba)
    BY <2>2, <2>4, <2>5 DEF Old
  <2>7. Uniform'
    BY <1>2, <2>4 DEF Uniform
  <2> QED BY <1>2, <2>5, <2>6, <2>7 DEF TwinInv, RangeUser
<1> QED BY <1>3, <1>4 DEF nmbm_update_info_table

\* The functions that wait for a loop: all tables are in step, unless the loop
\* was that of the backup table and the main one comes next.
LEMMA CallerTwin ==
  ASSUME TableBlocks = 1, Sound, TwinInv,
         \/ RebuildMain \/ RebuildBackup \/ UpdateBackup \/ UpdateMain \/ RescueTmp
         \/ RescueMain \/ UpdateSingle \/ RescueFront \/ RescueNext
  PROVE  TwinInv'
<1>1. ni \in Instance /\ UNCHANGED <<cell, oob>>
  BY LogicTypes DEF RebuildMain, RebuildBackup, UpdateBackup, UpdateMain, RescueTmp, RescueMain,
     UpdateSingle, RescueFront, RescueNext, chip, Sound
<1>2. Tables' = Tables /\ (\A b : TableIn(b)' = TableIn(b)) /\ TablesStay
  BY <1>1, SameTables DEF TablesStay
<1>3. ni'.cache = ni.cache
  <2>1. CASE RebuildMain \/ RebuildBackup
    BY <1>1, <2>1 DEF RebuildMain, RebuildBackup, nmbm_mark_tables_clean, Instance
  <2>2. CASE UpdateBackup
    BY <1>1, <2>2 DEF UpdateBackup, WriteMain, Rebuild, nmbm_mark_tables_clean, Instance
  <2>3. CASE UpdateMain \/ RescueTmp \/ RescueMain
    BY <1>1, <2>3 DEF UpdateMain, RescueTmp, RescueMain, Rebuild, BackupBecomesMain,
       nmbm_mark_tables_clean, Instance
  <2>4. CASE UpdateSingle \/ RescueFront \/ RescueNext
    BY <1>1, <2>4 DEF UpdateSingle, RescueFront, RescueNext, BackupBecomesMain,
       nmbm_mark_tables_clean, Instance
  <2> QED BY <2>1, <2>2, <2>3, <2>4
<1>4. CASE pc = "us_backup" /\ ~Written
  <2>1. pc' = "load_failed"
    BY <1>4 DEF RebuildMain, RebuildBackup, UpdateBackup, UpdateMain, RescueTmp, RescueMain,
       UpdateSingle, RescueFront, RescueNext
  <2> QED BY <2>1, TwinOff
<1>5. CASE pc = "rs_erased"
  <2>1. pc \in RangeUser /\ w.k = pc
    BY <1>5 DEF Sound, IndInv, FrameInv, RangeUser
  <2>2. \A b \in Tables : Twin(b)
    BY <1>5, <2>1 DEF TwinInv, Old
  <2> QED BY <1>2, <1>3, <2>2, TwinDone
<1>6. CASE pc \in Writers /\ (pc # "us_backup" \/ Written)
  <2>1. pc \in RangeUser /\ w.k = pc /\ \A b \in Tables : ~(w.i = 1 /\ b \in Old(pc))
    BY <1>6, BackOld
  <2>2. \A b \in Tables : Twin(b) \/ (pc = "u_backup" /\ b = ni.main_ba)
    BY <2>1 DEF TwinInv
  <2>3. CASE pc # "u_backup"
    BY <1>2, <1>3, <2>2, <2>3, TwinDone
  <2>4. CASE pc = "u_backup"
    <3>1. UpdateBackup
      <4>1. ~RebuildMain /\ ~RebuildBackup /\ ~UpdateMain /\ ~RescueTmp /\ ~RescueMain
        BY <2>4 DEF RebuildMain, RebuildBackup, UpdateMain, RescueTmp, RescueMain
      <4>2. ~UpdateSingle /\ ~RescueFront /\ ~RescueNext
        BY <2>4 DEF UpdateSingle, RescueFront, RescueNext
      <4> QED BY <4>1, <4>2
    <3>2. Placed(ni) /\ ni.main_ba # 0
      <4>1. Placed(ni)
        BY <2>1, <2>4, PlaceNow DEF Sound, At
      <4> QED BY <4>1, Numbers DEF Sound, Placed
    <3>3. ni'.main_ba = ni.main_ba /\ pc' = "write" /\ w'.k = "u_main" /\ w'.i = 1
      <4>1. PICK n \in {nmbm_mark_tables_clean(
                           [ni EXCEPT !.backup_ba = TableStart, !.map_ba = TableEnd]),
                         [ni EXCEPT !.map_ba = ni.backup_ba, !.backup_ba = 0]},
                  limit \in {TableStart, ni.top_ba} : WriteMain(n, limit)
        BY <3>1 DEF UpdateBackup
      <4>2. n.main_ba = ni.main_ba
        BY <1>1, <4>1 DEF nmbm_mark_tables_clean, Instance
      <4> QED BY <3>2, <4>1, <4>2 DEF WriteMain, CallWrite
    <3>4. \A b \in Tables : Twin(b)' \/ b \in Old(w.k)'
      BY <1>2, <1>3, <2>2, <3>3 DEF Twin, Old
    <3> QED BY <1>2, <3>3, <3>4 DEF TwinInv, RangeUser
  <2> QED BY <2>3, <2>4
<1> QED BY <1>4, <1>5, <1>6 DEF RebuildMain, RebuildBackup, UpdateBackup, UpdateMain, RescueTmp,
     RescueMain, UpdateSingle, RescueFront, RescueNext, Writers

\* A loop that returns.
LEMMA ReturnTwin ==
  ASSUME TwinInv, pc \in {"write", "erase"}, pc' = w.k, w.k \in RangeReturn,
         UNCHANGED <<cell, oob, ni, w>>
  PROVE  TwinInv'
<1>1. Tables' = Tables /\ (\A b : TableIn(b)' = TableIn(b)) /\ TablesStay /\ pc \in RangeUser
  BY SameTables DEF TablesStay, RangeUser
<1>2. CASE w.k \in RangeUser
  BY <1>1, <1>2 DEF TwinInv, Twin, Old, Uniform
<1>3. CASE w.k \notin RangeUser
  <2>1. \A b \in Tables : Twin(b)
    BY <1>1, <1>3 DEF TwinInv, Old, RangeUser
  <2> QED BY <1>1, <2>1, TwinDone
<1> QED BY <1>2, <1>3

\* A step of a loop that puts no table on the chip.
LEMMA LoopTwin ==
  ASSUME TwinInv, pc \in {"write", "program", "erase"}, pc' \in {"write", "program", "erase"},
         TablesStay \/ OldLost, w'.k = w.k, w'.i = w.i,
         ni'.cache = ni.cache, ni'.main_ba = ni.main_ba, ni'.backup_ba = ni.backup_ba
  PROVE  TwinInv'
<1>1. Tables' \subseteq Tables /\ \A b \in Tables' : TableIn(b)' = TableIn(b)
  BY DEF TablesStay, OldLost
<1>2. pc \in RangeUser /\ pc' \in RangeUser /\ Old(w.k)' = Old(w.k)
  BY DEF RangeUser, Old
<1>3. (\A b \in Tables' : Twin(b) => Twin(b)') /\ (Uniform => Uniform')
  BY <1>1 DEF Twin, Uniform
<1> QED BY <1>1, <1>2, <1>3 DEF TwinInv

\* The table is on the chip: those that the loop keeps are in step with it.
LEMMA ProgramTwin ==
  ASSUME TableBlocks = 1, Sound, TwinInv, TableNew, pc' = "write", w'.i = 2, w'.k = w.k, ni' = ni
  PROVE  TwinInv'
<1>1. pc = "program" /\ pc \in RangeUser /\ pc' \in RangeUser /\ w.k \in Writers
  BY DEF TableNew, RangeUser, Sound, LayInv, WriterInv
<1>2. Kept(w.k) \cap Old(w.k) \subseteq {0} /\ 0 \notin Tables
  <2>1. w.k # "rb_main" => Placed(ni)
    <3>1. pc \notin Starting \cup {"load_failed"} /\ ~ni.protected
      BY <1>1, Running DEF Sound
    <3> QED BY <1>1, <3>1 DEF Sound, LayInv, PlaceInv, At
  <2>2. w.k = "rm_main" => ni.backup_ba < loc.start
    BY <1>1 DEF Sound, TabInv, ReachInv, At
  <2>3. 0 \notin Tables
    BY GeometryAssumption DEF Sound, TabInv, ChipTables
  <2> QED BY <1>1, <2>1, <2>2, <2>3, Numbers DEF Kept, Old, Writers, Placed, Sound
<1>3. \A b \in Tables : Twin(b) \/ (w.k = "u_backup" /\ b = ni.main_ba)
  BY <1>1, <1>2 DEF TwinInv, TableNew
<1>4. PICK n : n = w.ba
  OBVIOUS
<1>5. Tables' = Tables \cup {n} /\ TableIn(n)' = ni.cache /\ \A b \in Tables : TableIn(b)' = TableIn(b)
  BY <1>4 DEF TableNew, TableIn
<1>6. Twin(n)' /\ \A b \in Tables : Twin(b) => Twin(b)'
  BY <1>5 DEF Twin
<1> QED BY <1>1, <1>3, <1>5, <1>6 DEF TwinInv

\* A skipped or failed block changes nothing else in memory.
LEMMA SkipRest ==
  ASSUME Sound, pc \in {"write", "program", "erase"}, SkipBlock \/ EraseFails
  PROVE  /\ w'.k = w.k /\ w'.i = w.i /\ ni'.cache = ni.cache
         /\ ni'.main_ba = ni.main_ba /\ ni'.backup_ba = ni.backup_ba
<1>1. ni \in Instance /\ w \in Frame /\ NextBlock
  BY InLoop DEF Sound, SkipBlock, EraseFails
<1>2. w'.k = w.k /\ w'.i = w.i
  BY <1>1 DEF NextBlock, Frame
<1>3. ni' = ni \/ ni' = nmbm_set_block_state(ni, {w.ba}, BLOCK_ST_BAD)
  BY DEF SkipBlock, EraseFails
<1>4. /\ ni'.cache = ni.cache /\ ni'.main_ba = ni.main_ba /\ ni'.backup_ba = ni.backup_ba
  BY <1>1, <1>3, SetStateRest DEF BlockState
<1> QED BY <1>2, <1>4

LEMMA RangeTwin ==
  ASSUME ~MarkMayFail, TableBlocks = 1, Sound, DataInv, TwinInv,
         WriteReturn \/ WriteErase \/ WriteProgram \/ nmbm_erase_range
  PROVE  TwinInv'
<1>1. w \in Frame /\ w.k \in RangeReturn
  BY Numbers DEF Sound, Frame
<1>2. CASE WriteReturn
  BY <1>1, <1>2, ReturnTwin DEF WriteReturn
<1>3. CASE WriteErase
  <2>1. pc = "write" /\ pc' \in {"write", "program"} /\ (TablesStay \/ OldLost)
    BY <1>3, WriteEraseEffect DEF WriteErase, SkipBlock
  <2>2. (SkipBlock \/ EraseFails) \/ UNCHANGED <<ni, w>>
    BY <1>3 DEF WriteErase
  <2> QED BY <2>1, <2>2, SkipRest, LoopTwin
<1>4. CASE WriteProgram
  <2>1. pc = "program" /\ pc' = "write"
    BY <1>4 DEF WriteProgram
  <2>2. TablesStay \/ OldLost \/ (TableNew /\ w'.i = 2 /\ w'.k = w.k /\ ni' = ni)
    BY <1>4, WriteProgramEffect
  <2>3. CASE EraseFails
    <3>1. w.i = 1 /\ w.ba < w.limit
      BY <2>1, FirstChunk
    <3>2. TablesStay \/ OldLost
      BY <2>1, <2>3, <3>1, FailEffect
    <3> QED BY <2>1, <2>3, <3>2, SkipRest, LoopTwin
  <2>4. CASE TableNew /\ w'.i = 2 /\ w'.k = w.k /\ ni' = ni
    BY <2>1, <2>4, ProgramTwin
  <2>5. CASE ~EraseFails /\ (TablesStay \/ OldLost)
    <3>1. w.i = 1 /\ w.ba < w.limit /\ cell' = [cell EXCEPT ![w.ba] = Chunk(w.i, ni.cache)]
          /\ oob' = oob
      BY <1>4, <2>1, <2>5, FirstChunk DEF WriteProgram
    <3>2. w.ba \in Blocks /\ cell \in [Blocks -> Content] /\ w.ba \notin oob
      BY <2>1, <3>1, InLoop DEF Sound, IndInv, TypeOK, TabInv, HomeInv
    <3>3. cell'[w.ba].k = "table"
      BY <3>1, <3>2 DEF Chunk
    <3>4. w.ba \in Tables'
      BY <3>1, <3>2, <3>3 DEF Tables
    <3>5. Tables \subseteq Kept(w.k) /\ 0 \notin Tables
      BY <2>1, GeometryAssumption DEF Sound, TabInv, HomeInv, ChipTables
    <3>6. w.ba \notin Tables
      BY <2>1, <3>1, <3>5, KeptSafe
    <3> QED BY <2>5, <3>4, <3>6 DEF TablesStay, OldLost
  <2> QED BY <2>2, <2>3, <2>4, <2>5
<1>5. CASE nmbm_erase_range
  <2>1. pc = "erase" /\ (TablesStay \/ OldLost)
    BY <1>5, EraseRangeEffect DEF nmbm_erase_range
  <2>2. CASE pc' = w.k /\ UNCHANGED <<cell, oob, ni, w>>
    BY <1>1, <2>1, <2>2, ReturnTwin
  <2>3. CASE pc' = pc /\ (SkipBlock \/ EraseFails)
    BY <2>1, <2>3, SkipRest, LoopTwin
  <2>4. CASE pc' = pc /\ NextBlock /\ ni' = ni
    <3>1. w'.k = w.k /\ w'.i = w.i
      BY <1>1, <2>4 DEF NextBlock, Frame
    <3> QED BY <2>1, <2>4, <3>1, LoopTwin
  <2> QED BY <1>5, <2>2, <2>3, <2>4 DEF nmbm_erase_range, SkipBlock
<1> QED BY <1>2, <1>3, <1>4, <1>5

\* The other steps of an attached instance write no tables.
LEMMA PlainTwin ==
  ASSUME ~MarkMayFail, TableBlocks = 1, Sound, DataInv, TwinInv,
         \/ nmbm_map_block \/ MapFailed \/ CreateMap \/ CreateMapped \/ CreateDone \/ LoadDone
         \/ nmbm_erase_logic_block \/ EraseMapped \/ nmbm_write_logic_page \/ BadDone
         \/ OperationDone \/ Detached \/ EraseBegin \/ WriteBegin \/ nmbm_mark_bad_block
         \/ nmbm_detach
  PROVE  TwinInv'
<1>1. ni \in Instance /\ loc.mk \in MapReturn
  BY LogicTypes DEF Sound
<1>2. UNCHANGED chip => TablesStay
  BY SameTables DEF chip, TablesStay
<1>3. CASE nmbm_map_block \/ MapFailed
  <2>1. pc \in {"map", "map_failed"} /\ (pc' = "update" \/ pc' = loc.mk) /\ TablesStay
    BY <1>2, <1>3 DEF nmbm_map_block, MapFailed
  <2>2. ni'.protected = ni.protected
    BY <1>1, <1>3 DEF nmbm_map_block, MapFailed, Instance
  <2>3. pc' \notin RangeUser /\ pc \notin RangeUser /\ pc \notin Starting \cup {"load_failed"}
    BY <1>1, <2>1 DEF MapReturn, RangeUser, Starting
  <2> QED BY <2>1, <2>2, <2>3, TwinCalm
<1>4. CASE CreateDone \/ Detached
  <2>1. pc' = "off" \/ (pc = "create_done" /\ pc' = "done" /\ ni' = ni /\ TablesStay)
    BY <1>2, <1>4 DEF CreateDone, Detached, PowerOff
  <2> QED BY <2>1, TwinOff, TwinCalm DEF RangeUser, Starting
<1>5. CASE LoadDone
  <2>1. /\ pc \in {"load_ok", "load_failed"} /\ pc' = "done" /\ TablesStay
        /\ ~ni'.protected => ~ni.protected /\ pc = "load_ok"
    BY <1>1, <1>2, <1>5 DEF LoadDone, Instance
  <2>2. CASE ni'.protected
    BY <2>1, <2>2 DEF TwinInv, Active, RangeUser
  <2> QED BY <2>1, <2>2, TwinCalm DEF RangeUser, Starting
<1>6. CASE CreateMap \/ CreateMapped \/ BadDone \/ OperationDone \/ EraseBegin \/ WriteBegin \/ nmbm_detach
  <2>1. /\ pc \in {"create_map", "create_mapped", "bad_done", "done", "idle"} /\ TablesStay
        /\ pc' \in {"map", "update", "create_map", "done", "idle", "er_try", "wr_program"}
    BY <1>2, <1>6 DEF CreateMap, CreateMapped, BadDone, OperationDone, EraseBegin, WriteBegin,
       nmbm_detach, Begin, Idle
  <2>2. ni'.protected = ni.protected
    BY <1>1, <1>6 DEF CreateMap, CreateMapped, BadDone, OperationDone, EraseBegin, WriteBegin,
       nmbm_detach, Instance
  <2> QED BY <2>1, <2>2, TwinCalm DEF RangeUser, Starting
<1>7. CASE EraseMapped
  <2>1. pc = "er_mapped" /\ pc' = "update" /\ TablesStay
    BY <1>2, <1>7 DEF EraseMapped
  <2>2. PICK n \in {nmbm_set_block_state(ni, {loc.pb}, BLOCK_ST_BAD), ni} :
          ni' = n \/ ni' = [n EXCEPT !.block_mapping[loc.lb] = Unmapped]
    BY <1>7 DEF EraseMapped
  <2>3. n \in Instance /\ n.protected = ni.protected
    BY <1>1, <2>2, SetStateRest DEF BlockState
  <2>4. ni'.protected = ni.protected
    BY <2>2, <2>3 DEF Instance
  <2> QED BY <2>1, <2>4, TwinCalm DEF RangeUser, Starting
<1>8. CASE nmbm_erase_logic_block \/ nmbm_write_logic_page
  <2>1. TablesStay
    BY <1>8, EraseLogicEffect, WriteLogicEffect
  <2>2. pc \in {"er_try", "wr_program"} /\ pc' \in {"map", "done", "update"}
    BY <1>8 DEF nmbm_erase_logic_block, nmbm_write_logic_page, RemapLogicBlock
  <2>3. \/ ni' = ni
        \/ \E st \in BlockState :
             ni' = nmbm_set_block_state(ni, {ni.block_mapping[loc.lb]}, st)
    BY <1>8 DEF nmbm_erase_logic_block, nmbm_write_logic_page, RemapLogicBlock, BlockState
  <2>4. ni'.protected = ni.protected
    BY <1>1, <2>3, SetStateRest
  <2> QED BY <2>1, <2>2, <2>4, TwinCalm DEF RangeUser, Starting
<1>9. CASE nmbm_mark_bad_block
  <2>1. TablesStay /\ pc = "idle" /\ pc' = "update" /\ ~ni.protected
    BY <1>9, MarkBadEffect DEF nmbm_mark_bad_block, Begin, Idle
  <2> QED BY <2>1, TwinCalm DEF RangeUser, Starting
<1> QED BY <1>3, <1>4, <1>5, <1>6, <1>7, <1>8, <1>9

LEMMA TwinInvInit == Init => TwinInv
BY DEF Init, TwinInv, Active, Starting, RangeUser

LEMMA TwinInvNext ==
  ASSUME ~MarkMayFail, TableBlocks = 1
  PROVE  Sound /\ DataInv /\ TwinInv /\ [Next]_vars => TwinInv'
<1> SUFFICES ASSUME Sound, DataInv, TwinInv, [Next]_vars PROVE TwinInv'
  OBVIOUS
<1>1. CASE DriverStep
  <2>1. CASE nmbm_write_signature \/ SignatureProgram \/ SearchFirst \/ SearchSecond
    <3>1. pc' \in Starting
      BY <2>1 DEF nmbm_write_signature, SignatureProgram, SearchFirst, SearchSecond, PowerOff,
         TryLoadFails, Starting
    <3> QED BY <3>1, TwinOff
  <2>2. CASE nmbm_create_info_table
    <3>1. Tables = {} /\ UNCHANGED <<cell, oob>>
      BY <2>2 DEF nmbm_create_info_table, chip, Sound, TabInv, SeekInv
    <3> QED BY <3>1, SameTables, TwinNone
  <2> QED BY <1>1, <2>1, <2>2, RangeTwin, CallerTwin, PlainTwin, LoadInfoTwin, UpdateTwin
          DEF DriverStep
<1>2. CASE UserStep
  <2>1. nmbm_attach => TwinInv'
    <3>1. nmbm_attach => pc' \in Starting
      BY DEF nmbm_attach, Starting
    <3> QED BY <3>1, TwinOff
  <2> QED BY <1>2, <2>1, PlainTwin DEF UserStep
<1>3. CASE PowerFails
  BY <1>3, TwinOff DEF PowerFails, PowerOff, Starting
<1>4. CASE UNCHANGED vars
  <2>1. UNCHANGED <<cell, oob, ni, pc, w>>
    BY <1>4 DEF vars
  <2>2. Tables' = Tables /\ (\A b : TableIn(b)' = TableIn(b))
    BY <2>1, SameTables
  <2> QED BY <2>1, <2>2 DEF TwinInv, Active, Uniform, Twin, Old
<1> QED BY <1>1, <1>2, <1>3, <1>4 DEF Next, Retired

-----------------------------------------------------------------------------
(* A table that was found is found again.                                  *)

\* The hypothesis: the main table is not rewritten while it is the only one.
SoleKept == ~(At("u_main") /\ ni.backup_ba = 0)

\* A loop that is to replace a table keeps another.
LEMMA AnotherKept ==
  ASSUME Sound, DataInv, SoleKept, OldLost
  PROVE  Tables' # {}
<1>1. /\ pc = "write" /\ w.k \in Writers /\ Old(w.k) # {} /\ Kept(w.k) \ {0} \subseteq Tables'
      /\ pc \in RangeUser
  BY DEF OldLost, RangeUser
<1>2. Kept(w.k) \ {0} # {}
  <2>1. CASE w.k \in {"u_backup", "us_backup"}
    <3>1. Placed(ni)
      <4>1. pc \notin Starting \cup {"load_failed"} /\ ~ni.protected /\ ~At("rb_main")
        BY <1>1, <2>1, Running DEF At, RangeUser, Sound
      <4> QED BY <4>1 DEF Sound, LayInv, PlaceInv
    <3>2. ni.main_ba # 0
      BY <3>1, Numbers DEF Placed, Sound
    <3>3. Kept(w.k) = {ni.main_ba}
      BY <2>1 DEF Kept
    <3> QED BY <3>2, <3>3
  <2>2. CASE w.k = "rm_main"
    <3>1. ni.backup_ba < loc.start
      BY <1>1, <2>2 DEF Sound, TabInv, ReachInv, At
    <3> QED BY <2>2, <3>1, Numbers DEF Kept, Sound
  <2>3. CASE w.k = "u_main"
    BY <1>1, <2>3 DEF SoleKept, At, Kept
  <2>4. CASE w.k = "us_main"
    <3>1. ni.backup_ba # 0
      BY <1>1, <2>4 DEF Sound, LayInv, WriterInv, At
    <3> QED BY <2>4, <3>1 DEF Kept
  <2> QED BY <1>1, <2>1, <2>2, <2>3, <2>4 DEF Old, Writers
<1> QED BY <1>1, <1>2

\* What the next attach adopts, now and one step later.
NewestFound ==
  IF Tables = {} THEN Recovered = {}
  ELSE \E a \in Tables :
         /\ Recovered = {TableIn(a)}
         /\ \A b \in Tables : TableIn(b).write_count <= TableIn(a).write_count

LEMMA FoundNow == ASSUME TableBlocks = 1 PROVE Sound => NewestFound
BY RecoveredNewest DEF NewestFound

LEMMA FoundNext == ASSUME TableBlocks = 1 PROVE Sound' => NewestFound'
BY FoundNow, PTL

\* A step leaves the mapping that an attach finds, or puts the one being
\* written in its place.
LEMMA DurableStep ==
  ASSUME ~MarkMayFail, TableBlocks = 1
  PROVE  Sound /\ Sound' /\ DataInv /\ TwinInv /\ SoleKept /\ [Next]_vars =>
           (MapOf(Recovered) # {} =>
              /\ MapOf(Recovered') # {}
              /\ MapOf(Recovered') \subseteq MapOf(Recovered) \cup {ni.cache.map})
<1> SUFFICES ASSUME Sound, Sound', DataInv, TwinInv, SoleKept, [Next]_vars, MapOf(Recovered) # {}
             PROVE  /\ MapOf(Recovered') # {}
                    /\ MapOf(Recovered') \subseteq MapOf(Recovered) \cup {ni.cache.map}
  OBVIOUS
<1>1. PICK a \in Tables : /\ Recovered = {TableIn(a)}
                          /\ \A b \in Tables : TableIn(b).write_count <= TableIn(a).write_count
  BY RecoveredNewest DEF MapOf
<1>2. MapOf(Recovered) = {TableIn(a).map}
  BY <1>1 DEF MapOf
<1>3. ASSUME NEW n \in Tables', Recovered' = {TableIn(n)'},
             TableIn(n)'.map \in {TableIn(a).map, ni.cache.map}
      PROVE  /\ MapOf(Recovered') # {}
             /\ MapOf(Recovered') \subseteq MapOf(Recovered) \cup {ni.cache.map}
  BY <1>2, <1>3 DEF MapOf
<1>4. \A b \in Tables : TableIn(b).write_count \in Nat
  BY TableValue DEF Sound, IndInv, InfoTable
<1>5. Tables # {} /\ (TablesStay \/ OldLost \/ TableNew)
  BY <1>1, ChipEffect
<1>6. Tables' # {}
  BY <1>5, AnotherKept DEF TablesStay, TableNew
<1>7. PICK n \in Tables' :
         /\ Recovered' = {TableIn(n)'}
         /\ \A b \in Tables' : TableIn(b)'.write_count <= TableIn(n)'.write_count
  BY <1>6, FoundNext DEF NewestFound
<1>8. CASE TablesStay
  <2>1. n \in Tables /\ a \in Tables' /\ TableIn(n)' = TableIn(n) /\ TableIn(a)' = TableIn(a)
    BY <1>8 DEF TablesStay
  <2>2. TableIn(n).write_count = TableIn(a).write_count
    BY <1>1, <1>4, <1>7, <2>1
  <2>3. TableIn(n) = TableIn(a)
    BY <2>1, <2>2 DEF Sound, TabInv, ChipTables
  <2> QED BY <1>3, <1>7, <2>1, <2>3
<1>9. CASE OldLost
  <2>1. /\ n \in Tables /\ n # w.ba /\ TableIn(n)' = TableIn(n) /\ w.i = 1 /\ pc \in RangeUser
        /\ w.ba \in Old(w.k) /\ w.k \in Writers
    BY <1>9 DEF OldLost, RangeUser
  <2>2. n \notin Old(w.k)
    BY <2>1 DEF Old
  <2>3. TableIn(n).map = ni.cache.map \/ w.k = "u_backup"
    BY <2>1, <2>2 DEF TwinInv, Twin
  <2>4. w.k = "u_backup" => TableIn(n).map = TableIn(a).map
    BY <2>1 DEF TwinInv, Uniform
  <2> QED BY <1>3, <1>7, <2>1, <2>3, <2>4
<1>10. CASE TableNew
  <2>1. PICK m : m = w.ba
    OBVIOUS
  <2>2. /\ m \in Tables' /\ TableIn(m)' = ni.cache /\ n \in Tables \cup {m}
        /\ \A b \in Tables : TableIn(b)' = TableIn(b)
    BY <1>10, <2>1 DEF TableNew, TableIn
  <2>3. CASE n = m
    BY <1>3, <1>7, <2>2, <2>3
  <2>4. CASE n # m
    <3>1. n \in Tables /\ TableIn(n)' = TableIn(n)
      BY <2>2, <2>4
    <3>2. pc \notin Starting
      BY <1>10 DEF TableNew, Starting
    <3>3. /\ ni.cache.write_count = ni.write_count
          /\ TableIn(n).write_count < ni.write_count \/ TableIn(n) = ni.cache
      BY <3>1, <3>2 DEF Sound, TabInv, NewestInv
    <3>4. ni.cache.write_count <= TableIn(n).write_count
      BY <1>7, <2>2, <3>1
    <3>5. ni.write_count \in Nat
      BY DEF Sound, IndInv, TypeOK, Instance
    <3>6. TableIn(n) = ni.cache
      BY <1>4, <3>1, <3>3, <3>4, <3>5
    <3> QED BY <1>3, <1>7, <3>1, <3>6
  <2> QED BY <2>3, <2>4
<1> QED BY <1>5, <1>8, <1>9, <1>10

\* Once nmbm_load_info_table can find a table, every later attach finds one,
\* with the mapping that was found before or the one that was being written:
\* wherever the power is cut, and whatever fails, unless the only table is
\* rewritten in place (write_main_table of nmbm_update_info_table_once, when
\* there is no backup table).
THEOREM MappingIsDurable ==
  ASSUME ~MarkMayFail, TableBlocks = 1
  PROVE  Spec /\ []TopIsGood /\ []SoleKept => Durable
<1>1. Init => TwinInv
  BY TwinInvInit
<1>2. (Sound /\ DataInv) /\ TwinInv /\ [Next]_vars => TwinInv'
  BY TwinInvNext
<1>3. Spec /\ []TopIsGood => [](Sound /\ DataInv)
  BY DataInvariance
<1>4. Spec /\ [](Sound /\ DataInv) => []TwinInv
  BY <1>1, <1>2, PTL DEF Spec
<1>5. (Sound /\ DataInv) /\ (Sound /\ DataInv)' /\ TwinInv /\ SoleKept /\ [Next]_vars =>
        [LET old == MapOf(Recovered)
             new == MapOf(RecoveredFrom(cell', oob'))
         IN  old # {} => new # {} /\ new \subseteq old \cup {ni.cache.map}]_chip
  <2>1. Recovered' = RecoveredFrom(cell', oob')
    BY DEF Recovered
  <2> QED BY <2>1, DurableStep
<1> QED BY <1>3, <1>4, <1>5, PTL DEF Spec, Durable
=============================================================================
