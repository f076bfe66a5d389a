-------------------------- MODULE NmbmCountProofs ---------------------------
(***************************************************************************)
(* That nmbm_load_info_table may compare two info tables by write count,   *)
(* for tables of one block and chips on which bad marks can be written.    *)
(*                                                                         *)
(* A table of n blocks holds a header, a state of two bits per block and a *)
(* mapping of four bytes per block, and fits into one erase block of 128   *)
(* KB for chips of up to 30000 blocks.                                     *)
(***************************************************************************)
EXTENDS NmbmLayoutProofs

-----------------------------------------------------------------------------
(* The inductive invariant.                                                *)

\* The blocks with a table on them that the next attach can read, and what
\* they hold.  A table is one block here.
Tables == {b \in Blocks : cell[b].k = "table" /\ b \notin oob}
TableIn(b) == cell[b].t

\* Every block that is good in st is good in the table t.
Covers(t, st) == \A b \in Blocks : st[b] = BLOCK_ST_GOOD => t.state[b] = BLOCK_ST_GOOD

\* The loop of nmbm_write_mgmt_range does not use block b; no block from the
\* start of the management area up to a.
Dead(st, b) == st[b] # BLOCK_ST_GOOD \/ b \in oob
DeadBelow(st, a) == \A b \in Blocks : MgmtStart <= b /\ b < a => Dead(st, b)

\* There are at most two tables.  Two with one write count are the same, each
\* calls the blocks of both good, the newer one calls no block good that the
\* older one does not, and it leaves no usable block in front of both.
ChipTables ==
  /\ \A b \in Tables : MgmtStart <= b
  /\ \A a, b, c \in Tables : a = b \/ b = c \/ a = c
  /\ \A a, b \in Tables :
       /\ TableIn(a).write_count = TableIn(b).write_count => TableIn(a) = TableIn(b)
       /\ TableIn(a).state[b] = BLOCK_ST_GOOD
       /\ TableIn(b).write_count <= TableIn(a).write_count =>
            /\ Covers(TableIn(b), TableIn(a).state)
            /\ a # b => \A c \in Blocks : MgmtStart <= c /\ c < a /\ c < b =>
                                           Dead(TableIn(a).state, c)

\* Memory has a table's block as good, and the search would come to it.
SightInv ==
  \A b \in Tables : /\ Good(b)
                    /\ IF ni.sig_ba # 0 THEN b + 1 < ni.sig_ba ELSE \E s \in Found : b + 1 < s

\* No table is newer than what is in memory, and one as new is what was last
\* prepared for writing.
NewestInv ==
  pc \notin Starting =>
    /\ ni.cache.write_count = ni.write_count
    /\ \A b \in Tables :
         /\ TableIn(b).write_count < ni.write_count \/ TableIn(b) = ni.cache
         /\ Covers(TableIn(b), ni.block_state)

\* What is being written differs from memory in blocks that failed since.
CopyInv ==
  pc \in RangeUser =>
    /\ Covers(ni.cache, ni.block_state)
    /\ \A b \in Blocks : ni.cache.state[b] = BLOCK_ST_GOOD => Good(b) \/ b \in oob
    /\ \A b \in Tables : Covers(TableIn(b), ni.cache.state)

\* The table that the search has adopted.
Current == IF ni.backup_ba # 0 /\ loc.backup_wc > loc.main_wc
             THEN TableIn(ni.backup_ba) ELSE TableIn(ni.main_ba)

SeekInv ==
  /\ pc \in {"sig_erase", "sig_program", "create"} => Tables = {}
  /\ pc = "search1" => \A b \in Tables : loc.ba <= b
  /\ pc = "search2" => \A b \in Tables : b = ni.main_ba \/ loc.ba <= b
  /\ pc = "loaded" => Tables \subseteq {ni.main_ba, ni.backup_ba}
  /\ pc \in {"search2", "loaded"} =>
       /\ Covers(Current, ni.block_state)
       /\ ni.write_count = Current.write_count
       /\ ~ni.dirty => ni.block_state = Current.state

\* An instance that may still write tables.
Active == pc \notin Starting \cup {"load_failed"} /\ ~ni.protected

\* No usable block lies in front of the main table, nor, while the main table
\* is rescued, in front of the backup table.
FrontInv ==
  /\ Active /\ ~At("rs_front") => DeadBelow(ni.block_state, ni.main_ba)
  /\ At("rm_tmp") \/ At("rm_main") => DeadBelow(ni.block_state, ni.backup_ba)

\* The tables that a loop leaves, and the one it begins by destroying.
Kept(k) == CASE k = "rb_main" -> {}
             [] k \in {"rb_backup", "u_backup", "us_backup", "rs_front", "rs_next"} -> {ni.main_ba}
             [] k \in {"u_main", "rm_tmp", "us_main"} -> {ni.backup_ba}
             [] k = "rm_main" -> {loc.start}
             [] k = "rs_erased" -> {ni.main_ba, loc.start}
             [] OTHER -> {ni.main_ba, ni.backup_ba}
Old(k) == CASE k \in {"u_backup", "us_backup", "rm_main"} -> {ni.backup_ba}
            [] k \in {"u_main", "us_main"} -> {ni.main_ba}
            [] OTHER -> {}

\* The loops that take the first usable block of the management area.
Fronts == {"rb_main", "u_main", "rm_main", "us_main", "rs_front"}

\* Where tables are.
HomeInv ==
  /\ Active /\ pc \notin RangeUser => Tables \subseteq {ni.main_ba, ni.backup_ba}
  /\ pc \in RangeUser =>
       /\ \A b \in Tables : \/ b \in Kept(w.k)
                            \/ w.i = 1 /\ b \in Old(w.k) /\ w.ba <= b
                            \/ w.i # 1 /\ w.k \in Writers /\ b = w.start
       /\ w.k \in Fronts => DeadBelow(ni.block_state, IF w.i = 1 THEN w.ba ELSE w.start)
  /\ pc = "program" => /\ Tables \subseteq Kept(w.k)
                       /\ Good(w.ba) /\ w.ba \notin oob

\* How far a loop goes.
ReachInv ==
  /\ At("u_main") => w.limit = IF ni.backup_ba = 0 THEN ni.top_ba ELSE ni.backup_ba
  /\ At("u_backup") => w.limit = ni.top_ba
  /\ At("us_main") => w.limit = ni.backup_ba
  /\ At("rs_front") => w.limit = ni.main_ba
  /\ At("rm_main") => w.limit = loc.start /\ ni.backup_ba < loc.start
  /\ pc \in Writers => WriteReturns

\* A block being replaced is not good; users write while the instance works.
UserInv ==
  /\ loc.mk = "er_mapped" => ~Good(loc.pb)
  /\ pc = "wr_program" => ~ni.protected

TabInv == /\ ChipTables /\ SightInv /\ NewestInv /\ CopyInv /\ SeekInv
          /\ FrontInv /\ HomeInv /\ ReachInv /\ UserInv

-----------------------------------------------------------------------------
(* Lemmas about tables.                                                    *)

\* No table comes to the chip.
Shrinks ==
  oob \subseteq oob' /\ \A b \in Blocks : cell'[b].k = "table" => cell'[b] = cell[b]

LEMMA ShrinkTables ==
  ASSUME Shrinks
  PROVE  Tables' \subseteq Tables /\ \A b \in Tables' : TableIn(b)' = TableIn(b)
BY DEF Shrinks, Tables, TableIn

LEMMA ShrinkChip ==
  ASSUME ChipTables, Shrinks PROVE ChipTables'
<1>1. Tables' \subseteq Tables /\ \A b \in Tables' : TableIn(b)' = TableIn(b)
  BY ShrinkTables
<1>2. ASSUME NEW st, NEW c, Dead(st, c) PROVE st[c] # BLOCK_ST_GOOD \/ c \in oob'
  BY <1>2 DEF Dead, Shrinks
<1>3. \A b \in Tables' : MgmtStart <= b
  BY <1>1 DEF ChipTables
<1>4. \A a, b, c \in Tables' : a = b \/ b = c \/ a = c
  BY <1>1 DEF ChipTables
<1>5. ASSUME NEW a \in Tables', NEW b \in Tables'
      PROVE  /\ TableIn(a)'.write_count = TableIn(b)'.write_count => TableIn(a)' = TableIn(b)'
             /\ TableIn(a)'.state[b] = BLOCK_ST_GOOD
             /\ TableIn(b)'.write_count <= TableIn(a)'.write_count =>
                  /\ Covers(TableIn(b)', TableIn(a)'.state)
                  /\ a # b => \A c \in Blocks : MgmtStart <= c /\ c < a /\ c < b =>
                       TableIn(a)'.state[c] # BLOCK_ST_GOOD \/ c \in oob'
  <2>1. TableIn(a)' = TableIn(a) /\ TableIn(b)' = TableIn(b) /\ a \in Tables /\ b \in Tables
    BY <1>1
  <2>2. /\ TableIn(a).write_count = TableIn(b).write_count => TableIn(a) = TableIn(b)
        /\ TableIn(a).state[b] = BLOCK_ST_GOOD
        /\ TableIn(b).write_count <= TableIn(a).write_count =>
             /\ Covers(TableIn(b), TableIn(a).state)
             /\ a # b => \A c \in Blocks : MgmtStart <= c /\ c < a /\ c < b =>
                                            Dead(TableIn(a).state, c)
    BY <2>1 DEF ChipTables
  <2> QED BY <1>2, <2>1, <2>2
<1> QED BY <1>3, <1>4, <1>5 DEF ChipTables, Dead, Covers

\* What is not used stays unused.
LEMMA DeadStays ==
  ASSUME oob \subseteq oob', NEW st, NEW st2, NEW a,
         \A b \in Blocks : st2[b] = BLOCK_ST_GOOD => st[b] = BLOCK_ST_GOOD,
         DeadBelow(st, a)
  PROVE  \A b \in Blocks : MgmtStart <= b /\ b < a => st2[b] # BLOCK_ST_GOOD \/ b \in oob'
BY DEF DeadBelow, Dead

\* Blocks and tables are what they should be.
LEMMA TableValue ==
  ASSUME TypeOK, NEW b \in Tables
  PROVE  /\ b \in Blocks /\ b \in Nat /\ b \notin oob /\ cell[b].k = "table"
         /\ TableIn(b) \in InfoTable /\ cell[b].i \in 1 .. TableBlocks
         /\ cell[b] = Chunk(cell[b].i, TableIn(b))
<1>1. b \in Blocks /\ b \notin oob /\ cell[b].k = "table"
  BY DEF Tables
<1>2. cell[b] \in Content
  BY <1>1 DEF TypeOK
<1>3. cell[b] \in [k: {"table"}, i: 1 .. TableBlocks, t: InfoTable]
  BY <1>1, <1>2 DEF Content, Blank, Torn, Signature
<1>4. b \in Nat
  BY <1>1, GeometryAssumption DEF Blocks
<1> HIDE DEF InfoTable
<1> QED BY <1>1, <1>3, <1>4 DEF TableIn, Chunk

\* A step that puts no table on the chip and takes no block with a table for
\* bad.
Fades ==
  /\ Shrinks
  /\ \A b \in Blocks :
       /\ ni'.block_state[b] = BLOCK_ST_GOOD => Good(b)
       /\ Good(b) /\ cell'[b].k = "table" /\ b \notin oob' =>
            ni'.block_state[b] = BLOCK_ST_GOOD

\* ... keeps the tables in sight,
LEMMA FadeSight ==
  ASSUME SightInv, Fades, ni.sig_ba # 0, ni'.sig_ba = ni.sig_ba PROVE SightInv'
<1>1. Tables' \subseteq Tables
  BY ShrinkTables DEF Fades
<1>2. ASSUME NEW b \in Tables' PROVE ni'.block_state[b] = BLOCK_ST_GOOD /\ b + 1 < ni.sig_ba
  <2>1. b \in Blocks /\ cell'[b].k = "table" /\ b \notin oob'
    BY <1>2 DEF Tables
  <2>2. Good(b) /\ b + 1 < ni.sig_ba
    BY <1>1, <1>2 DEF SightInv
  <2> QED BY <2>1, <2>2 DEF Fades
<1> QED BY <1>2 DEF SightInv, Good

\* ... and none becomes newer than memory.
LEMMA FadeNewest ==
  ASSUME NewestInv, Fades, pc \notin Starting,
         ni'.cache = ni.cache, ni'.write_count = ni.write_count
  PROVE  NewestInv'
<1>1. Tables' \subseteq Tables /\ \A b \in Tables' : TableIn(b)' = TableIn(b)
  BY ShrinkTables DEF Fades
<1>2. /\ ni.cache.write_count = ni.write_count
      /\ \A b \in Tables : TableIn(b).write_count < ni.write_count \/ TableIn(b) = ni.cache
      /\ \A b \in Tables : Covers(TableIn(b), ni.block_state)
  BY DEF NewestInv
<1>3. \A b \in Tables : Covers(TableIn(b), ni'.block_state)
  BY <1>2 DEF Covers, Fades, Good
<1> QED BY <1>1, <1>2, <1>3 DEF NewestInv, Covers


-----------------------------------------------------------------------------
(* Lemmas shared by the steps.                                             *)

\* A step of a running instance to a point outside the loops.
LEMMA Calm ==
  ASSUME TabInv, pc \notin Starting, pc' \notin RangeUser, pc' \notin Starting \ {"off"},
         Fades, ni.sig_ba # 0, ni'.sig_ba = ni.sig_ba,
         ni'.cache = ni.cache, ni'.write_count = ni.write_count,
         Active' => /\ Tables' \subseteq {ni'.main_ba, ni'.backup_ba}
                    /\ DeadBelow(ni.block_state, ni'.main_ba),
         UserInv'
  PROVE  TabInv'
<1>1. ChipTables' /\ SightInv' /\ NewestInv'
  BY ShrinkChip, FadeSight, FadeNewest DEF TabInv, Fades
<1>2. CopyInv' /\ SeekInv' /\ ReachInv'
  BY DEF CopyInv, SeekInv, ReachInv, At, RangeUser, Starting, Writers
<1>3. Active' => /\ DeadBelow(ni.block_state, ni.main_ba)'
  <2> SUFFICES ASSUME Active' PROVE DeadBelow(ni.block_state, ni.main_ba)'
    OBVIOUS
  <2>1. \A b \in Blocks : MgmtStart <= b /\ b < ni'.main_ba =>
          ni'.block_state[b] # BLOCK_ST_GOOD \/ b \in oob'
    BY DEF DeadBelow, Dead, Fades, Shrinks, Good
  <2> QED BY <2>1 DEF DeadBelow, Dead
<1>4. FrontInv'
  BY <1>3 DEF FrontInv, At, RangeUser
<1>5. HomeInv'
  BY DEF HomeInv, RangeUser
<1> QED BY <1>1, <1>2, <1>4, <1>5 DEF TabInv

\* ... from a point outside the loops, with the tables where they were.
LEMMA Quiet ==
  ASSUME TabInv, pc \notin Starting, pc \notin RangeUser,
         pc' \notin RangeUser, pc' \notin Starting \ {"off"},
         Fades, ni.sig_ba # 0, ni'.sig_ba = ni.sig_ba,
         ni'.main_ba = ni.main_ba, ni'.backup_ba = ni.backup_ba,
         ni'.cache = ni.cache, ni'.write_count = ni.write_count,
         Active' => Active, UserInv'
  PROVE  TabInv'
<1>1. Tables' \subseteq Tables
  BY ShrinkTables DEF Fades
<1>2. Active => Tables \subseteq {ni.main_ba, ni.backup_ba}
  BY DEF TabInv, HomeInv
<1>3. Active => DeadBelow(ni.block_state, ni.main_ba)
  BY DEF TabInv, FrontInv, At, RangeUser
<1> QED BY <1>1, <1>2, <1>3, Calm

\* A step that leaves the chip and the block states.
LEMMA SameFades ==
  ASSUME UNCHANGED <<cell, oob>>, ni'.block_state = ni.block_state
  PROVE  Fades /\ Shrinks /\ Tables' = Tables /\ \A b : TableIn(b)' = TableIn(b)
BY DEF Fades, Shrinks, Good, Tables, TableIn

\* The power goes off.
LEMMA OffTables ==
  ASSUME TabInv, PowerOff, Shrinks, ni.sig_ba # 0 => ni.sig_ba \in Found',
         ni.sig_ba = 0 => Tables = {}
  PROVE  TabInv'
<1>1. ChipTables' /\ Tables' \subseteq Tables
  BY ShrinkChip, ShrinkTables DEF TabInv
<1>2. ni'.sig_ba = 0 /\ ni'.block_state = AllGood /\ pc' = "off" /\ loc'.mk = "off"
  BY DEF PowerOff, nmbm_init_structure, L0
<1>3. SightInv'
  <2>1. ASSUME NEW b \in Tables'
        PROVE  /\ ni'.block_state[b] = BLOCK_ST_GOOD
               /\ \E s \in Found' : b + 1 < s
    <3>1. b \in Tables /\ b \in Blocks
      BY <1>1, <2>1 DEF Tables
    <3>2. b + 1 < ni.sig_ba /\ ni.sig_ba \in Found'
      BY <3>1 DEF TabInv, SightInv
    <3> QED BY <1>2, <3>1, <3>2 DEF AllGood
  <2> QED BY <1>2, <2>1 DEF SightInv, Good
<1>4. NewestInv' /\ CopyInv' /\ SeekInv' /\ FrontInv' /\ HomeInv' /\ ReachInv' /\ UserInv'
  BY <1>2 DEF NewestInv, CopyInv, SeekInv, FrontInv, HomeInv, ReachInv, UserInv, Active,
              Starting, RangeUser, At, Writers
<1> QED BY <1>1, <1>3, <1>4 DEF TabInv

\* A call of a loop: what does not depend on the loop.
LEMMA CallTables ==
  ASSUME TabInv, pc \notin Starting, pc' \in {"write", "erase"}, UNCHANGED <<cell, oob>>,
         ni'.block_state = ni.block_state, ni.sig_ba # 0, ni'.sig_ba = ni.sig_ba,
         NewestInv', CopyInv', FrontInv', HomeInv', ReachInv', UserInv'
  PROVE  TabInv'
<1>1. ChipTables' /\ SightInv'
  BY SameFades, ShrinkChip, FadeSight DEF TabInv
<1>2. SeekInv'
  BY DEF SeekInv
<1> QED BY <1>1, <1>2 DEF TabInv

\* ... by a caller of another loop, which writes the same table.
LEMMA SameCopy ==
  ASSUME TabInv, pc \in RangeUser, UNCHANGED <<cell, oob>>, ni'.block_state = ni.block_state,
         ni'.cache = ni.cache, ni'.write_count = ni.write_count
  PROVE  NewestInv' /\ CopyInv'
<1>1. pc \notin Starting
  BY DEF RangeUser, Starting
<1>2. NewestInv'
  BY <1>1, SameFades, FadeNewest DEF TabInv
<1>3. CopyInv'
  BY SameFades DEF TabInv, CopyInv, Good, Covers
<1> QED BY <1>2, <1>3

\* ... that writes a table that was just prepared.
LEMMA NewCopy ==
  ASSUME TypeOK, UNCHANGED <<cell, oob>>, NEW n \in Instance,
         n.block_state = ni.block_state,
         \A b \in Tables :
           /\ TableIn(b).write_count <= n.write_count
           /\ TableIn(b).write_count = n.write_count /\ ~n.dirty =>
                TableIn(b).state = n.block_state /\ TableIn(b).map = n.block_mapping
           /\ Covers(TableIn(b), n.block_state),
         NEW m, m = nmbm_generate_info_table_cache(n),
         ni'.block_state = m.block_state, ni'.cache = m.cache, ni'.write_count = m.write_count
  PROVE  ni'.block_state = ni.block_state /\ NewestInv' /\ CopyInv'
<1> DEFINE wc == IF n.dirty THEN n.write_count + 1 ELSE n.write_count
<1>1. /\ m.write_count = wc /\ m.block_state = n.block_state
      /\ m.cache = [write_count |-> wc, state |-> n.block_state, map |-> n.block_mapping]
  BY DEF nmbm_generate_info_table_cache, Instance
<1>2. Tables' = Tables /\ \A b : TableIn(b)' = TableIn(b)
  BY DEF Tables, TableIn
<1>3. n.write_count \in Nat /\ n.dirty \in BOOLEAN
  BY DEF Instance
<1>4. ASSUME NEW b \in Tables PROVE TableIn(b).write_count < wc \/ TableIn(b) = m.cache
  <2>1. TableIn(b) \in InfoTable
    BY TableValue
  <2>2. TableIn(b).write_count \in Nat /\ TableIn(b).write_count <= n.write_count
    BY <2>1 DEF InfoTable
  <2>3. CASE TableIn(b).write_count < wc
    BY <2>3
  <2>4. CASE ~(TableIn(b).write_count < wc)
    <3>1. TableIn(b).write_count = n.write_count /\ ~n.dirty
      BY <1>3, <2>2, <2>4
    <3>2. TableIn(b).state = n.block_state /\ TableIn(b).map = n.block_mapping
      BY <3>1
    <3>3. TableIn(b) = [write_count |-> TableIn(b).write_count, state |-> TableIn(b).state,
                        map |-> TableIn(b).map]
      BY <2>1 DEF InfoTable
    <3> QED BY <1>1, <3>1, <3>2, <3>3
  <2> QED BY <2>3, <2>4
<1>5. m.cache.state = n.block_state /\ m.cache.write_count = wc
  BY <1>1
<1>6. NewestInv'
  BY <1>1, <1>2, <1>4, <1>5 DEF NewestInv, Covers
<1>7. CopyInv'
  BY <1>1, <1>2, <1>5 DEF CopyInv, Covers, Good
<1> QED BY <1>1, <1>6, <1>7


-----------------------------------------------------------------------------
(* Steps outside the loops.                                                *)

\* ... that change no block state either.
LEMMA Still ==
  ASSUME TabInv, pc \notin Starting, pc \notin RangeUser,
         pc' \notin RangeUser, pc' \notin Starting \ {"off"}, UNCHANGED <<cell, oob>>,
         ni.sig_ba # 0, ni'.sig_ba = ni.sig_ba, ni'.block_state = ni.block_state,
         ni'.main_ba = ni.main_ba, ni'.backup_ba = ni.backup_ba,
         ni'.cache = ni.cache, ni'.write_count = ni.write_count,
         Active' => Active,
         loc'.mk = "er_mapped" => loc.mk = "er_mapped" /\ loc'.pb = loc.pb,
         pc' = "wr_program" => ~ni'.protected
  PROVE  TabInv'
<1>1. UserInv'
  BY DEF TabInv, UserInv, Good
<1>2. Fades
  BY SameFades
<1> QED BY <1>1, <1>2, Quiet

\* The return points of loc are outside the loops.
LEMMA Returns ==
  ASSUME TypeOK
  PROVE  /\ loc.uk \notin RangeUser /\ loc.uk \notin Starting \ {"off"}
         /\ loc.rk \notin RangeUser /\ loc.rk \notin Starting \ {"off"}
         /\ loc.mk \notin RangeUser /\ loc.mk \notin Starting \ {"off"}
         /\ loc.uk # "wr_program" /\ loc.rk # "wr_program" /\ loc.mk # "wr_program"
         /\ loc.uk # "load_failed" /\ loc.rk # "load_failed" /\ loc.mk # "load_failed"
<1>1. loc.uk \in UpdateReturn /\ loc.rk \in RebuildReturn /\ loc.mk \in MapReturn
  BY DEF TypeOK, Locals
<1> QED BY <1>1 DEF UpdateReturn, RebuildReturn, MapReturn, RangeUser, Starting

LEMMA MapBlockTables ==
  ASSUME IndInv, LayInv, TabInv, nmbm_map_block PROVE TabInv'
<1>1. pc = "map" /\ pc \notin Starting /\ pc \notin RangeUser /\ UNCHANGED <<cell, oob>>
  BY DEF nmbm_map_block, chip, Starting, RangeUser
<1>2. ni \in Instance /\ loc \in Locals /\ ni.sig_ba # 0
  BY <1>1, Ready
<1>3. pc' \in {loc.mk, "update"}
  BY DEF nmbm_map_block
<1>4. pc' \notin RangeUser /\ pc' \notin Starting \ {"off"} /\ pc' # "wr_program"
  BY <1>3, Returns DEF IndInv, RangeUser, Starting
<1>5. /\ ni'.sig_ba = ni.sig_ba /\ ni'.block_state = ni.block_state
      /\ ni'.main_ba = ni.main_ba /\ ni'.backup_ba = ni.backup_ba
      /\ ni'.cache = ni.cache /\ ni'.write_count = ni.write_count /\ ni'.protected = ni.protected
  BY <1>2 DEF nmbm_map_block, Instance
<1>6. loc'.mk = loc.mk /\ loc'.pb = loc.pb
  BY <1>2 DEF nmbm_map_block, Locals
<1>7. Active' => Active
  BY <1>1, <1>5 DEF Active, Starting
<1> QED BY <1>1, <1>2, <1>4, <1>5, <1>6, <1>7, Still

LEMMA MapFailedTables ==
  ASSUME IndInv, LayInv, TabInv, MapFailed PROVE TabInv'
<1>1. pc = "map_failed" /\ pc \notin Starting /\ pc \notin RangeUser /\ UNCHANGED <<cell, oob>>
  BY DEF MapFailed, chip, Starting, RangeUser
<1>2. ni \in Instance /\ loc \in Locals /\ ni.sig_ba # 0
  BY <1>1, Ready
<1>3. pc' \notin RangeUser /\ pc' \notin Starting \ {"off"} /\ pc' # "wr_program"
  BY Returns DEF IndInv, MapFailed
<1>5. /\ ni'.sig_ba = ni.sig_ba /\ ni'.block_state = ni.block_state
      /\ ni'.main_ba = ni.main_ba /\ ni'.backup_ba = ni.backup_ba
      /\ ni'.cache = ni.cache /\ ni'.write_count = ni.write_count /\ ni'.protected = ni.protected
  BY <1>2 DEF MapFailed, Instance
<1>6. loc'.mk = loc.mk /\ loc'.pb = loc.pb
  BY <1>2 DEF MapFailed, Locals
<1>7. Active' => Active
  BY <1>1, <1>5 DEF Active, Starting
<1> QED BY <1>1, <1>2, <1>3, <1>5, <1>6, <1>7, Still

LEMMA CreateTables ==
  ASSUME IndInv, LayInv, TabInv, CreateMap \/ CreateMapped PROVE TabInv'
<1>1. /\ pc \in {"create_map", "create_mapped"} /\ pc \notin Starting /\ pc \notin RangeUser
      /\ UNCHANGED <<cell, oob>>
  BY DEF CreateMap, CreateMapped, chip, Starting, RangeUser
<1>2. ni \in Instance /\ loc \in Locals /\ ni.sig_ba # 0
  BY <1>1, Ready
<1>3. pc' \in {"map", "update", "create_map"}
  BY DEF CreateMap, CreateMapped
<1>4. pc' \notin RangeUser /\ pc' \notin Starting \ {"off"} /\ pc' # "wr_program"
  BY <1>3 DEF RangeUser, Starting
<1>5. /\ ni'.sig_ba = ni.sig_ba /\ ni'.block_state = ni.block_state
      /\ ni'.main_ba = ni.main_ba /\ ni'.backup_ba = ni.backup_ba
      /\ ni'.cache = ni.cache /\ ni'.write_count = ni.write_count /\ ni'.protected = ni.protected
  BY <1>2 DEF CreateMap, CreateMapped, Instance
<1>6. loc'.mk = "create_mapped" \/ (loc'.mk = loc.mk /\ loc'.pb = loc.pb)
  BY <1>2 DEF CreateMap, CreateMapped, Locals
<1>7. Active' => Active
  BY <1>1, <1>5 DEF Active, Starting
<1> QED BY <1>1, <1>2, <1>4, <1>5, <1>6, <1>7, Still

LEMMA LoadDoneTables ==
  ASSUME IndInv, LayInv, TabInv, LoadDone PROVE TabInv'
<1>1. /\ pc \in {"load_ok", "load_failed"} /\ pc \notin Starting /\ pc \notin RangeUser
      /\ UNCHANGED <<cell, oob, loc>> /\ pc' = "done"
  BY DEF LoadDone, chip, Starting, RangeUser
<1>2. ni \in Instance /\ loc \in Locals /\ ni.sig_ba # 0
  BY <1>1, Ready
<1>4. pc' \notin RangeUser /\ pc' \notin Starting \ {"off"} /\ pc' # "wr_program"
  BY <1>1 DEF RangeUser, Starting
<1>5. /\ ni'.sig_ba = ni.sig_ba /\ ni'.block_state = ni.block_state
      /\ ni'.main_ba = ni.main_ba /\ ni'.backup_ba = ni.backup_ba
      /\ ni'.cache = ni.cache /\ ni'.write_count = ni.write_count
      /\ ni.protected \/ pc = "load_failed" => ni'.protected
  BY <1>2 DEF LoadDone, Instance
<1>7. Active' => Active
  BY <1>1, <1>5 DEF Active, Starting
<1> QED BY <1>1, <1>2, <1>4, <1>5, <1>7, Still

\* The beginning and the end of an operation.
LEMMA CallsStill ==
  ASSUME IndInv, LayInv, TabInv,
         EraseBegin \/ WriteBegin \/ BadDone \/ OperationDone \/ nmbm_detach
  PROVE  TabInv'
<1>1. /\ pc \in {"idle", "bad_done", "done"} /\ pc \notin Starting /\ pc \notin RangeUser
      /\ UNCHANGED <<cell, oob, ni>>
  BY DEF EraseBegin, WriteBegin, BadDone, OperationDone, nmbm_detach, Begin, Idle, chip,
         Starting, RangeUser
<1>2. ni \in Instance /\ loc \in Locals /\ ni.sig_ba # 0
  BY <1>1, Ready
<1>3. pc' \in {"er_try", "wr_program", "done", "idle", "update"}
  BY DEF EraseBegin, WriteBegin, BadDone, OperationDone, nmbm_detach
<1>4. pc' \notin RangeUser /\ pc' \notin Starting \ {"off"}
  BY <1>3 DEF RangeUser, Starting
<1>5. pc' = "wr_program" => ~ni'.protected
  BY <1>1 DEF EraseBegin, WriteBegin, BadDone, OperationDone, nmbm_detach, Begin, Idle
<1>6. loc' = L0 \/ (loc'.mk = loc.mk /\ loc'.pb = loc.pb)
  BY <1>2 DEF EraseBegin, WriteBegin, BadDone, OperationDone, nmbm_detach, Locals
<1>7. loc'.mk = "er_mapped" => loc.mk = "er_mapped" /\ loc'.pb = loc.pb
  BY <1>6 DEF L0
<1>8. Active' => Active
  BY <1>1 DEF Active, Starting
<1> QED BY <1>1, <1>2, <1>4, <1>5, <1>7, <1>8, Still

\* A chip that is left as it is keeps its signature.
LEMMA SignatureThere ==
  ASSUME LayInv, ni.sig_ba # 0, UNCHANGED <<cell, oob>> PROVE ni.sig_ba \in Found'
BY DEF LayInv, ChipInv, Found

LEMMA QuietOff ==
  ASSUME LayInv, TabInv, PowerOff, ni.sig_ba # 0, UNCHANGED <<cell, oob>> PROVE TabInv'
<1>1. Shrinks
  BY DEF Shrinks
<1> QED BY <1>1, SignatureThere, OffTables

LEMMA CreateDoneTables ==
  ASSUME IndInv, LayInv, TabInv, CreateDone \/ Detached PROVE TabInv'
<1>1. /\ pc \in {"create_done", "detached"} /\ pc \notin Starting /\ pc \notin RangeUser
      /\ UNCHANGED <<cell, oob>>
  BY DEF CreateDone, Detached, chip, Starting, RangeUser
<1>2. ni \in Instance /\ loc \in Locals /\ ni.sig_ba # 0
  BY <1>1, Ready
<1>3. CASE PowerOff
  BY <1>1, <1>2, <1>3, QuietOff
<1>4. CASE ~PowerOff
  <2>1. pc' = "done" /\ UNCHANGED <<ni, loc>>
    BY <1>4 DEF CreateDone, Detached
  <2>2. pc' \notin RangeUser /\ pc' \notin Starting \ {"off"} /\ pc' # "wr_program"
    BY <2>1 DEF RangeUser, Starting
  <2>3. Active' => Active
    BY <1>1, <2>1 DEF Active, Starting
  <2> QED BY <1>1, <1>2, <2>1, <2>2, <2>3, Still
<1> QED BY <1>3, <1>4


\* nmbm_set_block_state with a state that is not good.
LEMMA SetFades ==
  ASSUME NEW n \in Instance, n.block_state = ni.block_state, NEW S,
         NEW st \in {BLOCK_ST_BAD, BLOCK_ST_NEED_REMAP}, Shrinks,
         ni'.block_state = nmbm_set_block_state(n, S, st).block_state,
         \A b \in Blocks : b \in S => b \in oob' \/ cell'[b].k # "table" \/ ~Good(b)
  PROVE  /\ Fades
         /\ \A b \in Blocks : b \in S \/ ~Good(b) => ni'.block_state[b] # BLOCK_ST_GOOD
<1>1. \A b \in Blocks : ni'.block_state[b] = IF b \in S THEN st ELSE ni.block_state[b]
  BY DEF nmbm_set_block_state, Instance
<1>2. st # BLOCK_ST_GOOD
  BY DEF BLOCK_ST_BAD, BLOCK_ST_NEED_REMAP, BLOCK_ST_GOOD
<1> QED BY <1>1, <1>2 DEF Fades, Good

\* Erasing a logic block.
LEMMA EraseLogicTables ==
  ASSUME ~MarkMayFail, IndInv, LayInv, TabInv, nmbm_erase_logic_block PROVE TabInv'
<1> DEFINE pb == ni.block_mapping[loc.lb]
           bad == nmbm_set_block_state(ni, {pb}, BLOCK_ST_BAD)
<1>1. /\ TypeOK /\ ni \in Instance /\ loc \in Locals /\ pc = "er_try"
      /\ pc \notin Starting /\ pc \notin RangeUser
  BY DEF IndInv, TypeOK, nmbm_erase_logic_block, Starting, RangeUser
<1>2. ni.sig_ba # 0 /\ pb \in Blocks
  <2>1. ni.sig_ba # 0 /\ ni.block_mapping[loc.lb] # Unmapped
    BY <1>1 DEF IndInv, SigInv, MappedInv
  <2> QED BY <2>1, UserBlock
<1> HIDE DEF pb
<1>3. ASSUME NEW n, n \in {ni, bad}, Fades, RemapLogicBlock(n, pb), n.block_state[pb] # BLOCK_ST_GOOD
      PROVE  TabInv'
  <2>1. ni' = n /\ loc'.pb = pb /\ pc' = "map"
    BY <1>1, <1>3 DEF RemapLogicBlock, Locals
  <2>2. /\ ni'.sig_ba = ni.sig_ba /\ ni'.main_ba = ni.main_ba /\ ni'.backup_ba = ni.backup_ba
        /\ ni'.cache = ni.cache /\ ni'.write_count = ni.write_count
        /\ ni'.protected = ni.protected
    BY <1>1, <1>3, <2>1, SetStateRest DEF BlockState
  <2>3. UserInv' /\ (Active' => Active)
    BY <1>1, <1>3, <2>1, <2>2 DEF UserInv, Good, Active, Starting
  <2>4. pc' \notin RangeUser /\ pc' \notin Starting \ {"off"}
    BY <2>1 DEF RangeUser, Starting
  <2> QED BY <1>1, <1>2, <1>3, <2>2, <2>3, <2>4, Quiet
<1>4. CASE ~Good(pb) /\ RemapLogicBlock(ni, pb) /\ UNCHANGED chip
  <2>1. Fades
    BY <1>4, SameFades DEF RemapLogicBlock, chip
  <2> QED BY <1>3, <1>4, <2>1 DEF Good
<1>5. ASSUME RemapLogicBlock(bad, pb), Shrinks, pb \in oob' PROVE TabInv'
  <2>1. ni'.block_state = nmbm_set_block_state(ni, {pb}, BLOCK_ST_BAD).block_state /\ ni' = bad
    BY <1>5 DEF RemapLogicBlock
  <2> HIDE DEF bad
  <2>2. Fades /\ ni'.block_state[pb] # BLOCK_ST_GOOD
    BY <1>1, <1>2, <1>5, <2>1, SetFades
  <2> QED BY <1>3, <1>5, <2>1, <2>2
<1>6. CASE pb \in oob /\ RemapLogicBlock(bad, pb) /\ UNCHANGED chip
  BY <1>5, <1>6 DEF chip, Shrinks
<1>7. CASE FailBlock(pb, {Torn}) /\ RemapLogicBlock(bad, pb)
  <2>1. oob' = oob \cup {pb} /\ \A a \in Blocks : cell'[a].k = "table" => cell'[a] = cell[a]
    BY <1>1, <1>2, <1>7, FailMarks
  <2> QED BY <1>5, <1>7, <2>1 DEF Shrinks
<1>8. CASE cell' = [cell EXCEPT ![pb] = Blank] /\ UNCHANGED <<oob, ni, loc>> /\ pc' = "done"
  <2>1. \A c \in Blocks : cell'[c].k = "table" => cell'[c] = cell[c]
    BY <1>1, <1>2, <1>8, ErasedCell
  <2>2. Fades
    BY <1>8, <2>1 DEF Fades, Shrinks, Good
  <2>3. UserInv' /\ (Active' => Active)
    BY <1>1, <1>8 DEF TabInv, UserInv, Good, Active, Starting
  <2>4. pc' \notin RangeUser /\ pc' \notin Starting \ {"off"}
    BY <1>8 DEF RangeUser, Starting
  <2> QED BY <1>1, <1>2, <1>8, <2>2, <2>3, <2>4, Quiet
<1> QED BY <1>4, <1>6, <1>7, <1>8 DEF nmbm_erase_logic_block, pb

\* The block that was replaced is not good.
LEMMA EraseMappedTables ==
  ASSUME IndInv, LayInv, TabInv, EraseMapped PROVE TabInv'
<1>1. /\ ni \in Instance /\ loc \in Locals /\ loc.pb \in Blocks /\ loc.lb \in LBlocks
      /\ pc = "er_mapped" /\ pc \notin Starting /\ pc \notin RangeUser
  BY DEF IndInv, TypeOK, Locals, EraseMapped, Starting, RangeUser
<1>2. loc.mk = "er_mapped" /\ UNCHANGED <<cell, oob>> /\ pc' = "update"
  BY DEF IndInv, ReturnInv, EraseMapped, chip
<1>3. ~Good(loc.pb) /\ ni.sig_ba # 0
  BY <1>1, <1>2, Ready DEF TabInv, UserInv
<1> DEFINE n == IF ni.block_state[loc.pb] # BLOCK_ST_NEED_REMAP
                  THEN nmbm_set_block_state(ni, {loc.pb}, BLOCK_ST_BAD) ELSE ni
<1>4. n \in Instance
  BY <1>1, SetStateRest DEF BlockState
<1>5. /\ n.sig_ba = ni.sig_ba /\ n.main_ba = ni.main_ba /\ n.backup_ba = ni.backup_ba
      /\ n.cache = ni.cache /\ n.write_count = ni.write_count /\ n.protected = ni.protected
  BY <1>1, SetStateRest DEF BlockState
<1>6. \A b \in Blocks : n.block_state[b] = BLOCK_ST_GOOD <=> Good(b)
  BY <1>1, <1>3 DEF nmbm_set_block_state, Instance, Good, BLOCK_ST_BAD, BLOCK_ST_GOOD
<1>7. ni' = n \/ ni' = [n EXCEPT !.block_mapping[loc.lb] = Unmapped]
  BY DEF EraseMapped
<1> HIDE DEF n
<1>8. /\ ni'.sig_ba = n.sig_ba /\ ni'.main_ba = n.main_ba /\ ni'.backup_ba = n.backup_ba
      /\ ni'.cache = n.cache /\ ni'.write_count = n.write_count /\ ni'.protected = n.protected
      /\ ni'.block_state = n.block_state
  BY <1>4, <1>7 DEF Instance
<1>9. Fades
  BY <1>2, <1>6, <1>8 DEF Fades, Shrinks
<1>10. loc'.pb = loc.pb
  BY <1>1 DEF EraseMapped, Locals
<1>11. UserInv'
  BY <1>1, <1>2, <1>3, <1>6, <1>8, <1>10 DEF UserInv, Good
<1>12. Active' => Active
  BY <1>1, <1>5, <1>8 DEF Active, Starting
<1>13. pc' \notin RangeUser /\ pc' \notin Starting \ {"off"}
  BY <1>2 DEF RangeUser, Starting
<1> QED BY <1>1, <1>3, <1>5, <1>8, <1>9, <1>11, <1>12, <1>13, Quiet

\* A block behind a logic block holds no table.
LEMMA UserBlockNoTable ==
  ASSUME IndInv, LayInv, TabInv, pc \notin Starting, pc \notin RangeUser, pc # "load_failed",
         ~ni.protected, NEW lb \in LBlocks, ni.block_mapping[lb] # Unmapped
  PROVE  ni.block_mapping[lb] \notin Tables
<1> SUFFICES ASSUME ni.block_mapping[lb] \in Tables PROVE FALSE
  OBVIOUS
<1> DEFINE pb == ni.block_mapping[lb]
<1>1. MgmtStart <= pb
  BY DEF TabInv, ChipTables
<1>2. Above(ni.block_mapping, ni.top_ba)
  BY DEF LayInv, MapInv
<1>3. Active
  BY DEF Active
<1>4. pb = ni.main_ba \/ pb = ni.backup_ba
  BY <1>3 DEF TabInv, HomeInv
<1>5. ~At("rb_main") /\ ~At("us_backup")
  BY DEF At, RangeUser
<1>6. Placed(ni) /\ ni.map_ba <= ni.top_ba
  BY <1>5 DEF LayInv, PlaceInv
<1>7. ni.main_ba < ni.top_ba /\ (ni.backup_ba # 0 => ni.backup_ba < ni.top_ba)
  BY <1>6, Numbers DEF Placed
<1>8. pb \in Int /\ 0 < pb
  BY <1>1, <1>4, Numbers
<1>9. pb < MgmtStart \/ ni.top_ba < pb
  BY <1>2 DEF Above
<1> QED BY <1>1, <1>4, <1>7, <1>8, <1>9, Numbers

\* Programming a logic block.
LEMMA WriteLogicTables ==
  ASSUME IndInv, LayInv, TabInv, nmbm_write_logic_page PROVE TabInv'
<1> DEFINE pb == ni.block_mapping[loc.lb]
<1>1. /\ TypeOK /\ ni \in Instance /\ loc \in Locals /\ loc.lb \in LBlocks /\ oob' = oob
      /\ pc = "wr_program" /\ pc \notin Starting /\ pc \notin RangeUser /\ pc # "load_failed"
  BY DEF IndInv, TypeOK, nmbm_write_logic_page, Starting, RangeUser, Locals
<1>2. ni.sig_ba # 0 /\ ni.block_mapping[loc.lb] # Unmapped /\ ~ni.protected
  BY <1>1 DEF IndInv, SigInv, MappedInv, TabInv, UserInv
<1>3. pb \in Blocks /\ pb \notin Tables
  BY <1>1, <1>2, UserBlock, UserBlockNoTable
<1> HIDE DEF pb
<1>4. pc' \in {"done", "update"}
  BY DEF nmbm_write_logic_page
<1>5. pc' \notin RangeUser /\ pc' \notin Starting \ {"off"} /\ pc' # "wr_program"
  BY <1>4 DEF RangeUser, Starting
<1>6. CASE cell' = [cell EXCEPT ![pb] = Data(loc.lb)] /\ UNCHANGED <<ni, loc>>
  <2>1. \A a \in Blocks : cell'[a].k = "table" => cell'[a] = cell[a]
    BY <1>1, <1>3, <1>6 DEF TypeOK, Data
  <2>2. Fades
    BY <1>1, <1>6, <2>1 DEF Fades, Shrinks, Good
  <2>3. UserInv' /\ (Active' => Active)
    BY <1>1, <1>5, <1>6 DEF TabInv, UserInv, Good, Active, Starting
  <2> QED BY <1>1, <1>2, <1>5, <1>6, <2>2, <2>3, Quiet
<1>7. CASE /\ pb \in Weak /\ cell' \in {cell, [cell EXCEPT ![pb] = Torn]}
           /\ ni' = nmbm_set_block_state(ni, {pb}, BLOCK_ST_NEED_REMAP)
           /\ loc' = [loc EXCEPT !.uk = "done"]
  <2>1. \A a \in Blocks : cell'[a].k = "table" => cell'[a] = cell[a]
    BY <1>1, <1>3, <1>7 DEF TypeOK, Torn
  <2>2. pb \in oob' \/ cell'[pb].k # "table"
    BY <1>1, <1>3, <2>1 DEF Tables
  <2>3. ni'.block_state = nmbm_set_block_state(ni, {pb}, BLOCK_ST_NEED_REMAP).block_state
    BY <1>7
  <2>4. Fades /\ \A b \in Blocks : ~Good(b) => ni'.block_state[b] # BLOCK_ST_GOOD
    BY <1>1, <2>1, <2>2, <2>3, SetFades DEF Shrinks
  <2>5. loc'.mk = loc.mk /\ loc'.pb = loc.pb /\ loc.pb \in Blocks
    BY <1>1, <1>7 DEF Locals
  <2>6. UserInv'
    BY <1>5, <2>4, <2>5 DEF TabInv, UserInv, Good
  <2>7. /\ ni'.sig_ba = ni.sig_ba /\ ni'.main_ba = ni.main_ba /\ ni'.backup_ba = ni.backup_ba
        /\ ni'.cache = ni.cache /\ ni'.write_count = ni.write_count
        /\ ni'.protected = ni.protected
    BY <1>1, <1>7, SetStateRest DEF BlockState
  <2>8. Active' => Active
    BY <1>1, <2>7 DEF Active, Starting
  <2> QED BY <1>1, <1>2, <1>5, <2>4, <2>6, <2>7, <2>8, Quiet
<1> QED BY <1>6, <1>7 DEF nmbm_write_logic_page, pb

LEMMA MarkBadTables ==
  ASSUME ~MarkMayFail, IndInv, LayInv, TabInv, nmbm_mark_bad_block PROVE TabInv'
<1>1. /\ ni \in Instance /\ loc \in Locals /\ cell' = cell /\ pc = "idle" /\ pc' = "update"
      /\ pc \notin Starting /\ pc \notin RangeUser
      /\ pc' \notin RangeUser /\ pc' \notin Starting \ {"off"}
  BY DEF IndInv, TypeOK, nmbm_mark_bad_block, Begin, Idle, Starting, RangeUser
<1>2. PICK lb \in Markable :
        /\ ni' = nmbm_set_block_state([ni EXCEPT !.block_mapping[lb] = Unmapped],
                                      {ni.block_mapping[lb]}, BLOCK_ST_BAD)
        /\ oob' = oob \cup {ni.block_mapping[lb]}
        /\ loc' = [loc EXCEPT !.lb = lb, !.uk = "bad_done"]
  BY DEF nmbm_mark_bad_block, Begin, Idle
<1> DEFINE n == [ni EXCEPT !.block_mapping[lb] = Unmapped]
           pb == ni.block_mapping[lb]
<1>3. /\ n \in Instance /\ n.block_state = ni.block_state /\ n.cache = ni.cache
      /\ n.sig_ba = ni.sig_ba /\ n.main_ba = ni.main_ba /\ n.backup_ba = ni.backup_ba
      /\ n.write_count = ni.write_count /\ n.protected = ni.protected
  BY <1>1, EnvironmentAssumption DEF Instance, Mapping
<1> HIDE DEF n, pb
<1>4. ni' = nmbm_set_block_state(n, {pb}, BLOCK_ST_BAD) /\ oob' = oob \cup {pb}
  BY <1>2 DEF n, pb
<1>5. Fades
  BY <1>1, <1>3, <1>4, SetFades DEF Shrinks
<1>6. /\ ni'.sig_ba = ni.sig_ba /\ ni'.main_ba = ni.main_ba /\ ni'.backup_ba = ni.backup_ba
      /\ ni'.cache = ni.cache /\ ni'.write_count = ni.write_count
      /\ ni'.protected = ni.protected
  BY <1>3, <1>4, SetStateRest DEF BlockState
<1>7. loc'.mk # "er_mapped" /\ ni.sig_ba # 0
  BY <1>1, <1>2, AtIdle DEF Locals
<1>8. UserInv' /\ (Active' => Active)
  BY <1>1, <1>6, <1>7 DEF UserInv, Active, Starting
<1> QED BY <1>1, <1>5, <1>6, <1>7, <1>8, Quiet


-----------------------------------------------------------------------------
(* Steps of the functions that write tables.                               *)

\* Back from a loop that found no place for the table.
LEMMA Unwritten ==
  ASSUME TableBlocks = 1, IndInv, TabInv, pc \in Writers, ~Written
  PROVE  /\ w.i = 1 /\ w.limit <= w.ba
         /\ \A b \in Tables : b \in Kept(pc) \/ (b \in Old(pc) /\ w.ba <= b)
         /\ pc \in Fronts => DeadBelow(ni.block_state, w.ba)
<1>1. pc \in RangeUser /\ w.k = pc
  BY DEF IndInv, FrameInv, Writers, RangeUser
<1>2. w \in Frame /\ w.i \in Nat /\ w.i # 0 /\ w.ba \in Nat /\ w.limit \in Int
  BY DEF IndInv, TypeOK, Frame
<1>3. w.i = 1
  BY <1>2 DEF Written
<1>4. w.ba >= w.limit
  BY DEF TabInv, ReachInv, WriteReturns
<1>5. /\ \A b \in Tables : b \in Kept(pc) \/ (b \in Old(pc) /\ w.ba <= b)
      /\ pc \in Fronts => DeadBelow(ni.block_state, w.ba)
  BY <1>1, <1>3 DEF TabInv, HomeInv
<1> QED BY <1>2, <1>3, <1>4, <1>5

\* ... and from one that wrote it.
LEMMA WrittenHome ==
  ASSUME TableBlocks = 1, IndInv, TabInv, pc \in Writers, Written
  PROVE  /\ \A b \in Tables : b \in Kept(pc) \/ b = w.start
         /\ pc \in Fronts => DeadBelow(ni.block_state, w.start)
<1>1. pc \in RangeUser /\ w.k = pc
  BY DEF IndInv, FrameInv, Writers, RangeUser
<1>2. w.i # 1
  BY DEF Written
<1> QED BY <1>1, <1>2 DEF TabInv, HomeInv

\* Blocks in front of a block in front of which there is none to use.
LEMMA DeadLess ==
  ASSUME NEW st, NEW a \in Int, NEW b \in Int, b <= a, DeadBelow(st, a) PROVE DeadBelow(st, b)
<1>1. \A c \in Blocks : c \in Int
  BY GeometryAssumption DEF Blocks
<1> QED BY <1>1 DEF DeadBelow

LEMMA DeadStart ==
  ASSUME NEW st, NEW a \in Int, a <= MgmtStart PROVE DeadBelow(st, a)
<1>1. \A c \in Blocks : c \in Int
  BY GeometryAssumption DEF Blocks
<1> QED BY <1>1, GeometryAssumption DEF DeadBelow

\* The call of a loop by a caller of another: the conditions on the new one.
LEMMA NextLoop ==
  ASSUME TabInv, pc \in RangeUser, NEW ba, NEW limit, NEW k,
         CallWrite(ba, limit, k) \/ CallErase(ba, limit, k), UNCHANGED <<cell, oob>>,
         ni'.block_state = ni.block_state, ni.sig_ba # 0, ni'.sig_ba = ni.sig_ba,
         ni'.cache = ni.cache, ni'.write_count = ni.write_count,
         loc'.mk = loc.mk, loc'.pb = loc.pb,
         DeadBelow(ni.block_state, ni'.main_ba) \/ k = "rs_front",
         k = "rm_tmp" \/ k = "rm_main" => DeadBelow(ni.block_state, ni'.backup_ba),
         k \in Fronts => DeadBelow(ni.block_state, ba),
         \A b \in Tables : b \in Kept(k)' \/ (b \in Old(k)' /\ ba <= b),
         k = "u_main" => limit = IF ni'.backup_ba = 0 THEN ni'.top_ba ELSE ni'.backup_ba,
         k = "us_main" => limit = ni'.backup_ba,
         k = "rs_front" => limit = ni'.main_ba,
         k = "u_backup" => limit = ni'.top_ba,
         k = "rm_main" => limit = loc'.start /\ ni'.backup_ba < loc'.start
  PROVE  TabInv'
<1>1. w'.ba = ba /\ w'.limit = limit /\ w'.i = 1 /\ w'.k = k /\ pc' \in {"write", "erase"}
  BY DEF CallWrite, CallErase
<1>2. NewestInv' /\ CopyInv' /\ pc \notin Starting
  BY SameCopy DEF RangeUser, Starting
<1>3. Tables' = Tables /\ oob' = oob
  BY SameFades
<1>4. FrontInv'
  <2>1. ~At("rs_front")' => DeadBelow(ni.block_state, ni'.main_ba)
    BY <1>1 DEF At
  <2>2. At("rm_tmp")' \/ At("rm_main")' => DeadBelow(ni.block_state, ni'.backup_ba)
    BY <1>1 DEF At
  <2> QED BY <1>3, <2>1, <2>2 DEF FrontInv, DeadBelow, Dead
<1>5. HomeInv'
  BY <1>1, <1>3 DEF HomeInv, DeadBelow, Dead, RangeUser
<1>6. ReachInv'
  BY <1>1 DEF ReachInv, At, Writers
<1>7. UserInv'
  BY <1>1 DEF TabInv, UserInv, Good
<1> QED BY <1>1, <1>2, <1>4, <1>5, <1>6, <1>7, CallTables


\* A step from a loop to a point outside the loops.
LEMMA BackFrom ==
  ASSUME TabInv, pc \in RangeUser, pc' \notin RangeUser, pc' \notin Starting \ {"off"},
         pc' # "wr_program", UNCHANGED <<cell, oob>>,
         ni'.block_state = ni.block_state, ni.sig_ba # 0, ni'.sig_ba = ni.sig_ba,
         ni'.cache = ni.cache, ni'.write_count = ni.write_count,
         loc'.mk = loc.mk, loc'.pb = loc.pb,
         Active' => /\ \A b \in Tables : b = ni'.main_ba \/ b = ni'.backup_ba
                    /\ DeadBelow(ni.block_state, ni'.main_ba)
  PROVE  TabInv'
<1>1. pc \notin Starting
  BY DEF RangeUser, Starting
<1>2. UserInv'
  BY DEF TabInv, UserInv, Good
<1>3. Fades /\ Tables' = Tables
  BY SameFades
<1>4. Active' => Tables' \subseteq {ni'.main_ba, ni'.backup_ba}
  BY <1>3
<1> QED BY <1>1, <1>2, <1>3, <1>4, Calm

\* While a loop runs no usable block lies in front of the main table.
LEMMA RunFront ==
  ASSUME IndInv, LayInv, TabInv, pc \in RangeUser, ~At("rs_front")
  PROVE  DeadBelow(ni.block_state, ni.main_ba)
<1>1. pc \notin Starting /\ ~ni.protected /\ pc # "load_failed"
  BY Running DEF RangeUser
<1> QED BY <1>1 DEF TabInv, FrontInv, Active

\* nmbm_rebuild_info_table
LEMMA RebuildMainTables ==
  ASSUME TableBlocks = 1, IndInv, LayInv, TabInv, RebuildMain PROVE TabInv'
<1>1. pc = "rb_main" /\ pc \in Writers /\ pc \in RangeUser /\ UNCHANGED <<cell, oob>>
  BY DEF RebuildMain, Writers, RangeUser, chip
<1>2. ni \in Instance /\ loc \in Locals /\ ni.sig_ba # 0
  BY <1>1, Numbers, Running
<1>3. CASE ~Written
  <2>1. ni' = [ni EXCEPT !.protected = TRUE] /\ loc' = [loc EXCEPT !.ok = FALSE]
    BY <1>3 DEF RebuildMain
  <2>2. pc' = "create_done" \/ pc' = loc.uk
    BY <1>3 DEF RebuildMain
  <2>3. pc' \notin RangeUser /\ pc' \notin Starting \ {"off"} /\ pc' # "wr_program"
    BY <2>2, Returns DEF IndInv, RangeUser, Starting
  <2>4. /\ ni'.block_state = ni.block_state /\ ni'.sig_ba = ni.sig_ba /\ ni'.protected
        /\ ni'.cache = ni.cache /\ ni'.write_count = ni.write_count
    BY <1>2, <2>1 DEF Instance
  <2>5. loc'.mk = loc.mk /\ loc'.pb = loc.pb
    BY <1>2, <2>1 DEF Locals
  <2>6. ~Active'
    BY <2>4 DEF Active
  <2> QED BY <1>1, <1>2, <2>3, <2>4, <2>5, <2>6, BackFrom
<1>4. CASE Written
  <2>1. (\A b \in Tables : b = w.start) /\ DeadBelow(ni.block_state, w.start)
    BY <1>1, <1>4, WrittenHome DEF Kept, Fronts
  <2>2. ni' = nmbm_mark_tables_clean([ni EXCEPT !.main_ba = w.start, !.map_ba = w.ba])
    BY <1>4 DEF RebuildMain, TableStart, TableEnd
  <2>3. /\ ni'.block_state = ni.block_state /\ ni'.sig_ba = ni.sig_ba /\ ni'.main_ba = w.start
        /\ ni'.cache = ni.cache /\ ni'.write_count = ni.write_count
    BY <1>2, <2>2 DEF Instance, nmbm_mark_tables_clean
  <2>4. CASE pc' = loc.rk /\ loc' = loc
    <3>1. pc' \notin RangeUser /\ pc' \notin Starting \ {"off"} /\ pc' # "wr_program"
      BY <2>4, Returns DEF IndInv
    <3> QED BY <1>1, <1>2, <2>1, <2>3, <2>4, <3>1, BackFrom
  <2>5. CASE \E next \in Reserve(ni, w.ba) :
               /\ CallWrite(next, ni.top_ba, "rb_backup") /\ loc' = [loc EXCEPT !.end = w.ba]
    <3>1. PICK next : CallWrite(next, ni.top_ba, "rb_backup")
      BY <2>5
    <3>2. loc'.mk = loc.mk /\ loc'.pb = loc.pb
      BY <1>2, <2>5 DEF Locals
    <3>3. \A b \in Tables : b \in Kept("rb_backup")'
      BY <2>1, <2>3 DEF Kept
    <3>4. "rb_backup" \notin Fronts
      BY DEF Fronts
    <3> QED BY <1>1, <1>2, <2>1, <2>3, <3>1, <3>2, <3>3, <3>4, NextLoop
  <2> QED BY <1>4, <2>4, <2>5 DEF RebuildMain, TableEnd
<1> QED BY <1>3, <1>4

LEMMA RebuildBackupTables ==
  ASSUME TableBlocks = 1, IndInv, LayInv, TabInv, RebuildBackup PROVE TabInv'
<1>1. /\ pc = "rb_backup" /\ pc \in Writers /\ pc \in RangeUser /\ UNCHANGED <<cell, oob, loc>>
      /\ w.k = "rb_backup"
  BY DEF RebuildBackup, Writers, RangeUser, chip, IndInv, FrameInv
<1>2. ni \in Instance /\ loc \in Locals /\ ni.sig_ba # 0
  BY <1>1, Numbers, Running
<1>3. DeadBelow(ni.block_state, ni.main_ba)
  BY <1>1, RunFront DEF At
<1>4. CASE ~Written
  <2>1. pc' = loc.rk /\ ni' = ni
    BY <1>4 DEF RebuildBackup
  <2>2. pc' \notin RangeUser /\ pc' \notin Starting \ {"off"} /\ pc' # "wr_program"
    BY <2>1, Returns DEF IndInv
  <2>3. \A b \in Tables : b = ni.main_ba
    BY <1>1, <1>4, Unwritten DEF Kept, Old
  <2> QED BY <1>1, <1>2, <1>3, <2>1, <2>2, <2>3, BackFrom
<1>5. CASE Written
  <2>1. \A b \in Tables : b = ni.main_ba \/ b = w.start
    BY <1>1, <1>5, WrittenHome DEF Kept
  <2>2. /\ ni' = [ni EXCEPT !.backup_ba = w.start, !.map_ba = w.ba]
        /\ CallErase(loc.end, w.start, loc.rk)
    BY <1>5 DEF RebuildBackup, TableStart, TableEnd
  <2>3. /\ ni'.block_state = ni.block_state /\ ni'.sig_ba = ni.sig_ba
        /\ ni'.main_ba = ni.main_ba /\ ni'.backup_ba = w.start
        /\ ni'.cache = ni.cache /\ ni'.write_count = ni.write_count
    BY <1>2, <2>2 DEF Instance
  <2>4. loc.rk \in {"off", "create_map", "update"}
    BY <1>2 DEF Locals, RebuildReturn
  <2> DEFINE k == loc.rk
  <2>6. /\ k \notin Fronts /\ k # "rm_tmp" /\ k # "rm_main" /\ k # "u_main" /\ k # "us_main"
        /\ k # "rs_front" /\ k # "u_backup"
    BY <2>4 DEF Fronts
  <2>7. PICK r : r = k
    OBVIOUS
  <2>8. \A b \in Tables : b \in Kept(r)'
    BY <1>1, <2>1, <2>3, <2>4, <2>7 DEF Kept
  <2>9. CallErase(loc.end, w.start, r)
    BY <2>2, <2>7
  <2>10. PICK e, s : CallErase(e, s, r)
    BY <2>9
  <2> QED BY <1>1, <1>2, <1>3, <2>3, <2>6, <2>7, <2>8, <2>10, NextLoop
<1> QED BY <1>4, <1>5


\* The call at write_main_table; the main table exists.
LEMMA WriteMainTables ==
  ASSUME IndInv, TabInv, pc \in RangeUser, UNCHANGED <<cell, oob>>, ni.sig_ba # 0,
         NEW n, NEW limit, n.main_ba # 0, WriteMain(n, limit),
         n.block_state = ni.block_state, n.sig_ba = ni.sig_ba, n.main_ba = ni.main_ba,
         n.cache = ni.cache, n.write_count = ni.write_count,
         limit = IF n.backup_ba = 0 THEN n.top_ba ELSE n.backup_ba,
         DeadBelow(ni.block_state, ni.main_ba),
         \A b \in Tables : b = n.backup_ba \/ b = ni.main_ba
  PROVE  TabInv'
<1>1. ni' = n /\ CallWrite(n.main_ba, limit, "u_main") /\ loc' = loc
  BY DEF WriteMain
<1>2. \A b \in Tables : b \in Kept("u_main")' \/ (b \in Old("u_main")' /\ n.main_ba <= b)
  <2>1. \A b \in Tables : b \in Nat
    BY TableValue DEF IndInv
  <2> QED BY <1>1, <2>1 DEF Kept, Old
<1> QED BY <1>1, <1>2, NextLoop

LEMMA UpdateBackupTables ==
  ASSUME TableBlocks = 1, IndInv, LayInv, TabInv, UpdateBackup PROVE TabInv'
<1>1. /\ pc = "u_backup" /\ pc \in Writers /\ pc \in RangeUser /\ UNCHANGED <<cell, oob>>
      /\ w.k = "u_backup"
  BY DEF UpdateBackup, Writers, RangeUser, chip, IndInv, FrameInv
<1>2. ni \in Instance /\ loc \in Locals /\ ni.sig_ba # 0 /\ ni.backup_ba # 0
  BY <1>1, Numbers, Running DEF IndInv, FrameInv
<1>3. DeadBelow(ni.block_state, ni.main_ba) /\ Placed(ni) /\ ni.map_ba <= ni.top_ba
  BY <1>1, RunFront, PlaceNow DEF At
<1>4. ni.main_ba # 0 /\ ni.backup_ba < ni.top_ba
  BY <1>2, <1>3, Numbers DEF Placed
<1>5. CASE Written
  <2> DEFINE n == nmbm_mark_tables_clean([ni EXCEPT !.backup_ba = w.start, !.map_ba = w.ba])
  <2>1. WriteMain(n, w.start)
    BY <1>5 DEF UpdateBackup, TableStart, TableEnd
  <2>2. /\ n.block_state = ni.block_state /\ n.sig_ba = ni.sig_ba /\ n.main_ba = ni.main_ba
        /\ n.cache = ni.cache /\ n.write_count = ni.write_count /\ n.backup_ba = w.start
    BY <1>2 DEF Instance, nmbm_mark_tables_clean
  <2>3. w.start # 0
    BY <1>1, <1>5, WrittenPlace, Numbers
  <2>4. \A b \in Tables : b = ni.main_ba \/ b = w.start
    BY <1>1, <1>5, WrittenHome DEF Kept
  <2> HIDE DEF n
  <2> QED BY <1>1, <1>2, <1>3, <1>4, <2>1, <2>2, <2>3, <2>4, WriteMainTables
<1>6. CASE ~Written
  <2> DEFINE n == [ni EXCEPT !.map_ba = ni.backup_ba, !.backup_ba = 0]
  <2>1. WriteMain(n, ni.top_ba)
    BY <1>6 DEF UpdateBackup
  <2>2. /\ n.block_state = ni.block_state /\ n.sig_ba = ni.sig_ba /\ n.main_ba = ni.main_ba
        /\ n.cache = ni.cache /\ n.write_count = ni.write_count /\ n.backup_ba = 0
        /\ n.top_ba = ni.top_ba
    BY <1>2 DEF Instance
  <2>3. w.limit = ni.top_ba /\ w.limit <= w.ba
    BY <1>1, <1>6, Unwritten DEF TabInv, ReachInv, At
  <2>4. ~(w.ba <= ni.backup_ba)
    BY <1>4, <2>3, Numbers
  <2>5. \A b \in Tables : b = ni.main_ba
    BY <1>1, <1>6, <2>4, Unwritten DEF Kept, Old
  <2> HIDE DEF n
  <2> QED BY <1>1, <1>2, <1>3, <1>4, <2>1, <2>2, <2>5, WriteMainTables
<1> QED BY <1>5, <1>6

\* A call of nmbm_rebuild_info_table.
LEMMA RebuildTables ==
  ASSUME TabInv, pc \in RangeUser, UNCHANGED <<cell, oob>>, ni.sig_ba # 0, Tables = {},
         NEW n \in Instance, Rebuild(n), n.block_state = ni.block_state, n.sig_ba = ni.sig_ba,
         n.cache = ni.cache, n.write_count = ni.write_count,
         loc'.mk = loc.mk, loc'.pb = loc.pb
  PROVE  TabInv'
<1>1. /\ ni' = [n EXCEPT !.main_ba = 0, !.backup_ba = 0, !.map_ba = n.top_ba]
      /\ CallWrite(MgmtStart, n.top_ba, "rb_main")
  BY DEF Rebuild
<1>2. /\ ni'.block_state = ni.block_state /\ ni'.sig_ba = ni.sig_ba /\ ni'.main_ba = 0
      /\ ni'.cache = ni.cache /\ ni'.write_count = ni.write_count
  BY <1>1 DEF Instance
<1>3. DeadBelow(ni.block_state, 0) /\ DeadBelow(ni.block_state, MgmtStart)
  BY DeadStart, GeometryAssumption
<1> QED BY <1>1, <1>2, <1>3, NextLoop

LEMMA UpdateMainTables ==
  ASSUME TableBlocks = 1, IndInv, LayInv, TabInv, UpdateMain PROVE TabInv'
<1>1. /\ pc = "u_main" /\ pc \in Writers /\ pc \in RangeUser /\ UNCHANGED <<cell, oob>>
      /\ w.k = "u_main" /\ pc \in Fronts
  BY DEF UpdateMain, Writers, RangeUser, chip, IndInv, FrameInv, Fronts
<1>2. ni \in Instance /\ loc \in Locals /\ ni.sig_ba # 0
  BY <1>1, Numbers, Running
<1>3. DeadBelow(ni.block_state, ni.main_ba) /\ Placed(ni) /\ ni.map_ba <= ni.top_ba
  BY <1>1, RunFront, PlaceNow DEF At
<1>4. w.limit = IF ni.backup_ba = 0 THEN ni.top_ba ELSE ni.backup_ba
  BY <1>1 DEF TabInv, ReachInv, At
<1>5. ni.main_ba < w.limit
  BY <1>3, <1>4, Numbers DEF Placed
<1>6. CASE Written
  <2>1. (\A b \in Tables : b = ni.backup_ba \/ b = w.start) /\ DeadBelow(ni.block_state, w.start)
    BY <1>1, <1>6, WrittenHome DEF Kept
  <2>2. /\ pc' = "update" /\ loc' = loc
        /\ ni' = nmbm_mark_tables_clean(
                   [ni EXCEPT !.main_ba = w.start,
                              !.map_ba = IF ni.backup_ba = 0 THEN w.ba ELSE @])
    BY <1>6 DEF UpdateMain, TableStart, TableEnd
  <2>3. /\ ni'.block_state = ni.block_state /\ ni'.sig_ba = ni.sig_ba
        /\ ni'.main_ba = w.start /\ ni'.backup_ba = ni.backup_ba
        /\ ni'.cache = ni.cache /\ ni'.write_count = ni.write_count
    BY <1>2, <2>2 DEF Instance, nmbm_mark_tables_clean
  <2>4. pc' \notin RangeUser /\ pc' \notin Starting \ {"off"} /\ pc' # "wr_program"
    BY <2>2 DEF RangeUser, Starting
  <2> QED BY <1>1, <1>2, <2>1, <2>2, <2>3, <2>4, BackFrom
<1>7. ASSUME ~Written
      PROVE  /\ \A b \in Tables : b = ni.backup_ba
             /\ w.limit <= w.ba /\ DeadBelow(ni.block_state, w.ba)
  <2>1. w.limit <= w.ba /\ DeadBelow(ni.block_state, w.ba)
    BY <1>1, <1>7, Unwritten
  <2>2. ~(w.ba <= ni.main_ba)
    BY <1>5, <2>1, Numbers
  <2>3. \A b \in Tables : b = ni.backup_ba
    BY <1>1, <1>7, <2>2, Unwritten DEF Kept, Old
  <2> QED BY <2>1, <2>3
<1>8. CASE ~Written /\ ni.backup_ba = 0 /\ Rebuild(ni) /\ loc' = [loc EXCEPT !.rk = "update"]
  <2>1. Tables = {}
    <3>1. \A b \in Tables : MgmtStart <= b
      BY DEF TabInv, ChipTables
    <3> QED BY <1>7, <1>8, <3>1, GeometryAssumption
  <2>2. loc'.mk = loc.mk /\ loc'.pb = loc.pb
    BY <1>2, <1>8 DEF Locals
  <2> QED BY <1>1, <1>2, <1>8, <2>1, <2>2, RebuildTables
<1>9. ASSUME ~Written, ni.backup_ba # 0 PROVE DeadBelow(ni.block_state, ni.backup_ba)
  <2>1. ni.backup_ba <= w.ba
    BY <1>4, <1>7, <1>9, Numbers
  <2> QED BY <1>7, <1>9, <2>1, Numbers, DeadLess
<1>10. CASE ~Written /\ ni.backup_ba # 0 /\ ni' = BackupBecomesMain(ni) /\ pc' = "update" /\ loc' = loc
  <2>1. /\ ni'.block_state = ni.block_state /\ ni'.sig_ba = ni.sig_ba
        /\ ni'.main_ba = ni.backup_ba
        /\ ni'.cache = ni.cache /\ ni'.write_count = ni.write_count
    BY <1>2, <1>10 DEF Instance, BackupBecomesMain
  <2>2. pc' \notin RangeUser /\ pc' \notin Starting \ {"off"} /\ pc' # "wr_program"
    BY <1>10 DEF RangeUser, Starting
  <2> QED BY <1>1, <1>2, <1>7, <1>9, <1>10, <2>1, <2>2, BackFrom
<1>11. CASE /\ ~Written /\ ni.backup_ba # 0 /\ ni' = ni
            /\ \E write_ba \in Reserve(ni, ni.map_ba) :
                 /\ CallWrite(write_ba, ni.top_ba, "rm_tmp")
                 /\ loc' = [loc EXCEPT !.ba = write_ba]
  <2>1. PICK write_ba : CallWrite(write_ba, ni.top_ba, "rm_tmp")
    BY <1>11
  <2>2. loc'.mk = loc.mk /\ loc'.pb = loc.pb
    BY <1>2, <1>11 DEF Locals
  <2>3. \A b \in Tables : b \in Kept("rm_tmp")'
    BY <1>7, <1>11 DEF Kept
  <2>4. "rm_tmp" \notin Fronts
    BY DEF Fronts
  <2> QED BY <1>1, <1>2, <1>3, <1>9, <1>11, <2>1, <2>2, <2>3, <2>4, NextLoop
<1> QED BY <1>6, <1>8, <1>10, <1>11 DEF UpdateMain


\* nmbm_rescue_main_info_table
LEMMA RescueTmpTables ==
  ASSUME TableBlocks = 1, IndInv, LayInv, TabInv, RescueTmp PROVE TabInv'
<1>1. /\ pc = "rm_tmp" /\ pc \in Writers /\ pc \in RangeUser /\ UNCHANGED <<cell, oob>>
      /\ w.k = "rm_tmp"
  BY DEF RescueTmp, Writers, RangeUser, chip, IndInv, FrameInv
<1>2. ni \in Instance /\ loc \in Locals /\ ni.sig_ba # 0
  BY <1>1, Numbers, Running
<1>3. /\ DeadBelow(ni.block_state, ni.main_ba) /\ Placed(ni) /\ ni.map_ba <= ni.top_ba
      /\ DeadBelow(ni.block_state, ni.backup_ba) /\ ni.backup_ba # 0
  BY <1>1, RunFront, PlaceNow DEF At, TabInv, FrontInv, LayInv, WriterInv
<1>4. ASSUME ~Written PROVE \A b \in Tables : b = ni.backup_ba
  BY <1>1, <1>4, Unwritten DEF Kept, Old
<1>5. CASE Written
  <2>1. /\ ni' = [ni EXCEPT !.map_ba = w.ba] /\ loc' = [loc EXCEPT !.start = w.start]
        /\ CallWrite(MgmtStart, w.start, "rm_main")
    BY <1>5 DEF RescueTmp, TableStart, TableEnd
  <2>2. /\ ni'.block_state = ni.block_state /\ ni'.sig_ba = ni.sig_ba
        /\ ni'.main_ba = ni.main_ba /\ ni'.backup_ba = ni.backup_ba
        /\ ni'.cache = ni.cache /\ ni'.write_count = ni.write_count
    BY <1>2, <2>1 DEF Instance
  <2>3. loc'.mk = loc.mk /\ loc'.pb = loc.pb /\ loc'.start = w.start
    BY <1>2, <2>1 DEF Locals
  <2>4. ni.map_ba <= w.start
    BY <1>1, <1>5, WrittenPlace DEF Base
  <2>5. ni.backup_ba < w.start /\ MgmtStart <= ni.backup_ba
    BY <1>3, <2>4, Numbers DEF Placed
  <2>6. \A b \in Tables : b = ni.backup_ba \/ b = w.start
    BY <1>1, <1>5, WrittenHome DEF Kept
  <2>7. \A b \in Tables : b \in Kept("rm_main")' \/ (b \in Old("rm_main")' /\ MgmtStart <= b)
    BY <2>2, <2>3, <2>5, <2>6 DEF Kept, Old
  <2>8. DeadBelow(ni.block_state, MgmtStart)
    BY DeadStart, GeometryAssumption
  <2>9. ni'.backup_ba < loc'.start /\ w.start = loc'.start
    BY <2>2, <2>3, <2>5
  <2>10. PICK l : l = w.start
    OBVIOUS
  <2>11. CallWrite(MgmtStart, l, "rm_main") /\ l = loc'.start
    BY <2>1, <2>9, <2>10
  <2> QED BY <1>1, <1>2, <1>3, <2>2, <2>3, <2>7, <2>8, <2>9, <2>11, NextLoop
<1>6. CASE ~Written /\ CallWrite(loc.ba - 1, ni.top_ba, "rm_tmp") /\ ni' = ni
             /\ loc' = [loc EXCEPT !.ba = @ - 1]
  <2>1. PICK a : CallWrite(a, ni.top_ba, "rm_tmp")
    BY <1>6
  <2>2. loc'.mk = loc.mk /\ loc'.pb = loc.pb
    BY <1>2, <1>6 DEF Locals
  <2>3. \A b \in Tables : b \in Kept("rm_tmp")'
    BY <1>4, <1>6 DEF Kept
  <2>4. "rm_tmp" \notin Fronts
    BY DEF Fronts
  <2> QED BY <1>1, <1>2, <1>3, <1>6, <2>1, <2>2, <2>3, <2>4, NextLoop
<1>7. CASE ~Written /\ ni' = BackupBecomesMain(ni) /\ pc' = "update" /\ loc' = loc
  <2>1. /\ ni'.block_state = ni.block_state /\ ni'.sig_ba = ni.sig_ba
        /\ ni'.main_ba = ni.backup_ba
        /\ ni'.cache = ni.cache /\ ni'.write_count = ni.write_count
    BY <1>2, <1>7 DEF Instance, BackupBecomesMain
  <2>2. pc' \notin RangeUser /\ pc' \notin Starting \ {"off"} /\ pc' # "wr_program"
    BY <1>7 DEF RangeUser, Starting
  <2> QED BY <1>1, <1>2, <1>3, <1>4, <1>7, <2>1, <2>2, BackFrom
<1> QED BY <1>5, <1>6, <1>7 DEF RescueTmp

LEMMA RescueMainTables ==
  ASSUME TableBlocks = 1, IndInv, LayInv, TabInv, RescueMain PROVE TabInv'
<1>1. /\ pc = "rm_main" /\ pc \in Writers /\ pc \in RangeUser /\ UNCHANGED <<cell, oob, loc>>
      /\ w.k = "rm_main" /\ pc \in Fronts /\ pc' = "update"
  BY DEF RescueMain, Writers, RangeUser, chip, IndInv, FrameInv, Fronts
<1>2. ni \in Instance /\ loc \in Locals /\ ni.sig_ba # 0
  BY <1>1, Numbers, Running
<1>3. w.limit = loc.start /\ ni.backup_ba < loc.start
  BY <1>1 DEF TabInv, ReachInv, At
<1>4. pc' \notin RangeUser /\ pc' \notin Starting \ {"off"} /\ pc' # "wr_program"
  BY <1>1 DEF RangeUser, Starting
<1>5. CASE Written
  <2>1. ni' = nmbm_mark_tables_clean([ni EXCEPT !.main_ba = w.start, !.backup_ba = loc.start])
    BY <1>5 DEF RescueMain, TableStart
  <2>2. /\ ni'.block_state = ni.block_state /\ ni'.sig_ba = ni.sig_ba
        /\ ni'.main_ba = w.start /\ ni'.backup_ba = loc.start
        /\ ni'.cache = ni.cache /\ ni'.write_count = ni.write_count
    BY <1>2, <2>1 DEF Instance, nmbm_mark_tables_clean
  <2>3. (\A b \in Tables : b = loc.start \/ b = w.start) /\ DeadBelow(ni.block_state, w.start)
    BY <1>1, <1>5, WrittenHome DEF Kept
  <2> QED BY <1>1, <1>2, <1>4, <2>2, <2>3, BackFrom
<1>6. CASE ~Written
  <2>1. ni' = nmbm_mark_tables_clean([ni EXCEPT !.main_ba = loc.start, !.backup_ba = 0])
    BY <1>6 DEF RescueMain
  <2>2. /\ ni'.block_state = ni.block_state /\ ni'.sig_ba = ni.sig_ba
        /\ ni'.main_ba = loc.start
        /\ ni'.cache = ni.cache /\ ni'.write_count = ni.write_count
    BY <1>2, <2>1 DEF Instance, nmbm_mark_tables_clean
  <2>3. w.limit <= w.ba /\ DeadBelow(ni.block_state, w.ba)
    BY <1>1, <1>6, Unwritten
  <2>4. ~(w.ba <= ni.backup_ba) /\ loc.start <= w.ba
    BY <1>3, <2>3, Numbers
  <2>5. \A b \in Tables : b = loc.start
    BY <1>1, <1>6, <2>4, Unwritten DEF Kept, Old
  <2>6. DeadBelow(ni.block_state, loc.start)
    BY <2>3, <2>4, Numbers, DeadLess
  <2> QED BY <1>1, <1>2, <1>4, <2>2, <2>5, <2>6, BackFrom
<1> QED BY <1>5, <1>6

\* nmbm_update_single_info_table
LEMMA UpdateSingleTables ==
  ASSUME TableBlocks = 1, IndInv, LayInv, TabInv, UpdateSingle PROVE TabInv'
<1>1. /\ pc \in {"us_main", "us_backup"} /\ pc \in Writers /\ pc \in RangeUser
      /\ UNCHANGED <<cell, oob>> /\ w.k = pc /\ ~At("rs_front")
  BY DEF UpdateSingle, Writers, RangeUser, chip, IndInv, FrameInv, At
<1>2. ni \in Instance /\ loc \in Locals /\ ni.sig_ba # 0 /\ loc' = loc
  BY <1>1, Numbers, Running DEF UpdateSingle
<1>3. DeadBelow(ni.block_state, ni.main_ba)
  BY <1>1, RunFront
<1>4. CASE pc = "us_main" /\ Written
  <2>1. /\ pc' = "load_ok"
        /\ ni' = nmbm_mark_tables_clean([ni EXCEPT !.main_ba = w.start])
    BY <1>4 DEF UpdateSingle, TableStart
  <2>2. /\ ni'.block_state = ni.block_state /\ ni'.sig_ba = ni.sig_ba
        /\ ni'.main_ba = w.start /\ ni'.backup_ba = ni.backup_ba
        /\ ni'.cache = ni.cache /\ ni'.write_count = ni.write_count
    BY <1>2, <2>1 DEF Instance, nmbm_mark_tables_clean
  <2>3. (\A b \in Tables : b = ni.backup_ba \/ b = w.start) /\ DeadBelow(ni.block_state, w.start)
    BY <1>1, <1>4, WrittenHome DEF Kept, Fronts
  <2>4. pc' \notin RangeUser /\ pc' \notin Starting \ {"off"} /\ pc' # "wr_program"
    BY <2>1 DEF RangeUser, Starting
  <2> QED BY <1>1, <1>2, <2>2, <2>3, <2>4, BackFrom
<1>5. CASE pc = "us_main" /\ ~Written
  <2>1. ni' = BackupBecomesMain(ni) /\ CallWrite(MgmtStart, ni.backup_ba, "rs_front")
    BY <1>5 DEF UpdateSingle
  <2>2. /\ ni'.block_state = ni.block_state /\ ni'.sig_ba = ni.sig_ba
        /\ ni'.main_ba = ni.backup_ba
        /\ ni'.cache = ni.cache /\ ni'.write_count = ni.write_count
    BY <1>2, <2>1 DEF Instance, BackupBecomesMain
  <2>3. w.limit = ni.backup_ba /\ ni.backup_ba # 0
    BY <1>5 DEF TabInv, ReachInv, LayInv, WriterInv, At
  <2>4. Placed(ni)
    BY <1>1, <1>5, PlaceNow DEF At
  <2>5. w.limit <= w.ba
    BY <1>1, <1>5, Unwritten
  <2>6. ~(w.ba <= ni.main_ba)
    BY <2>3, <2>4, <2>5, Numbers DEF Placed
  <2>7. \A b \in Tables : b = ni.backup_ba
    BY <1>1, <1>5, <2>6, Unwritten DEF Kept, Old
  <2>8. \A b \in Tables : b \in Kept("rs_front")'
    BY <2>2, <2>7 DEF Kept
  <2>9. DeadBelow(ni.block_state, MgmtStart)
    BY DeadStart, GeometryAssumption
  <2>10. PICK l : l = ni.backup_ba
    OBVIOUS
  <2>11. CallWrite(MgmtStart, l, "rs_front") /\ l = ni'.main_ba
    BY <2>1, <2>2, <2>10
  <2> QED BY <1>1, <1>2, <2>2, <2>8, <2>9, <2>11, NextLoop
<1>6. CASE pc = "us_backup" /\ Written
  <2>1. /\ pc' = "load_ok"
        /\ ni' = nmbm_mark_tables_clean([ni EXCEPT !.backup_ba = w.start, !.map_ba = w.ba])
    BY <1>6 DEF UpdateSingle, TableStart, TableEnd
  <2>2. /\ ni'.block_state = ni.block_state /\ ni'.sig_ba = ni.sig_ba
        /\ ni'.main_ba = ni.main_ba /\ ni'.backup_ba = w.start
        /\ ni'.cache = ni.cache /\ ni'.write_count = ni.write_count
    BY <1>2, <2>1 DEF Instance, nmbm_mark_tables_clean
  <2>3. \A b \in Tables : b = ni.main_ba \/ b = w.start
    BY <1>1, <1>6, WrittenHome DEF Kept
  <2>4. pc' \notin RangeUser /\ pc' \notin Starting \ {"off"} /\ pc' # "wr_program"
    BY <2>1 DEF RangeUser, Starting
  <2> QED BY <1>1, <1>2, <1>3, <2>2, <2>3, <2>4, BackFrom
<1>7. CASE pc = "us_backup" /\ ~Written
  <2>1. pc' = "load_failed" /\ ni' = [ni EXCEPT !.map_ba = ni.backup_ba, !.backup_ba = 0]
    BY <1>7 DEF UpdateSingle
  <2>2. /\ ni'.block_state = ni.block_state /\ ni'.sig_ba = ni.sig_ba
        /\ ni'.cache = ni.cache /\ ni'.write_count = ni.write_count
    BY <1>2, <2>1 DEF Instance
  <2>3. ~Active' /\ pc' \notin RangeUser /\ pc' \notin Starting \ {"off"} /\ pc' # "wr_program"
    BY <2>1 DEF RangeUser, Starting, Active
  <2> QED BY <1>1, <1>2, <2>2, <2>3, BackFrom
<1> QED BY <1>1, <1>4, <1>5, <1>6, <1>7

\* nmbm_rescue_single_info_table
LEMMA RescueFrontTables ==
  ASSUME TableBlocks = 1, IndInv, LayInv, TabInv, RescueFront PROVE TabInv'
<1>1. /\ pc = "rs_front" /\ pc \in Writers /\ pc \in RangeUser /\ UNCHANGED <<cell, oob>>
      /\ w.k = pc /\ pc \in Fronts
  BY DEF RescueFront, Writers, RangeUser, chip, IndInv, FrameInv, Fronts
<1>2. ni \in Instance /\ loc \in Locals /\ ni.sig_ba # 0
  BY <1>1, Numbers, Running
<1>3. CASE Written
  <2>1. /\ ni' = nmbm_mark_tables_clean([ni EXCEPT !.backup_ba = ni.main_ba, !.main_ba = w.start])
        /\ CallErase(w.ba, ni.main_ba, "load_ok") /\ loc' = loc
    BY <1>3 DEF RescueFront, TableStart, TableEnd
  <2>2. /\ ni'.block_state = ni.block_state /\ ni'.sig_ba = ni.sig_ba
        /\ ni'.main_ba = w.start /\ ni'.backup_ba = ni.main_ba
        /\ ni'.cache = ni.cache /\ ni'.write_count = ni.write_count
    BY <1>2, <2>1 DEF Instance, nmbm_mark_tables_clean
  <2>3. (\A b \in Tables : b = ni.main_ba \/ b = w.start) /\ DeadBelow(ni.block_state, w.start)
    BY <1>1, <1>3, WrittenHome DEF Kept
  <2>4. \A b \in Tables : b \in Kept("load_ok")'
    BY <2>2, <2>3 DEF Kept
  <2>5. "load_ok" \notin Fronts
    BY DEF Fronts
  <2>6. PICK e, s : CallErase(e, s, "load_ok")
    BY <2>1
  <2> QED BY <1>1, <1>2, <2>1, <2>2, <2>3, <2>4, <2>5, <2>6, NextLoop
<1>4. CASE ~Written /\ pc' = "load_failed" /\ UNCHANGED <<ni, loc>>
  <2>1. ~Active' /\ pc' \notin RangeUser /\ pc' \notin Starting \ {"off"} /\ pc' # "wr_program"
    BY <1>4 DEF RangeUser, Starting, Active
  <2> QED BY <1>1, <1>2, <1>4, <2>1, BackFrom
<1>5. CASE /\ ~Written /\ ni' = ni
           /\ \E write_ba \in Reserve(ni, ni.map_ba) :
                /\ loc' = [loc EXCEPT !.ba = write_ba]
                /\ CallWrite(write_ba, ni.top_ba, "rs_next")
  <2>1. PICK write_ba : CallWrite(write_ba, ni.top_ba, "rs_next")
    BY <1>5
  <2>2. loc'.mk = loc.mk /\ loc'.pb = loc.pb
    BY <1>2, <1>5 DEF Locals
  <2>3. /\ \A b \in Tables : b = ni.main_ba
        /\ w.limit <= w.ba /\ DeadBelow(ni.block_state, w.ba)
    BY <1>1, <1>5, Unwritten DEF Kept, Old
  <2>4. w.limit = ni.main_ba
    BY <1>1 DEF TabInv, ReachInv, At
  <2>5. DeadBelow(ni.block_state, ni.main_ba)
    BY <2>3, <2>4, Numbers, DeadLess
  <2>6. \A b \in Tables : b \in Kept("rs_next")'
    BY <1>5, <2>3 DEF Kept
  <2>7. "rs_next" \notin Fronts
    BY DEF Fronts
  <2> QED BY <1>1, <1>2, <1>5, <2>1, <2>2, <2>5, <2>6, <2>7, NextLoop
<1> QED BY <1>3, <1>4, <1>5 DEF RescueFront

LEMMA RescueNextTables ==
  ASSUME TableBlocks = 1, IndInv, LayInv, TabInv, RescueNext PROVE TabInv'
<1>1. /\ pc \in {"rs_next", "rs_erased"} /\ pc \in RangeUser /\ UNCHANGED <<cell, oob>>
      /\ w.k = pc /\ ~At("rs_front")
  BY DEF RescueNext, RangeUser, chip, IndInv, FrameInv, At
<1>2. ni \in Instance /\ loc \in Locals /\ ni.sig_ba # 0
  BY <1>1, Numbers, Running
<1>3. DeadBelow(ni.block_state, ni.main_ba)
  BY <1>1, RunFront
<1>4. CASE pc = "rs_next" /\ Written
  <2>1. /\ loc' = [loc EXCEPT !.start = w.start, !.end = w.ba] /\ ni' = ni
        /\ CallErase(ni.map_ba, w.start, "rs_erased")
    BY <1>4 DEF RescueNext, TableStart, TableEnd
  <2>2. loc'.mk = loc.mk /\ loc'.pb = loc.pb /\ loc'.start = w.start
    BY <1>2, <2>1 DEF Locals
  <2>3. \A b \in Tables : b = ni.main_ba \/ b = w.start
    BY <1>1, <1>4, WrittenHome DEF Kept, Writers
  <2>4. \A b \in Tables : b \in Kept("rs_erased")'
    BY <2>1, <2>2, <2>3 DEF Kept
  <2>5. "rs_erased" \notin Fronts
    BY DEF Fronts
  <2>6. PICK e, s : CallErase(e, s, "rs_erased")
    BY <2>1
  <2> QED BY <1>1, <1>2, <1>3, <2>1, <2>2, <2>4, <2>5, <2>6, NextLoop
<1>5. CASE /\ pc = "rs_next" /\ ~Written /\ loc' = [loc EXCEPT !.ba = @ - 1]
           /\ CallWrite(loc.ba - 1, ni.top_ba, "rs_next") /\ ni' = ni
  <2>1. PICK a : CallWrite(a, ni.top_ba, "rs_next")
    BY <1>5
  <2>2. loc'.mk = loc.mk /\ loc'.pb = loc.pb
    BY <1>2, <1>5 DEF Locals
  <2>3. \A b \in Tables : b = ni.main_ba
    BY <1>1, <1>5, Unwritten DEF Kept, Old, Writers
  <2>4. \A b \in Tables : b \in Kept("rs_next")'
    BY <1>5, <2>3 DEF Kept
  <2>5. "rs_next" \notin Fronts
    BY DEF Fronts
  <2> QED BY <1>1, <1>2, <1>3, <1>5, <2>1, <2>2, <2>4, <2>5, NextLoop
<1>6. CASE pc = "rs_next" /\ pc' = "load_failed" /\ UNCHANGED <<ni, loc>>
  <2>1. ~Active' /\ pc' \notin RangeUser /\ pc' \notin Starting \ {"off"} /\ pc' # "wr_program"
    BY <1>6 DEF RangeUser, Starting, Active
  <2> QED BY <1>1, <1>2, <1>6, <2>1, BackFrom
<1>7. CASE pc = "rs_erased"
  <2>1. /\ pc' = "load_ok" /\ loc' = loc
        /\ ni' = nmbm_mark_tables_clean([ni EXCEPT !.backup_ba = loc.start, !.map_ba = loc.end])
    BY <1>7 DEF RescueNext
  <2>2. /\ ni'.block_state = ni.block_state /\ ni'.sig_ba = ni.sig_ba
        /\ ni'.main_ba = ni.main_ba /\ ni'.backup_ba = loc.start
        /\ ni'.cache = ni.cache /\ ni'.write_count = ni.write_count
    BY <1>2, <2>1 DEF Instance, nmbm_mark_tables_clean
  <2>3. "rs_erased" \notin Writers
    BY DEF Writers
  <2>4. \A b \in Tables : b = ni.main_ba \/ b = loc.start
    BY <1>1, <1>7, <2>3 DEF TabInv, HomeInv, Kept, Old
  <2>5. pc' \notin RangeUser /\ pc' \notin Starting \ {"off"} /\ pc' # "wr_program"
    BY <2>1 DEF RangeUser, Starting
  <2> QED BY <1>1, <1>2, <1>3, <2>1, <2>2, <2>4, <2>5, BackFrom
<1> QED BY <1>4, <1>5, <1>6, <1>7 DEF RescueNext


\* nmbm_update_info_table prepares a table with the next write count.
LEMMA UpdateTables ==
  ASSUME IndInv, LayInv, TabInv, nmbm_update_info_table PROVE TabInv'
<1>1. /\ pc = "update" /\ pc \notin Starting /\ pc \notin RangeUser /\ UNCHANGED <<cell, oob>>
      /\ pc # "load_failed" /\ TypeOK
  BY DEF nmbm_update_info_table, chip, Starting, RangeUser, IndInv
<1>2. ni \in Instance /\ loc \in Locals /\ ni.sig_ba # 0
  BY <1>1, Ready
<1>3. CASE pc' = loc.uk /\ loc' = [loc EXCEPT !.ok = TRUE] /\ ni' = ni
  <2>1. pc' \notin RangeUser /\ pc' \notin Starting \ {"off"} /\ pc' # "wr_program"
    BY <1>3, Returns DEF IndInv
  <2>2. loc'.mk = loc.mk /\ loc'.pb = loc.pb
    BY <1>2, <1>3 DEF Locals
  <2>3. Active' => Active
    BY <1>1, <1>3 DEF Active
  <2> QED BY <1>1, <1>2, <1>3, <2>1, <2>2, <2>3, Still
<1>4. CASE ~ni.protected /\ ni.dirty
  <2> DEFINE n == nmbm_generate_info_table_cache(ni)
  <2>1. /\ n \in Instance /\ n.sig_ba = ni.sig_ba
        /\ n.main_ba = ni.main_ba /\ n.backup_ba = ni.backup_ba /\ n.top_ba = ni.top_ba
    BY <1>2, GenerateCache
  <2>2. Active /\ ~At("rb_main") /\ ~At("us_backup") /\ ~At("rs_front")
    BY <1>1, <1>4 DEF Active, At, RangeUser
  <2>3. Placed(ni)
    BY <1>1, <1>4, <2>2 DEF LayInv, PlaceInv
  <2>4. ni.main_ba # 0
    BY <2>3, Numbers DEF Placed
  <2>5. /\ Tables \subseteq {ni.main_ba, ni.backup_ba}
        /\ DeadBelow(ni.block_state, ni.main_ba)
    BY <1>1, <2>2 DEF TabInv, HomeInv, FrontInv
  <2>6. \A b \in Tables :
          /\ TableIn(b).write_count <= ni.write_count
          /\ Covers(TableIn(b), ni.block_state) /\ b \in Nat
    <3>1. ni.write_count \in Nat /\ ni.cache.write_count = ni.write_count
      BY <1>1, <1>2 DEF TabInv, NewestInv, Instance
    <3>2. ASSUME NEW b \in Tables
          PROVE  TableIn(b).write_count \in Nat /\ b \in Nat
      BY <1>1, TableValue DEF InfoTable
    <3>3. \A b \in Tables : TableIn(b).write_count < ni.write_count \/ TableIn(b) = ni.cache
      BY <1>1 DEF TabInv, NewestInv
    <3>4. \A b \in Tables : Covers(TableIn(b), ni.block_state)
      BY <1>1 DEF TabInv, NewestInv
    <3> QED BY <3>1, <3>2, <3>3, <3>4
  <2>7. ni.dirty = TRUE
    BY <1>4
  <2> HIDE DEF n
  <2>8. ASSUME NEW k \in {"u_main", "u_backup"}, NEW ba, NEW limit, ni' = n, loc' = loc,
               CallWrite(ba, limit, k),
               \A b \in Tables : b \in Kept(k)' \/ (b \in Old(k)' /\ ba <= b),
               k = "u_main" => ba = ni.main_ba /\ ni.backup_ba = 0,
               limit = ni.top_ba
        PROVE  TabInv'
    <3>1. ni'.block_state = ni.block_state /\ NewestInv' /\ CopyInv'
      BY <1>1, <1>2, <1>4, <2>6, <2>8, NewCopy DEF n
    <3>2. w'.ba = ba /\ w'.limit = limit /\ w'.i = 1 /\ w'.k = k /\ pc' = "write"
      BY <2>8 DEF CallWrite
    <3>3. Tables' = Tables /\ oob' = oob
      BY <1>1 DEF Tables
    <3>4. FrontInv'
      BY <2>1, <2>5, <2>8, <3>1, <3>2, <3>3 DEF FrontInv, At, DeadBelow, Dead
    <3>5. HomeInv'
      BY <2>1, <2>5, <2>8, <3>1, <3>2, <3>3 DEF HomeInv, DeadBelow, Dead, RangeUser, Fronts
    <3>6. ReachInv'
      BY <2>1, <2>8, <3>2 DEF ReachInv, At, Writers
    <3>7. UserInv'
      BY <2>8, <3>1, <3>2 DEF TabInv, UserInv, Good
    <3> QED BY <1>1, <1>2, <2>1, <2>8, <3>1, <3>2, <3>4, <3>5, <3>6, <3>7, CallTables
  <2>9. CASE ni.backup_ba = 0
    <3>1. ni' = n /\ CallWrite(ni.main_ba, ni.top_ba, "u_main") /\ loc' = loc
      BY <1>4, <2>1, <2>4, <2>9 DEF nmbm_update_info_table, WriteMain, n
    <3>2. \A b \in Tables : b \in Kept("u_main")' \/ (b \in Old("u_main")' /\ ni.main_ba <= b)
      BY <2>1, <2>5, <2>6, <3>1 DEF Kept, Old
    <3> QED BY <2>8, <2>9, <3>1, <3>2
  <2>10. CASE ni.backup_ba # 0
    <3>1. ni' = n /\ CallWrite(ni.backup_ba, ni.top_ba, "u_backup") /\ loc' = loc
      BY <1>4, <2>1, <2>10 DEF nmbm_update_info_table, n
    <3>2. \A b \in Tables : b \in Kept("u_backup")' \/ (b \in Old("u_backup")' /\ ni.backup_ba <= b)
      BY <2>1, <2>5, <2>6, <3>1 DEF Kept, Old
    <3> QED BY <2>8, <3>1, <3>2
  <2> QED BY <2>9, <2>10
<1> QED BY <1>3, <1>4 DEF nmbm_update_info_table

-----------------------------------------------------------------------------
(* The loops.                                                              *)

\* A loop returns.
LEMMA ReturnTables ==
  ASSUME IndInv, LayInv, TabInv, pc \in {"write", "erase"}, pc' = w.k,
         pc = "write" => WriteReturns, UNCHANGED <<cell, oob, ni, w, loc>>
  PROVE  TabInv'
<1>1. /\ pc \in RangeUser /\ pc \notin Starting /\ ni.sig_ba # 0 /\ w \in Frame
      /\ ~ni.protected /\ pc # "load_failed"
  BY Running, Numbers DEF RangeUser, Starting
<1>2. /\ pc = "write" => w.k \in Writers
      /\ pc = "erase" => w.k \notin Writers
  BY DEF LayInv, WriterInv
<1>3. CASE w.k \in RangeUser
  <2>1. Fades /\ Tables' = Tables /\ \A b : TableIn(b)' = TableIn(b)
    BY SameFades
  <2>2. ChipTables' /\ SightInv' /\ NewestInv'
    BY <1>1, <2>1, ShrinkChip, FadeSight, FadeNewest DEF TabInv, Fades
  <2>3. CopyInv'
    BY <1>1, <2>1 DEF TabInv, CopyInv, Good, Covers
  <2>4. pc' \notin Starting /\ pc' # "load_failed" /\ pc' # "wr_program"
    BY <1>3 DEF RangeUser, Starting
  <2>5. SeekInv'
    BY <2>4 DEF SeekInv, Starting
  <2>6. \A k \in RangeUser : At(k)' => At(k)
    BY <1>3 DEF At, RangeUser
  <2>7. /\ \A k \in {"rs_front", "rm_tmp", "rm_main", "u_main", "u_backup", "us_main"} :
             At(k)' => At(k)
        /\ At("rs_front") => At("rs_front")'
    BY <1>3, <2>6 DEF At, RangeUser
  <2>8. FrontInv'
    BY <1>1, <2>4, <2>7 DEF TabInv, FrontInv, Active, DeadBelow, Dead
  <2>9. pc' # "program" \/ pc' = pc
    BY <1>1 DEF Frame, RangeReturn
  <2>10. HomeInv'
    BY <1>1, <1>3, <2>1, <2>9 DEF TabInv, HomeInv, Kept, Old, DeadBelow, Dead
  <2>11. ReachInv'
    BY <1>2, <2>7 DEF TabInv, ReachInv, WriteReturns, Written
  <2>12. UserInv'
    BY <2>4 DEF TabInv, UserInv, Good
  <2> QED BY <2>2, <2>3, <2>5, <2>8, <2>10, <2>11, <2>12 DEF TabInv
<1>4. CASE w.k \notin RangeUser
  <2>1. w.k \in {"off", "load_ok", "create_map", "update"}
    BY <1>1, <1>4 DEF Frame, RangeReturn, RangeUser
  <2>2. pc' \notin RangeUser /\ pc' \notin Starting \ {"off"} /\ pc' # "wr_program"
    BY <2>1 DEF RangeUser, Starting
  <2>3. w.k \notin Writers /\ ~At("rs_front")
    BY <2>1 DEF Writers, At
  <2>4. \A b \in Tables : b = ni.main_ba \/ b = ni.backup_ba
    BY <1>1, <2>1, <2>3 DEF TabInv, HomeInv, Kept, Old
  <2>5. DeadBelow(ni.block_state, ni.main_ba)
    BY <1>1, <2>3, RunFront
  <2> QED BY <1>1, <2>2, <2>4, <2>5, BackFrom
<1> QED BY <1>3, <1>4


\* A step of a loop that puts no table on the chip.
LEMMA LoopTables ==
  ASSUME IndInv, LayInv, TabInv, pc \in {"write", "program", "erase"},
         pc' \in {"write", "program", "erase"}, Fades, loc' = loc,
         w'.k = w.k, w'.limit = w.limit,
         ni'.sig_ba = ni.sig_ba, ni'.top_ba = ni.top_ba,
         ni'.main_ba = ni.main_ba, ni'.backup_ba = ni.backup_ba,
         ni'.protected = ni.protected, ni'.cache = ni.cache, ni'.write_count = ni.write_count,
         \A b \in Blocks : Good(b) => ni'.block_state[b] = BLOCK_ST_GOOD \/ b \in oob',
         HomeInv'
  PROVE  TabInv'
<1>1. pc \in RangeUser /\ pc \notin Starting /\ ni.sig_ba # 0 /\ pc # "load_failed"
  BY Running DEF RangeUser, Starting
<1>2. ChipTables' /\ SightInv' /\ NewestInv'
  BY <1>1, ShrinkChip, FadeSight, FadeNewest DEF TabInv, Fades
<1>3. Tables' \subseteq Tables /\ \A b \in Tables' : TableIn(b)' = TableIn(b)
  BY ShrinkTables DEF Fades
<1>4. CopyInv'
  <2>1. /\ Covers(ni.cache, ni.block_state)
        /\ \A b \in Blocks : ni.cache.state[b] = BLOCK_ST_GOOD => Good(b) \/ b \in oob
        /\ \A b \in Tables : Covers(TableIn(b), ni.cache.state)
    BY <1>1 DEF TabInv, CopyInv
  <2>2. Covers(ni.cache, ni'.block_state)
    BY <2>1 DEF Covers, Fades, Good
  <2>3. \A b \in Blocks : ni.cache.state[b] = BLOCK_ST_GOOD =>
          ni'.block_state[b] = BLOCK_ST_GOOD \/ b \in oob'
    BY <2>1 DEF Fades, Shrinks
  <2> QED BY <1>3, <2>1, <2>2, <2>3 DEF CopyInv, Covers, Good
<1>5. SeekInv'
  BY DEF SeekInv
<1>6. \A k \in {"rs_front", "rm_tmp", "rm_main", "u_main", "u_backup", "us_main"} :
        At(k)' <=> At(k)
  BY DEF At
<1>7. FrontInv'
  <2>1. Active' => Active
    BY <1>1 DEF Active
  <2>2. ASSUME NEW a, DeadBelow(ni.block_state, a)
        PROVE  \A b \in Blocks : MgmtStart <= b /\ b < a =>
                 ni'.block_state[b] # BLOCK_ST_GOOD \/ b \in oob'
    BY <2>2 DEF DeadBelow, Dead, Fades, Shrinks, Good
  <2>3. Active /\ ~At("rs_front") => DeadBelow(ni.block_state, ni.main_ba)
    BY DEF TabInv, FrontInv
  <2>4. At("rm_tmp") \/ At("rm_main") => DeadBelow(ni.block_state, ni.backup_ba)
    BY DEF TabInv, FrontInv
  <2> QED BY <1>6, <2>1, <2>2, <2>3, <2>4 DEF FrontInv, DeadBelow, Dead
<1>8. ReachInv'
  BY <1>6 DEF TabInv, ReachInv, Writers
<1>9. UserInv'
  <2>1. \A b \in Blocks : ~Good(b) => ni'.block_state[b] # BLOCK_ST_GOOD
    BY DEF Fades
  <2>2. loc.pb \in Blocks
    BY DEF IndInv, TypeOK, Locals
  <2> QED BY <2>1, <2>2 DEF TabInv, UserInv, Good
<1> QED BY <1>2, <1>4, <1>5, <1>7, <1>8, <1>9 DEF TabInv

\* A block is passed: it is bad or marked now, or no table is lost by passing it.
LEMMA PassTables ==
  ASSUME IndInv, LayInv, TabInv, pc \in {"write", "program", "erase"},
         pc' \in {"write", "erase"}, NextBlock, loc' = loc, w.ba < w.limit, Shrinks,
         ni' = ni \/ (ni' = nmbm_set_block_state(ni, {w.ba}, BLOCK_ST_BAD) /\ w.ba \in oob'),
         pc = "erase" \/ ~Good(w.ba) \/ w.ba \in oob'
  PROVE  TabInv'
<1>1. pc \in RangeUser /\ ni \in Instance /\ w \in Frame /\ w.ba \in Blocks
  BY InLoop DEF RangeUser
<1>2. /\ w'.k = w.k /\ w'.limit = w.limit /\ w'.i = w.i /\ w'.start = w.start
      /\ w'.ba = w.ba + 1
  BY <1>1 DEF NextBlock, Frame
<1>3. /\ ni'.sig_ba = ni.sig_ba /\ ni'.top_ba = ni.top_ba
      /\ ni'.main_ba = ni.main_ba /\ ni'.backup_ba = ni.backup_ba
      /\ ni'.protected = ni.protected /\ ni'.cache = ni.cache /\ ni'.write_count = ni.write_count
  BY <1>1, SetStateRest DEF BlockState
<1>4. /\ Fades
      /\ \A b \in Blocks : Good(b) => ni'.block_state[b] = BLOCK_ST_GOOD \/ b \in oob'
  <2>1. CASE ni' = ni
    BY <2>1 DEF Fades, Good
  <2>2. CASE ni' = nmbm_set_block_state(ni, {w.ba}, BLOCK_ST_BAD) /\ w.ba \in oob'
    <3>1. Fades
      BY <1>1, <2>2, SetFades
    <3>2. \A b \in Blocks : b # w.ba => ni'.block_state[b] = ni.block_state[b]
      BY <1>1, <2>2 DEF nmbm_set_block_state, Instance
    <3> QED BY <2>2, <3>1, <3>2 DEF Good
  <2> QED BY <2>1, <2>2
<1>5. Tables' \subseteq Tables /\ \A b \in Tables' : b \in Nat /\ b \in Blocks
  <2>1. \A b \in Tables' : b \in Blocks
    BY DEF Tables
  <2> QED BY <2>1, ShrinkTables, GeometryAssumption DEF Blocks
<1>6. HomeInv'
  <2>1. \A b \in Tables : \/ b \in Kept(w.k)
                          \/ w.i = 1 /\ b \in Old(w.k) /\ w.ba <= b
                          \/ w.i # 1 /\ w.k \in Writers /\ b = w.start
    BY <1>1 DEF TabInv, HomeInv
  <2>2. Kept(w.k)' = Kept(w.k) /\ Old(w.k)' = Old(w.k)
    BY <1>2, <1>3 DEF Kept, Old
  <2>3. CASE pc = "erase"
    <3>1. w.k \notin Writers
      BY <2>3 DEF LayInv, WriterInv
    <3>2. w.k \notin Fronts /\ Old(w.k) = {}
      BY <3>1 DEF Old, Fronts, Writers
    <3> QED BY <1>2, <1>5, <2>1, <2>2, <3>1, <3>2 DEF HomeInv, RangeUser
  <2>4. CASE pc # "erase"
    <3>1. ~Good(w.ba) \/ w.ba \in oob'
      BY <2>4
    <3>2. w.ba \notin Tables'
      <4>1. \A b \in Tables : Good(b)
        BY DEF TabInv, SightInv
      <4> QED BY <1>5, <3>1, <4>1 DEF Tables
    <3>3. \A b \in Tables' : w.ba <= b => w'.ba <= b
      BY <1>2, <1>5, <3>2, Numbers
    <3>4. w.k \in Fronts => DeadBelow(ni.block_state, IF w.i = 1 THEN w.ba ELSE w.start)
      BY <1>1 DEF TabInv, HomeInv
    <3>5. \A b \in Blocks : b < w.ba + 1 => b < w.ba \/ b = w.ba
      BY Numbers, GeometryAssumption DEF Blocks
    <3>6. \A b \in Blocks : Dead(ni.block_state, b) =>
            ni'.block_state[b] # BLOCK_ST_GOOD \/ b \in oob'
      BY <1>4 DEF Dead, Fades, Shrinks, Good
    <3>7. ni'.block_state[w.ba] # BLOCK_ST_GOOD \/ w.ba \in oob'
      BY <1>1, <1>4, <3>1 DEF Fades
    <3>8. w.k \in Fronts => DeadBelow(ni.block_state, IF w.i = 1 THEN w.ba ELSE w.start)'
      <4>1. CASE w.i = 1
        BY <1>2, <3>4, <3>5, <3>6, <3>7, <4>1 DEF DeadBelow, Dead
      <4>2. CASE w.i # 1
        BY <1>2, <3>4, <3>6, <4>2 DEF DeadBelow, Dead
      <4> QED BY <4>1, <4>2
    <3>9. \A b \in Tables' : \/ b \in Kept(w.k)
                             \/ w.i = 1 /\ b \in Old(w.k) /\ w'.ba <= b
                             \/ w.i # 1 /\ w.k \in Writers /\ b = w.start
      BY <1>5, <2>1, <3>3
    <3> QED BY <1>2, <2>2, <3>8, <3>9 DEF HomeInv, RangeUser
  <2> QED BY <2>3, <2>4
<1> QED BY <1>1, <1>2, <1>3, <1>4, <1>6, LoopTables

LEMMA FailTables ==
  ASSUME ~MarkMayFail, IndInv, LayInv, TabInv, pc \in {"write", "program", "erase"},
         pc' \in {"write", "erase"}, w.ba < w.limit, SkipBlock \/ EraseFails, loc' = loc
  PROVE  TabInv'
<1>1. TypeOK /\ w.ba \in Blocks /\ NextBlock
  BY InLoop DEF IndInv, SkipBlock, EraseFails
<1>2. CASE SkipBlock
  <2>1. Shrinks
    BY <1>2 DEF SkipBlock, Shrinks
  <2>2. /\ ~Good(w.ba) \/ w.ba \in oob'
        /\ ni' = ni \/ (ni' = nmbm_set_block_state(ni, {w.ba}, BLOCK_ST_BAD) /\ w.ba \in oob')
    BY <1>2 DEF SkipBlock
  <2> QED BY <1>1, <2>1, <2>2, PassTables
<1>3. CASE EraseFails
  <2>1. oob' = oob \cup {w.ba} /\ \A a \in Blocks : cell'[a].k = "table" => cell'[a] = cell[a]
    BY <1>1, <1>3, FailMarks DEF EraseFails
  <2>2. ni' = nmbm_set_block_state(ni, {w.ba}, BLOCK_ST_BAD)
    BY <1>3 DEF EraseFails
  <2> QED BY <1>1, <2>1, <2>2, PassTables DEF Shrinks
<1> QED BY <1>2, <1>3

\* The erase in front of a program destroys at most the table to be replaced.
LEMMA WriteEraseTables ==
  ASSUME ~MarkMayFail, TableBlocks = 1, IndInv, LayInv, TabInv, WriteErase PROVE TabInv'
<1>1. /\ pc = "write" /\ pc \in RangeUser /\ loc' = loc /\ w \in Frame /\ ni \in Instance
      /\ ~Written /\ w.ba < w.limit /\ w.i = 1 /\ TypeOK
  <2>1. pc = "write" /\ loc' = loc /\ ~Written /\ ~(w.ba >= w.limit)
    BY DEF WriteErase, WriteReturns
  <2>2. w \in Frame /\ w.i \in Nat /\ w.i # 0 /\ w.ba \in Nat /\ w.limit \in Int
    BY DEF IndInv, TypeOK, Frame
  <2> QED BY <2>1, <2>2, Numbers DEF Written, RangeUser, IndInv
<1>2. w.ba \in Blocks /\ w.k \in Writers
  BY <1>1, InLoop DEF LayInv, WriterInv
<1>3. CASE (SkipBlock \/ EraseFails) /\ pc' = pc
  BY <1>1, <1>3, FailTables
<1>4. CASE /\ Good(w.ba) /\ w.ba \notin oob /\ cell' = [cell EXCEPT ![w.ba] = Blank]
           /\ pc' = "program" /\ UNCHANGED <<oob, ni, w>>
  <2>1. \A c \in Blocks : cell'[c].k = "table" => cell'[c] = cell[c]
    BY <1>1, <1>2, <1>4, ErasedCell
  <2>2. Fades /\ \A b \in Blocks : Good(b) => ni'.block_state[b] = BLOCK_ST_GOOD
    BY <1>4, <2>1 DEF Fades, Shrinks, Good
  <2>3. Tables' \subseteq Tables /\ w.ba \notin Tables'
    <3>1. cell'[w.ba] = Blank
      BY <1>1, <1>2, <1>4 DEF TypeOK
    <3> QED BY <2>2, <3>1, ShrinkTables DEF Tables, Blank, Fades
  <2>4. \A b \in Tables : b \in Nat
    BY <1>1, TableValue
  <2>5. /\ \A b \in Tables : b \in Kept(w.k) \/ (b \in Old(w.k) /\ w.ba <= b)
        /\ w.k \in Fronts => DeadBelow(ni.block_state, w.ba)
    BY <1>1 DEF TabInv, HomeInv
  <2>6. ~Dead(ni.block_state, w.ba) /\ MgmtStart <= w.ba
    BY <1>1, <1>4, InLoop DEF Dead, Good
  <2>7. ASSUME NEW a, DeadBelow(ni.block_state, a) PROVE ~(w.ba < a)
    BY <1>2, <2>6, <2>7 DEF DeadBelow
  <2>8. ASSUME NEW b \in Tables', b \in Old(w.k), w.ba <= b PROVE FALSE
    <3>1. b \in Nat /\ w.ba < b
      BY <2>3, <2>4, <2>8, Numbers
    <3>2. CASE w.k \in {"u_backup", "us_backup"}
      <4>1. b = ni.backup_ba
        BY <2>8, <3>2 DEF Old
      <4>2. ni.backup_ba <= w.ba
        BY <1>1, <1>2, <3>2 DEF LayInv, WriterInv, TableFrame, Base
      <4> QED BY <3>1, <4>1, <4>2, Numbers
    <3>3. CASE w.k = "rm_main"
      <4>1. b = ni.backup_ba
        BY <2>8, <3>3 DEF Old
      <4>2. DeadBelow(ni.block_state, ni.backup_ba)
        BY <1>1, <3>3 DEF TabInv, FrontInv, At
      <4> QED BY <2>7, <3>1, <4>1, <4>2
    <3>4. CASE w.k \in {"u_main", "us_main"}
      <4>1. b = ni.main_ba
        BY <2>8, <3>4 DEF Old
      <4>2. DeadBelow(ni.block_state, ni.main_ba)
        BY <1>1, <3>4, RunFront DEF At
      <4> QED BY <2>7, <3>1, <4>1, <4>2
    <3> QED BY <2>8, <3>2, <3>3, <3>4 DEF Old
  <2>9. \A b \in Tables' : b \in Kept(w.k)
    BY <2>3, <2>5, <2>8
  <2>10. Kept(w.k)' = Kept(w.k) /\ w' = w /\ ni' = ni /\ oob' = oob
    BY <1>1, <1>4 DEF Kept
  <2>11. HomeInv'
    BY <1>1, <1>4, <2>5, <2>9, <2>10 DEF HomeInv, RangeUser, Good, DeadBelow, Dead
  <2> QED BY <1>1, <1>4, <2>2, <2>11, LoopTables
<1> QED BY <1>3, <1>4 DEF WriteErase, SkipBlock

LEMMA EraseRangeTables ==
  ASSUME ~MarkMayFail, IndInv, LayInv, TabInv, nmbm_erase_range PROVE TabInv'
<1>1. pc = "erase" /\ loc' = loc /\ TypeOK
  BY DEF nmbm_erase_range, IndInv
<1>2. CASE pc' = w.k /\ UNCHANGED <<cell, oob, ni, w>>
  BY <1>1, <1>2, ReturnTables
<1>3. CASE w.ba < w.limit /\ (SkipBlock \/ EraseFails) /\ pc' = pc
  BY <1>1, <1>3, FailTables
<1>4. CASE w.ba < w.limit /\ cell' = [cell EXCEPT ![w.ba] = Blank] /\ NextBlock
           /\ UNCHANGED <<oob, ni>> /\ pc' = pc
  <2>1. w.ba \in Blocks
    BY <1>1, <1>4, InLoop
  <2>2. \A c \in Blocks : cell'[c].k = "table" => cell'[c] = cell[c]
    BY <1>1, <1>4, <2>1, ErasedCell
  <2> QED BY <1>1, <1>4, <2>2, PassTables DEF Shrinks
<1> QED BY <1>2, <1>3, <1>4 DEF nmbm_erase_range, SkipBlock


-----------------------------------------------------------------------------
(* The step that puts a table on the chip.                                 *)

\* In front of both tables no block is usable according to the new one.
LEMMA NewFront ==
  ASSUME IndInv, LayInv, TabInv, pc = "program", w.i = 1, NEW x \in Tables,
         NEW c \in Blocks, MgmtStart <= c, c < w.ba, c < x
  PROVE  Dead(ni.cache.state, c)
<1>1. pc \in RangeUser /\ w.k \in Writers /\ x \in Kept(w.k)
  BY DEF RangeUser, LayInv, WriterInv, TabInv, HomeInv
<1>2. Dead(ni.block_state, c)
  <2>1. CASE w.k \in Fronts
    <3>1. DeadBelow(ni.block_state, w.ba)
      BY <1>1, <2>1 DEF TabInv, HomeInv
    <3> QED BY <3>1 DEF DeadBelow
  <2>2. CASE w.k = "rm_tmp"
    <3>1. DeadBelow(ni.block_state, ni.backup_ba)
      BY <2>2 DEF TabInv, FrontInv, At
    <3>2. x = ni.backup_ba
      BY <1>1, <2>2 DEF Kept
    <3> QED BY <3>1, <3>2 DEF DeadBelow
  <2>3. CASE w.k \in {"rb_backup", "u_backup", "us_backup", "rs_next"}
    <3>1. DeadBelow(ni.block_state, ni.main_ba)
      BY <1>1, <2>3, RunFront DEF At
    <3>2. x = ni.main_ba
      BY <1>1, <2>3 DEF Kept
    <3> QED BY <3>1, <3>2 DEF DeadBelow
  <2> QED BY <1>1, <2>1, <2>2, <2>3 DEF Writers, Fronts
<1>3. ni.cache.state[c] = BLOCK_ST_GOOD => Good(c) \/ c \in oob
  BY <1>1 DEF TabInv, CopyInv
<1> QED BY <1>2, <1>3 DEF Dead, Good

\* A loop that writes leaves at most one table.
LEMMA KeptOne ==
  ASSUME TabInv, LayInv, pc = "program", NEW x \in Tables, NEW y \in Tables PROVE x = y
<1>1. w.k \in Writers /\ x \in Kept(w.k) /\ y \in Kept(w.k)
  BY DEF LayInv, WriterInv, TabInv, HomeInv
<1> QED BY <1>1 DEF Kept, Writers

LEMMA ProgramTables ==
  ASSUME TableBlocks = 1, IndInv, LayInv, TabInv, pc = "program", pc' = "write",
         cell' = [cell EXCEPT ![w.ba] = Chunk(w.i, ni.cache)],
         w' = [w EXCEPT !.start = IF w.i = 1 THEN w.ba ELSE @, !.i = @ + 1, !.ba = @ + 1],
         UNCHANGED <<oob, ni, loc>>
  PROVE  TabInv'
<1>1. /\ pc \in RangeUser /\ pc \notin Starting /\ TypeOK /\ w \in Frame /\ ni \in Instance
      /\ ni.sig_ba # 0 /\ ~ni.protected /\ w.k \in Writers
  BY Running, Numbers DEF RangeUser, Starting, IndInv, LayInv, WriterInv
<1>2. w.ba \in Blocks /\ w.ba < w.limit /\ w.limit < ni.sig_ba /\ MgmtStart <= w.ba /\ w.i = 1
  <2>1. w.ba < w.limit /\ w.i <= TableBlocks
    BY <1>1 DEF IndInv, FrameInv
  <2>2. w.i \in Nat /\ w.i # 0
    BY <1>1 DEF Frame
  <2>3. w.i = 1
    BY <2>1, <2>2
  <2> QED BY <2>1, <2>3, InLoop
<1>3. w'.start = w.ba /\ w'.i = 2 /\ w'.k = w.k /\ w'.limit = w.limit
  BY <1>1, <1>2 DEF Frame
<1>4. Good(w.ba) /\ w.ba \notin oob /\ \A b \in Tables : b \in Kept(w.k)
  BY DEF TabInv, HomeInv
<1> DEFINE T == Tables
<1>5. /\ cell'[w.ba].k = "table" /\ cell'[w.ba].t = ni.cache
      /\ \A b \in Blocks : b # w.ba => cell'[b] = cell[b]
  BY <1>1, <1>2 DEF TypeOK, Chunk
<1>6. PICK n : n = w.ba
  OBVIOUS
<1>7. /\ \A b \in Tables' : b = n \/ b \in T
      /\ n \in Tables'
      /\ \A b \in Tables' : b # n => TableIn(b)' = TableIn(b)
      /\ TableIn(n)' = ni.cache
  BY <1>2, <1>4, <1>5, <1>6 DEF Tables, TableIn
<1>8. /\ ni.cache.write_count = ni.write_count /\ ni.write_count \in Nat
      /\ \A b \in T : TableIn(b).write_count < ni.write_count \/ TableIn(b) = ni.cache
      /\ \A b \in T : Covers(TableIn(b), ni.block_state)
  BY <1>1 DEF TabInv, NewestInv, Instance
<1>9. /\ Covers(ni.cache, ni.block_state)
      /\ \A b \in Blocks : ni.cache.state[b] = BLOCK_ST_GOOD => Good(b) \/ b \in oob
      /\ \A b \in T : Covers(TableIn(b), ni.cache.state)
  BY <1>1 DEF TabInv, CopyInv
<1>10. \A b \in T : /\ TableIn(b).write_count \in Nat /\ Good(b) /\ b + 1 < ni.sig_ba
                    /\ MgmtStart <= b /\ b \in Blocks
  <2>1. ASSUME NEW b \in T PROVE TableIn(b).write_count \in Nat /\ b \in Blocks
    BY <1>1, TableValue DEF InfoTable
  <2>2. \A b \in T : Good(b) /\ b + 1 < ni.sig_ba
    BY <1>1 DEF TabInv, SightInv
  <2>3. \A b \in T : MgmtStart <= b
    BY DEF TabInv, ChipTables
  <2> QED BY <2>1, <2>2, <2>3
<1>11. n \in Blocks /\ MgmtStart <= n /\ n + 1 < ni.sig_ba /\ Good(n)
  <2>1. w.ba + 1 < ni.sig_ba
    BY <1>2, Numbers
  <2> QED BY <1>2, <1>4, <1>6, <2>1
<1>12. \A x \in T : \A c \in Blocks : MgmtStart <= c /\ c < n /\ c < x => Dead(ni.cache.state, c)
  BY <1>2, <1>6, NewFront
<1> HIDE DEF T
<1>13. \A x, y \in T : x = y
  BY KeptOne DEF T
<1>14. ChipTables'
  <2>1. \A b \in Tables' : MgmtStart <= b
    BY <1>7, <1>10, <1>11
  <2>2. \A a, b, c \in Tables' : a = b \/ b = c \/ a = c
    BY <1>7, <1>13
  <2>3. ASSUME NEW a \in Tables', NEW b \in Tables'
        PROVE  /\ TableIn(a)'.write_count = TableIn(b)'.write_count => TableIn(a)' = TableIn(b)'
               /\ TableIn(a)'.state[b] = BLOCK_ST_GOOD
               /\ TableIn(b)'.write_count <= TableIn(a)'.write_count =>
                    /\ Covers(TableIn(b)', TableIn(a)'.state)
                    /\ a # b => \A c \in Blocks : MgmtStart <= c /\ c < a /\ c < b =>
                         Dead(TableIn(a)'.state, c)
    <3>1. CASE a = n /\ b = n
      BY <1>7, <1>9, <1>11, <3>1 DEF Covers, Good
    <3>2. CASE a = n /\ b # n
      <4>1. TableIn(a)' = ni.cache /\ TableIn(b)' = TableIn(b) /\ b \in T
        BY <1>7, <2>3, <3>2
      <4>2. ni.cache.write_count = TableIn(b).write_count => ni.cache = TableIn(b)
        BY <1>8, <1>10, <4>1
      <4>3. ni.cache.state[b] = BLOCK_ST_GOOD
        BY <1>9, <1>10, <4>1 DEF Covers, Good
      <4>4. Covers(TableIn(b), ni.cache.state)
        BY <1>9, <4>1
      <4> QED BY <1>12, <3>2, <4>1, <4>2, <4>3, <4>4
    <3>3. CASE a # n /\ b = n
      <4>1. TableIn(b)' = ni.cache /\ TableIn(a)' = TableIn(a) /\ a \in T
        BY <1>7, <2>3, <3>3
      <4>2. ni.cache.write_count <= TableIn(a).write_count => ni.cache = TableIn(a)
        BY <1>8, <1>10, <4>1
      <4>3. TableIn(a).state[b] = BLOCK_ST_GOOD
        BY <1>8, <1>11, <3>3, <4>1 DEF Covers, Good
      <4>4. ni.cache = TableIn(a) => Covers(ni.cache, TableIn(a).state)
        BY DEF Covers
      <4>5. ni.cache.write_count = TableIn(a).write_count =>
              ni.cache.write_count <= TableIn(a).write_count
        BY <1>10, <4>1
      <4> QED BY <1>12, <3>3, <4>1, <4>2, <4>3, <4>4, <4>5
    <3>4. CASE a # n /\ b # n
      <4>1. TableIn(b)' = TableIn(b) /\ TableIn(a)' = TableIn(a) /\ a \in T /\ b \in T /\ a = b
        BY <1>7, <1>13, <2>3, <3>4
      <4>2. TableIn(a).state[b] = BLOCK_ST_GOOD
        BY <4>1 DEF T, TabInv, ChipTables
      <4> QED BY <4>1, <4>2 DEF Covers
    <3> QED BY <3>1, <3>2, <3>3, <3>4
  <2> QED BY <2>1, <2>2, <2>3 DEF ChipTables, Dead, Covers
<1>15. SightInv'
  BY <1>1, <1>7, <1>10, <1>11 DEF SightInv, Good
<1>16. NewestInv'
  BY <1>7, <1>8, <1>9 DEF NewestInv, Covers
<1>17. CopyInv'
  BY <1>7, <1>9 DEF CopyInv, Covers, Good
<1>18. SeekInv'
  BY DEF SeekInv
<1>19. \A k \in {"rs_front", "rm_tmp", "rm_main", "u_main", "u_backup", "us_main"} :
        At(k)' <=> At(k)
  BY <1>3 DEF At
<1>20. FrontInv'
  <2>1. Active' => Active
    BY <1>1 DEF Active
  <2> QED BY <1>19, <2>1 DEF TabInv, FrontInv, DeadBelow, Dead
<1>21. HomeInv'
  <2>1. Kept(w.k)' = Kept(w.k)
    BY <1>3 DEF Kept
  <2>2. \A b \in Tables' : b \in Kept(w.k) \/ b = w'.start
    BY <1>3, <1>4, <1>6, <1>7 DEF T
  <2>3. w.k \in Fronts => DeadBelow(ni.block_state, w.ba)
    BY <1>1, <1>2 DEF TabInv, HomeInv
  <2> QED BY <1>1, <1>3, <2>1, <2>2, <2>3 DEF HomeInv, RangeUser, DeadBelow, Dead
<1>22. ReachInv'
  BY <1>3, <1>19 DEF TabInv, ReachInv, Writers
<1>23. UserInv'
  BY DEF TabInv, UserInv, Good
<1> QED BY <1>14, <1>15, <1>16, <1>17, <1>18, <1>20, <1>21, <1>22, <1>23 DEF TabInv

LEMMA WriteProgramTables ==
  ASSUME ~MarkMayFail, TableBlocks = 1, IndInv, LayInv, TabInv, WriteProgram PROVE TabInv'
<1>1. pc = "program" /\ pc' = "write" /\ loc' = loc
  BY DEF WriteProgram
<1>2. CASE EraseFails
  <2>1. w.ba < w.limit
    BY <1>1 DEF IndInv, FrameInv, RangeUser
  <2> QED BY <1>1, <1>2, <2>1, FailTables
<1>3. CASE ~EraseFails
  BY <1>1, <1>3, ProgramTables DEF WriteProgram
<1> QED BY <1>2, <1>3

LEMMA WriteReturnTables ==
  ASSUME IndInv, LayInv, TabInv, WriteReturn PROVE TabInv'
BY ReturnTables DEF WriteReturn


\* A step that changes nothing the tables depend on.
LEMMA StutterTables ==
  ASSUME TabInv, UNCHANGED <<cell, oob, ni, pc, w, loc>> PROVE TabInv'
<1>1. Tables' = Tables /\ Found' = Found /\ \A k : At(k)' <=> At(k)
  BY DEF Tables, Found, At
<1>2. ChipTables' /\ SightInv' /\ NewestInv' /\ CopyInv'
  BY <1>1 DEF TabInv, ChipTables, SightInv, NewestInv, CopyInv, TableIn, Covers, Dead, Good
<1>3. SeekInv'
  BY <1>1 DEF TabInv, SeekInv, Current, TableIn, Covers
<1>4. FrontInv' /\ HomeInv'
  BY <1>1 DEF TabInv, FrontInv, HomeInv, Active, DeadBelow, Dead, Good, Kept, Old
<1>5. ReachInv' /\ UserInv'
  BY <1>1 DEF TabInv, ReachInv, UserInv, WriteReturns, Written, Good
<1> QED BY <1>2, <1>3, <1>4, <1>5 DEF TabInv

-----------------------------------------------------------------------------
(* Attaching.                                                              *)

\* A point before the instance has its tables.
LEMMA StartTables ==
  ASSUME pc' \in {"sig_erase", "sig_program", "create", "search1", "search2", "loaded"},
         ChipTables', SightInv', SeekInv', loc'.mk # "er_mapped"
  PROVE  TabInv'
<1>1. NewestInv' /\ CopyInv'
  BY DEF NewestInv, CopyInv, Starting, RangeUser
<1>2. FrontInv' /\ HomeInv'
  BY DEF FrontInv, HomeInv, Active, At, Starting, RangeUser
<1>3. ReachInv' /\ UserInv'
  BY DEF ReachInv, UserInv, At, Writers
<1> QED BY <1>1, <1>2, <1>3 DEF TabInv

\* ... where there is no table.
LEMMA EmptyTables ==
  ASSUME pc' \in {"sig_erase", "sig_program", "create"}, Tables' = {}, loc'.mk # "er_mapped"
  PROVE  TabInv'
<1>1. ChipTables' /\ SightInv' /\ SeekInv'
  BY DEF ChipTables, SightInv, SeekInv
<1> QED BY <1>1, StartTables

\* nmbm_attach: the search begins below all tables and below the highest
\* signature.
LEMMA AttachTables ==
  ASSUME IndInv, LayInv, TabInv, nmbm_attach PROVE TabInv'
<1>0. pc = "off" /\ UNCHANGED <<cell, oob, w>>
  BY DEF nmbm_attach, chip
<1>1. PICK create, n :
        /\ create \in CreateFlags
        /\ n = [nmbm_init_structure EXCEPT !.create = create]
        /\ \/ /\ Found # {}
              /\ ni' = [n EXCEPT !.sig_ba = Max(Found), !.data_count = MgmtStart,
                                 !.top_ba = Max(Found) - 1]
              /\ loc' = [L0 EXCEPT !.ba = MgmtStart] /\ pc' = "search1"
           \/ /\ Found = {}
              /\ loc' = [L0 EXCEPT !.ba = BlockCount - 1] /\ pc' = "sig_erase"
           \/ UNCHANGED <<ni, loc, pc>>
  BY DEF nmbm_attach, Found
<1>2. ASSUME NEW b \in Tables PROVE \E s \in Found : b + 1 < s
  <2>1. CASE ni.sig_ba = 0
    BY <1>2, <2>1 DEF TabInv, SightInv
  <2>2. CASE ni.sig_ba # 0
    BY <1>2, <2>2 DEF TabInv, SightInv, LayInv, ChipInv
  <2> QED BY <2>1, <2>2
<1>3. Tables' = Tables /\ ChipTables'
  <2>1. Shrinks
    BY <1>0 DEF Shrinks
  <2> QED BY <1>0, <2>1, ShrinkChip DEF TabInv, Tables
<1>4. CASE /\ Found # {}
           /\ ni' = [n EXCEPT !.sig_ba = Max(Found), !.data_count = MgmtStart,
                              !.top_ba = Max(Found) - 1]
           /\ loc' = [L0 EXCEPT !.ba = MgmtStart] /\ pc' = "search1"
  <2>1. Found \in SUBSET (0 .. BlockCount - 1) /\ BlockCount - 1 \in Nat
    BY GeometryAssumption DEF Found, nmbm_find_signature
  <2>2. PICK sig \in Found : sig = Max(Found) /\ \A s \in Found : s <= sig
    BY <1>4, <2>1, MaxNat
  <2>3. ni'.sig_ba = sig /\ ni'.block_state = AllGood
    BY <1>1, <1>4, <2>2 DEF nmbm_init_structure
  <2>4. sig \in Nat /\ sig # 0
    <3>1. sig \in Blocks /\ cell[sig] = Signature
      BY <2>1, <2>2 DEF Found, nmbm_find_signature, Blocks
    <3>2. MgmtStart < sig
      BY <3>1 DEF IndInv, SigInv
    <3> QED BY <2>1, <2>2, <3>2, GeometryAssumption
  <2>5. ASSUME NEW b \in Tables PROVE b + 1 < sig /\ MgmtStart <= b /\ b \in Blocks
    <3>1. PICK s \in Found : b + 1 < s
      BY <1>2
    <3>2. s \in Nat /\ s <= sig /\ b \in Nat /\ b \in Blocks
      BY <2>1, <2>2, TableValue DEF IndInv
    <3> QED BY <2>4, <3>1, <3>2 DEF TabInv, ChipTables
  <2>6. SightInv'
    BY <1>3, <2>3, <2>4, <2>5 DEF SightInv, Good, AllGood
  <2>7. loc'.ba = MgmtStart /\ loc'.mk = "off"
    BY <1>4 DEF L0
  <2>8. SeekInv'
    BY <1>3, <1>4, <2>5, <2>7 DEF SeekInv
  <2> QED BY <1>3, <1>4, <2>6, <2>7, <2>8, StartTables
<1>5. CASE /\ Found = {}
           /\ loc' = [L0 EXCEPT !.ba = BlockCount - 1] /\ pc' = "sig_erase"
  <2>1. Tables' = {}
    BY <1>2, <1>3, <1>5
  <2>2. loc'.mk = "off"
    BY <1>5 DEF L0
  <2> QED BY <1>5, <2>1, <2>2, EmptyTables
<1>6. CASE UNCHANGED <<ni, loc, pc>>
  BY <1>0, <1>6, StutterTables
<1> QED BY <1>1, <1>4, <1>5, <1>6

\* nmbm_write_signature: there is no table on the chip.
LEMMA SignatureTables ==
  ASSUME ~MarkMayFail, IndInv, LayInv, TabInv, nmbm_write_signature \/ SignatureProgram
  PROVE  TabInv'
<1>1. pc \in {"sig_erase", "sig_program"}
  BY DEF nmbm_write_signature, SignatureProgram
<1>2. /\ TypeOK /\ ni \in Instance /\ loc \in Locals /\ loc.ba \in Nat /\ loc.ba < BlockCount
      /\ ni.sig_ba = 0 /\ loc.mk # "er_mapped" /\ cell \in [Blocks -> Content]
  BY <1>1, AtSignature, Numbers DEF TypeOK, IndInv, ReturnInv
<1>3. loc.ba \in Blocks
  BY <1>2, GeometryAssumption DEF Blocks
<1>4. Tables = {}
  BY <1>1 DEF TabInv, SeekInv
<1>5. Shrinks
  <2>1. CASE UNCHANGED <<cell, oob>>
    BY <2>1 DEF Shrinks
  <2>2. CASE oob' = oob /\ \E c \in {Blank, Signature} : cell' = [cell EXCEPT ![loc.ba] = c]
    BY <1>2, <2>2 DEF Shrinks, Blank, Signature
  <2>3. ASSUME NEW junk, FailBlock(loc.ba, junk) PROVE Shrinks
    BY <1>2, <1>3, <2>3, FailMarks DEF Shrinks
  <2> QED BY <2>1, <2>2, <2>3 DEF nmbm_write_signature, SignatureProgram, SignatureFails, chip
<1>6. Tables' = {}
  BY <1>4, <1>5, ShrinkTables
<1>7. CASE PowerOff
  BY <1>2, <1>4, <1>5, <1>7, OffTables
<1>8. CASE ~PowerOff
  <2>1. loc' = loc \/ NextSignatureBlock
    BY <1>8 DEF nmbm_write_signature, SignatureProgram, SignatureFails
  <2>2. loc'.mk # "er_mapped"
    BY <1>2, <2>1 DEF NextSignatureBlock, Locals
  <2>3. pc' \in {"sig_erase", "sig_program", "create"}
    BY <1>1, <1>8 DEF nmbm_write_signature, SignatureProgram
  <2> QED BY <1>6, <2>2, <2>3, EmptyTables
<1> QED BY <1>7, <1>8

\* The power is cut.
LEMMA PowerFailsTables ==
  ASSUME IndInv, LayInv, TabInv, PowerFails PROVE TabInv'
<1>1. PowerOff /\ oob' = oob /\ pc # "off" /\ PowerFails
  BY DEF PowerFails
<1>2. cell \in [Blocks -> Content]
  BY DEF IndInv, TypeOK
<1>3. Shrinks
  BY <1>1, <1>2 DEF PowerFails, Shrinks, Torn, Signature
<1>4. ni.sig_ba = 0 => Tables = {}
  BY <1>1 DEF IndInv, SigInv, TabInv, SeekInv
<1>5. ni.sig_ba # 0 => ni.sig_ba \in Found'
  <2> SUFFICES ASSUME ni.sig_ba # 0 PROVE ni.sig_ba \in Found'
    OBVIOUS
  <2>1. ni.sig_ba \in Found
    BY DEF LayInv, ChipInv
  <2>2. cell'[ni.sig_ba] = cell[ni.sig_ba]
    BY <1>1, SignatureStepSafe DEF Next
  <2> QED BY <1>1, <2>1, <2>2 DEF Found, nmbm_find_signature
<1> QED BY <1>1, <1>3, <1>4, <1>5, OffTables


\* nmbm_create_info_table: the first tables of a chip.
LEMMA CreateInfoTables ==
  ASSUME IndInv, LayInv, TabInv, nmbm_create_info_table PROVE TabInv'
<1>0. pc = "create" /\ UNCHANGED <<cell, oob>>
  BY DEF nmbm_create_info_table, chip
<1>1. /\ TypeOK /\ ni \in Instance /\ loc \in Locals /\ ni.sig_ba # 0 /\ ni.sig_ba \in Int
      /\ loc.mk # "er_mapped"
  BY <1>0, Numbers DEF IndInv, SigInv, ReturnInv
<1>2. Tables = {} /\ Tables' = {}
  BY <1>0 DEF TabInv, SeekInv, Tables
<1>3. CASE PowerOff
  BY <1>0, <1>1, <1>3, QuietOff
<1>4. ASSUME NEW t \in nmbm_block_walk_desc(ni.block_state, ni.sig_ba, 1, MgmtStart),
             Rebuild(nmbm_generate_info_table_cache([ni EXCEPT !.top_ba = t])),
             loc' = [loc EXCEPT !.rk = "create_map"]
      PROVE  TabInv'
  <2>1. t \in MgmtStart + 1 .. ni.sig_ba - 1
    BY <1>1, WalkBelow, GeometryAssumption
  <2>2. t \in Int
    BY <2>1
  <2>3. PICK n : n = [ni EXCEPT !.top_ba = t]
    OBVIOUS
  <2>4. n \in Instance /\ n.block_state = ni.block_state
    BY <1>1, <2>2, <2>3 DEF Instance
  <2>5. PICK m : m = nmbm_generate_info_table_cache(n)
    OBVIOUS
  <2>6. m \in Instance
    BY <2>4, <2>5, GenerateCache
  <2>7. /\ ni' = [m EXCEPT !.main_ba = 0, !.backup_ba = 0, !.map_ba = m.top_ba]
        /\ CallWrite(MgmtStart, m.top_ba, "rb_main")
    BY <1>4, <2>3, <2>5 DEF Rebuild
  <2>8. /\ ni'.block_state = m.block_state /\ ni'.cache = m.cache
        /\ ni'.write_count = m.write_count /\ ni'.main_ba = 0
    BY <2>6, <2>7 DEF Instance
  <2>9. NewestInv' /\ CopyInv'
    BY <1>0, <1>1, <1>2, <2>4, <2>5, <2>8, NewCopy
  <2>10. pc' = "write" /\ w'.k = "rb_main" /\ w'.ba = MgmtStart /\ w'.i = 1
    BY <2>7 DEF CallWrite
  <2>11. ChipTables' /\ SightInv' /\ SeekInv'
    BY <1>2, <2>10 DEF ChipTables, SightInv, SeekInv
  <2>12. FrontInv'
    <3>1. \A c \in Blocks : ~(MgmtStart <= c /\ c < 0)
      BY GeometryAssumption DEF Blocks
    <3> QED BY <2>8, <2>10, <3>1 DEF FrontInv, At, DeadBelow
  <2>13. HomeInv'
    <3>1. \A c \in Blocks : ~(MgmtStart <= c /\ c < MgmtStart)
      BY GeometryAssumption DEF Blocks
    <3> QED BY <1>2, <2>10, <3>1 DEF HomeInv, RangeUser, DeadBelow
  <2>14. ReachInv'
    BY <2>10 DEF ReachInv, At, Writers
  <2>15. UserInv'
    <3>1. loc'.mk = loc.mk
      BY <1>1, <1>4 DEF Locals
    <3> QED BY <1>1, <2>10, <3>1 DEF UserInv
  <2> QED BY <2>9, <2>11, <2>12, <2>13, <2>14, <2>15 DEF TabInv
<1> QED BY <1>3, <1>4 DEF nmbm_create_info_table

\* nmbm_try_load_info_table succeeds exactly where there is a table.
LEMMA TryLoadTable ==
  ASSUME TableBlocks = 1, IndInv, LayInv, TabInv, pc \in {"search1", "search2"}, SearchMore
  PROVE  TryLoad(loc.ba) <=> loc.ba \in Tables
<1>1. /\ loc.ba \in Nat /\ MgmtStart <= loc.ba /\ loc.ba < ni.sig_ba - 1
      /\ ni.sig_ba \in Nat /\ ni.sig_ba < BlockCount
  BY Searching DEF SearchMore
<1>2. loc.ba \in Blocks /\ TableRange(loc.ba) = {loc.ba}
  BY <1>1, GeometryAssumption DEF Blocks, TableRange
<1>3. ASSUME TryLoad(loc.ba) PROVE loc.ba \in Tables
  BY <1>2, <1>3 DEF TryLoad, IsHeader, Tables
<1>4. ASSUME loc.ba \in Tables PROVE TryLoad(loc.ba)
  <2>1. /\ cell[loc.ba].k = "table" /\ loc.ba \notin oob /\ cell[loc.ba].i \in 1 .. 1
        /\ TableIn(loc.ba) \in InfoTable
        /\ cell[loc.ba] = Chunk(cell[loc.ba].i, TableIn(loc.ba))
    BY <1>4, TableValue DEF IndInv
  <2>2. cell[loc.ba].i = 1 /\ cell[loc.ba] = Chunk(1, cell[loc.ba].t)
    BY <2>1 DEF TableIn
  <2>3. IsHeader(cell[loc.ba]) /\ TableAt(cell, loc.ba, cell[loc.ba].t)
    <3>1. \A i \in 1 .. 1 : i = 1 /\ loc.ba + i - 1 = loc.ba
      BY <1>1
    <3> QED BY <2>1, <2>2, <3>1 DEF IsHeader, TableAt
  <2>4. Good(loc.ba) /\ TableIn(loc.ba).state[loc.ba] = BLOCK_ST_GOOD
    BY <1>4 DEF TabInv, SightInv, ChipTables
  <2>5. /\ cell[loc.ba].t.map \in Mapping
        /\ Above(cell[loc.ba].t.map, loc.ba + 1) /\ Below(cell[loc.ba].t.map, ni.sig_ba)
    BY <1>2, <2>1, TableOnChip
  <2>6. \A lb \in LBlocks : /\ cell[loc.ba].t.map[lb] \notin MgmtStart .. loc.ba + 1 - 1
                            /\ cell[loc.ba].t.map[lb] # ni.sig_ba
    <3>1. \A lb \in LBlocks : cell[loc.ba].t.map[lb] \in Int
      BY <2>5, MapNumbers
    <3> QED BY <1>1, <2>5, <3>1, GeometryAssumption DEF Above, Below
  <2>7. \A b \in loc.ba .. loc.ba + 1 - 1 : b = loc.ba
    BY <1>1
  <2>8. nmbm_check_info_table(cell[loc.ba].t, loc.ba, ni.sig_ba)
    BY <2>4, <2>6, <2>7 DEF nmbm_check_info_table, TableIn
  <2> QED BY <1>2, <2>1, <2>3, <2>4, <2>8 DEF TryLoad
<1> QED BY <1>3, <1>4

\* A block without a table: the search marks at most that block bad in memory.
LEMMA SearchGoesOn ==
  ASSUME TableBlocks = 1, IndInv, LayInv, TabInv, pc \in {"search1", "search2"}, SearchMore,
         TryLoadFails, UNCHANGED <<cell, oob>>
  PROVE  TabInv'
<1>1. /\ loc.ba \in Nat /\ MgmtStart <= loc.ba /\ ni.sig_ba # 0
      /\ ni \in Instance /\ loc \in Locals /\ loc.mk # "er_mapped"
  BY Searching
<1>2. loc.ba \notin Tables
  BY TryLoadTable DEF TryLoadFails
<1>3. PICK S : ni' = nmbm_set_block_state(ni, S, BLOCK_ST_BAD) /\ S \subseteq {loc.ba}
  <2>1. PICK ecc : ni' = nmbm_set_block_state(ni, TryLoadMarks(loc.ba, ecc), BLOCK_ST_BAD)
    BY DEF TryLoadFails
  <2>2. TryLoadMarks(loc.ba, ecc) \subseteq TableRange(loc.ba)
    BY DEF TryLoadMarks
  <2>3. TableRange(loc.ba) = {loc.ba}
    BY <1>1 DEF TableRange
  <2> QED BY <2>1, <2>2, <2>3
<1>4. /\ loc'.ba = loc.ba + 1 /\ loc'.mk = loc.mk
      /\ loc'.main_wc = loc.main_wc /\ loc'.backup_wc = loc.backup_wc /\ pc' = pc
  BY <1>1 DEF TryLoadFails, Locals
<1>5. /\ ni'.sig_ba = ni.sig_ba /\ ni'.main_ba = ni.main_ba /\ ni'.backup_ba = ni.backup_ba
      /\ ni'.write_count = ni.write_count
  BY <1>1, <1>3, SetStateRest DEF BlockState
<1>6. /\ \A b \in Blocks : ni'.block_state[b] = IF b \in S THEN BLOCK_ST_BAD ELSE ni.block_state[b]
      /\ ni'.dirty = (ni.dirty \/ \E b \in S : ni.block_state[b] # BLOCK_ST_BAD)
      /\ ni'.block_state = [b \in Blocks |-> IF b \in S THEN BLOCK_ST_BAD ELSE ni.block_state[b]]
  BY <1>1, <1>3 DEF nmbm_set_block_state, Instance
<1>7. Tables' = Tables /\ \A b : TableIn(b)' = TableIn(b)
  BY DEF Tables, TableIn
<1>8. ChipTables'
  BY ShrinkChip DEF TabInv, Shrinks
<1>9. SightInv'
  <2>1. \A b \in Tables : b \in Blocks /\ b \notin S
    BY <1>2, <1>3 DEF Tables
  <2> QED BY <1>1, <1>5, <1>6, <1>7, <2>1 DEF TabInv, SightInv, Good
<1>10. \A b \in Tables : loc.ba <= b => loc.ba + 1 <= b
  <2>1. \A b \in Tables : b \in Nat /\ b # loc.ba
    BY <1>2, TableValue DEF IndInv
  <2> QED BY <1>1, <2>1
<1>11. pc = "search2" =>
         /\ Covers(Current, ni.block_state) /\ ni.write_count = Current.write_count
         /\ ~ni.dirty => ni.block_state = Current.state
  BY DEF TabInv, SeekInv
<1>12. Current' = Current
  BY <1>4, <1>5, <1>7 DEF Current
<1>13. Covers(Current, ni.block_state) => Covers(Current, ni'.block_state)
  BY <1>6 DEF Covers, BLOCK_ST_BAD, BLOCK_ST_GOOD
<1>14. ~ni'.dirty => ~ni.dirty /\ ni'.block_state = ni.block_state
  <2>1. ni.block_state = [b \in Blocks |-> ni.block_state[b]]
    BY <1>1 DEF Instance
  <2> QED BY <1>6, <2>1
<1>15. SeekInv'
  <2>1. pc = "search2" =>
          /\ Covers(Current, ni'.block_state) /\ ni'.write_count = Current.write_count
          /\ ~ni'.dirty => ni'.block_state = Current.state
    BY <1>5, <1>11, <1>13, <1>14
  <2>2. Covers(Current, ni'.block_state) => Covers(Current, ni.block_state)'
    BY <1>12 DEF Covers
  <2>3. /\ pc = "search1" => \A b \in Tables : loc.ba <= b
        /\ pc = "search2" => \A b \in Tables : b = ni.main_ba \/ loc.ba <= b
    BY DEF TabInv, SeekInv
  <2> QED BY <1>4, <1>5, <1>7, <1>10, <1>12, <2>1, <2>2, <2>3 DEF SeekInv
<1> QED BY <1>1, <1>4, <1>8, <1>9, <1>15, StartTables


\* What an attach could load is a table.
LEMMA LoadableInTables ==
  ASSUME TableBlocks = 1, NEW b \in LoadableAt(cell, oob) PROVE b \in Tables
<1>1. /\ b \in MgmtStart .. BlockCount - 1 /\ IsHeader(cell[b])
      /\ TableRange(b) \cap oob = {}
  BY DEF LoadableAt
<1>2. b \in Blocks /\ b \in TableRange(b)
  BY <1>1, GeometryAssumption DEF Blocks, TableRange
<1> QED BY <1>1, <1>2 DEF Tables, IsHeader

\* The search for the first table.
LEMMA SearchFirstTables ==
  ASSUME TableBlocks = 1, IndInv, LayInv, TabInv, SearchFirst PROVE TabInv'
<1>0. pc = "search1" /\ UNCHANGED <<cell, oob>>
  BY DEF SearchFirst, chip
<1>1. /\ ni \in Instance /\ loc \in Locals /\ ni.sig_ba # 0 /\ ni.sig_ba \in Nat
      /\ loc.ba \in Nat /\ loc.mk # "er_mapped" /\ ni.backup_ba = 0
  BY <1>0, Searching DEF IndInv, SearchInv
<1>2. Tables' = Tables /\ (\A b : TableIn(b)' = TableIn(b)) /\ ChipTables'
  BY <1>0, ShrinkChip DEF Tables, TableIn, TabInv, Shrinks
<1>3. \A b \in Tables : b \in Nat /\ loc.ba <= b /\ b + 1 < ni.sig_ba
  BY <1>0, <1>1, TableValue DEF IndInv, TabInv, SeekInv, SightInv
<1>4. CASE SearchMore /\ TryLoad(loc.ba) /\ pc' = "search2"
  <2>1. PICK t : t = cell[loc.ba].t
    OBVIOUS
  <2>2. PICK top : top = MappingTop(t, loc.ba, ni.sig_ba)
    OBVIOUS
  <2>3. /\ ni' = Adopt([ni EXCEPT !.main_ba = loc.ba], t)
        /\ loc' = [loc EXCEPT !.ba = loc.ba + TableBlocks, !.end = loc.ba + TableBlocks,
                              !.main_wc = t.write_count, !.main_top = top]
    BY <1>0, <1>4, <2>1, <2>2 DEF SearchFirst, TryLoadFails, PowerOff
  <2>4. loc'.ba = loc.ba + 1 /\ loc'.mk = loc.mk
    BY <1>1, <2>3 DEF Locals
  <2>5. /\ ni'.sig_ba = ni.sig_ba /\ ni'.main_ba = loc.ba /\ ni'.backup_ba = 0
        /\ ni'.block_state = t.state /\ ni'.write_count = t.write_count
    BY <1>1, <2>3 DEF Adopt, Instance
  <2>6. loc.ba \in Tables /\ t = TableIn(loc.ba)
    BY <1>0, <1>4, <2>1, TryLoadTable DEF TableIn
  <2>7. \A b \in Tables : t.state[b] = BLOCK_ST_GOOD
    BY <2>6 DEF TabInv, ChipTables
  <2>8. SightInv'
    BY <1>1, <1>2, <1>3, <2>5, <2>7 DEF SightInv, Good
  <2>9. Current' = t
    BY <1>2, <2>5, <2>6 DEF Current
  <2>10. \A b \in Tables : b = loc.ba \/ loc.ba + 1 <= b
    BY <1>1, <1>3
  <2>11. SeekInv'
    BY <1>2, <1>4, <2>4, <2>5, <2>9, <2>10 DEF SeekInv, Covers
  <2> QED BY <1>1, <1>2, <1>4, <2>4, <2>8, <2>11, StartTables
<1>5. CASE SearchMore /\ TryLoadFails
  BY <1>0, <1>5, SearchGoesOn
<1>6. CASE ~SearchMore
  <2>1. \A b \in Tables : FALSE
    BY <1>1, <1>3, <1>6 DEF SearchMore
  <2>2. CASE PowerOff
    BY <1>0, <1>1, <2>2, QuietOff
  <2>3. CASE pc' = "create" /\ loc' = loc
    BY <1>1, <1>2, <2>1, <2>3, EmptyTables
  <2> QED BY <1>6, <2>2, <2>3 DEF SearchFirst
<1> QED BY <1>4, <1>5, <1>6 DEF SearchFirst

\* The search for the second table.
LEMMA SearchSecondTables ==
  ASSUME TableBlocks = 1, IndInv, LayInv, TabInv, SearchSecond PROVE TabInv'
<1>0. pc = "search2" /\ UNCHANGED <<cell, oob>>
  BY DEF SearchSecond, chip
<1>1. /\ ni \in Instance /\ loc \in Locals /\ ni.sig_ba # 0 /\ ni.sig_ba \in Nat
      /\ loc.ba \in Nat /\ loc.mk # "er_mapped" /\ MgmtStart <= loc.ba /\ ni.main_ba \in Nat
  BY <1>0, Searching, Numbers
<1>2. Tables' = Tables /\ (\A b : TableIn(b)' = TableIn(b)) /\ ChipTables'
  BY <1>0, ShrinkChip DEF Tables, TableIn, TabInv, Shrinks
<1>3. \A b \in Tables : /\ b \in Nat /\ (b = ni.main_ba \/ loc.ba <= b)
                        /\ b + 1 < ni.sig_ba /\ Good(b)
  BY <1>0, <1>1, TableValue DEF IndInv, TabInv, SeekInv, SightInv
<1>4. /\ ni.main_ba \in Tables /\ loc.main_wc = TableIn(ni.main_ba).write_count
      /\ ni.backup_ba = 0 /\ ni.main_ba + 1 <= loc.ba
  <2>1. /\ Loaded(ni.main_ba, loc.main_wc, loc.main_top)
        /\ ni.backup_ba = 0 /\ loc.end = ni.main_ba + 1 /\ loc.end <= loc.ba
    BY <1>0 DEF LayInv, LoadInv
  <2>2. ni.main_ba \in LoadableAt(cell, oob)
    BY <2>1 DEF Loaded
  <2> QED BY <2>1, <2>2, LoadableInTables DEF Loaded, TableIn
<1>5. /\ Covers(TableIn(ni.main_ba), ni.block_state)
      /\ ni.write_count = TableIn(ni.main_ba).write_count
      /\ ~ni.dirty => ni.block_state = TableIn(ni.main_ba).state
  BY <1>0, <1>4 DEF TabInv, SeekInv, Current
<1>6. CASE SearchMore /\ TryLoad(loc.ba) /\ pc' = "loaded"
  <2>1. PICK t : t = cell[loc.ba].t
    OBVIOUS
  <2>2. PICK top, n : top = MappingTop(t, loc.ba, ni.sig_ba) /\ n = [ni EXCEPT !.backup_ba = loc.ba]
    OBVIOUS
  <2>3. /\ ni' = IF t.write_count > ni.write_count THEN Adopt(n, t) ELSE n
        /\ loc' = [loc EXCEPT !.end = loc.ba + TableBlocks,
                              !.backup_wc = t.write_count, !.backup_top = top]
    BY <1>0, <1>6, <2>1, <2>2 DEF SearchSecond, TryLoadFails
  <2>4. loc'.backup_wc = t.write_count /\ loc'.main_wc = loc.main_wc /\ loc'.mk = loc.mk
    BY <1>1, <2>3 DEF Locals
  <2>5. /\ n \in Instance /\ n.sig_ba = ni.sig_ba /\ n.main_ba = ni.main_ba /\ n.backup_ba = loc.ba
        /\ n.block_state = ni.block_state /\ n.write_count = ni.write_count /\ n.dirty = ni.dirty
    BY <1>1, <2>2 DEF Instance
  <2>6. /\ ni'.sig_ba = ni.sig_ba /\ ni'.main_ba = ni.main_ba /\ ni'.backup_ba = loc.ba
        /\ ni'.dirty = ni.dirty
        /\ IF t.write_count > ni.write_count
             THEN ni'.block_state = t.state /\ ni'.write_count = t.write_count
             ELSE ni'.block_state = ni.block_state /\ ni'.write_count = ni.write_count
    BY <2>3, <2>5 DEF Adopt, Instance
  <2>7. loc.ba \in Tables /\ t = TableIn(loc.ba) /\ loc.ba # ni.main_ba /\ loc.ba # 0
    BY <1>0, <1>1, <1>4, <1>6, <2>1, TryLoadTable, GeometryAssumption DEF TableIn
  <2>8. \A b \in Tables : t.state[b] = BLOCK_ST_GOOD
    BY <2>7 DEF TabInv, ChipTables
  <2>9. SightInv'
    BY <1>1, <1>2, <1>3, <2>6, <2>8 DEF SightInv, Good
  <2>10. Tables \subseteq {ni.main_ba, loc.ba}
    BY <1>4, <2>7 DEF TabInv, ChipTables
  <2>11. Current' = IF t.write_count > ni.write_count THEN t ELSE TableIn(ni.main_ba)
    BY <1>2, <1>4, <1>5, <2>4, <2>6, <2>7 DEF Current
  <2>12. /\ Covers(Current', ni'.block_state) /\ ni'.write_count = Current'.write_count
         /\ ~ni'.dirty => ni'.block_state = Current'.state
    BY <1>5, <2>6, <2>11 DEF Covers
  <2>13. SeekInv'
    BY <1>2, <1>6, <2>6, <2>10, <2>12 DEF SeekInv, Covers
  <2> QED BY <1>1, <1>2, <1>6, <2>4, <2>9, <2>13, StartTables
<1>7. CASE SearchMore /\ TryLoadFails
  BY <1>0, <1>7, SearchGoesOn
<1>8. CASE ~SearchMore /\ pc' = "loaded" /\ UNCHANGED <<ni, loc>>
  <2>1. \A b \in Tables : b = ni.main_ba
    <3>1. ~(loc.ba < ni.sig_ba - 1)
      BY <1>8 DEF SearchMore
    <3> QED BY <1>1, <1>3, <3>1
  <2>2. Current' = TableIn(ni.main_ba)
    BY <1>2, <1>4, <1>8 DEF Current
  <2>3. SightInv'
    BY <1>1, <1>2, <1>3, <1>8 DEF SightInv, Good
  <2>4. SeekInv'
    BY <1>2, <1>5, <1>8, <2>1, <2>2 DEF SeekInv, Covers
  <2> QED BY <1>1, <1>2, <1>8, <2>3, <2>4, StartTables
<1> QED BY <1>6, <1>7, <1>8 DEF SearchSecond


\* What the search has found: nothing on the chip is newer than what is in
\* memory, and no usable block lies in front of two tables.
LEMMA LoadedTables ==
  ASSUME TableBlocks = 1, IndInv, LayInv, TabInv, pc = "loaded"
  PROVE  /\ \A b \in Tables :
              /\ TableIn(b).write_count <= ni.write_count
              /\ TableIn(b).write_count = ni.write_count /\ ~ni.dirty =>
                   TableIn(b).state = ni.block_state /\ TableIn(b).map = ni.block_mapping
              /\ Covers(TableIn(b), ni.block_state)
         /\ Tables \subseteq {ni.main_ba, ni.backup_ba} /\ 0 \notin Tables
         /\ ni.backup_ba # 0 => DeadBelow(ni.block_state, ni.main_ba)
<1>1. /\ ni \in Instance /\ loc \in Locals /\ ni.main_ba \in Nat /\ ni.backup_ba \in Nat
      /\ loc.main_wc \in Nat /\ loc.backup_wc \in Nat
  BY Searching, Numbers DEF Locals
<1>2. /\ ni.main_ba \in Tables /\ loc.main_wc = TableIn(ni.main_ba).write_count
      /\ ni.backup_ba = 0 => ni.block_mapping = TableIn(ni.main_ba).map
  <2>1. /\ Loaded(ni.main_ba, loc.main_wc, loc.main_top)
        /\ ni.backup_ba = 0 => ni.block_mapping = cell[ni.main_ba].t.map
    BY DEF LayInv, LoadInv
  <2>2. ni.main_ba \in LoadableAt(cell, oob)
    BY <2>1 DEF Loaded
  <2> QED BY <2>1, <2>2, LoadableInTables DEF Loaded, TableIn
<1>3. ni.backup_ba # 0 =>
        /\ ni.backup_ba \in Tables /\ loc.backup_wc = TableIn(ni.backup_ba).write_count
        /\ ni.main_ba < ni.backup_ba
        /\ ni.block_mapping = IF loc.backup_wc > loc.main_wc
                                THEN TableIn(ni.backup_ba).map ELSE TableIn(ni.main_ba).map
  <2> SUFFICES ASSUME ni.backup_ba # 0
               PROVE  /\ ni.backup_ba \in Tables /\ loc.backup_wc = TableIn(ni.backup_ba).write_count
                      /\ ni.main_ba < ni.backup_ba
                      /\ ni.block_mapping = IF loc.backup_wc > loc.main_wc
                                THEN TableIn(ni.backup_ba).map ELSE TableIn(ni.main_ba).map
    OBVIOUS
  <2>1. /\ Loaded(ni.backup_ba, loc.backup_wc, loc.backup_top)
        /\ ni.main_ba + 1 <= ni.backup_ba
        /\ ni.block_mapping = IF loc.backup_wc > loc.main_wc
                                THEN cell[ni.backup_ba].t.map ELSE cell[ni.main_ba].t.map
    BY DEF LayInv, LoadInv
  <2>2. ni.backup_ba \in LoadableAt(cell, oob)
    BY <2>1 DEF Loaded
  <2>3. ni.main_ba < ni.backup_ba
    BY <1>1, <2>1
  <2> QED BY <2>1, <2>2, <2>3, LoadableInTables DEF Loaded, TableIn
<1>4. /\ Tables \subseteq {ni.main_ba, ni.backup_ba}
      /\ Covers(Current, ni.block_state) /\ ni.write_count = Current.write_count
      /\ ~ni.dirty => ni.block_state = Current.state
  BY DEF TabInv, SeekInv
<1>5. 0 \notin Tables
  BY GeometryAssumption DEF TabInv, ChipTables
<1>6. PICK c \in Tables : /\ Current = TableIn(c) /\ ni.block_mapping = TableIn(c).map
                          /\ \A b \in Tables : TableIn(b).write_count <= TableIn(c).write_count
  <2>1. CASE ni.backup_ba = 0
    BY <1>1, <1>2, <1>4, <1>5, <2>1 DEF Current
  <2>2. CASE ni.backup_ba # 0 /\ loc.backup_wc > loc.main_wc
    BY <1>1, <1>2, <1>3, <1>4, <2>2 DEF Current
  <2>3. CASE ni.backup_ba # 0 /\ ~(loc.backup_wc > loc.main_wc)
    BY <1>1, <1>2, <1>3, <1>4, <2>3 DEF Current
  <2> QED BY <2>1, <2>2, <2>3
<1>7. ASSUME NEW b \in Tables
      PROVE  /\ TableIn(b).write_count = TableIn(c).write_count => TableIn(b) = TableIn(c)
             /\ Covers(TableIn(b), TableIn(c).state)
             /\ c # b => \A d \in Blocks : MgmtStart <= d /\ d < c /\ d < b =>
                                            Dead(TableIn(c).state, d)
  BY <1>6 DEF TabInv, ChipTables
<1>8. ASSUME NEW b \in Tables
      PROVE  /\ TableIn(b).write_count <= ni.write_count
             /\ TableIn(b).write_count = ni.write_count /\ ~ni.dirty =>
                  TableIn(b).state = ni.block_state /\ TableIn(b).map = ni.block_mapping
             /\ Covers(TableIn(b), ni.block_state)
  BY <1>4, <1>6, <1>7 DEF Covers
<1>9. ASSUME ni.backup_ba # 0 PROVE DeadBelow(ni.block_state, ni.main_ba)
  <2>1. PICK b \in Tables : b # c /\ ni.main_ba <= b /\ ni.main_ba <= c
    <3>1. ni.main_ba <= ni.backup_ba /\ ni.main_ba <= ni.main_ba /\ ni.main_ba # ni.backup_ba
      BY <1>1, <1>3, <1>9
    <3> QED BY <1>2, <1>3, <1>4, <1>9, <3>1
  <2>2. ASSUME NEW d \in Blocks, MgmtStart <= d, d < ni.main_ba PROVE Dead(ni.block_state, d)
    <3>1. d < b /\ d < c
      <4>1. d \in Int /\ b \in Int /\ c \in Int
        BY TableValue, GeometryAssumption DEF IndInv, Blocks
      <4> QED BY <1>1, <2>1, <2>2, <4>1
    <3>2. Dead(TableIn(c).state, d)
      BY <1>7, <2>1, <2>2, <3>1
    <3> QED BY <1>4, <1>6, <3>2 DEF Dead, Covers
  <2> QED BY <2>2 DEF DeadBelow
<1> QED BY <1>4, <1>5, <1>8, <1>9

\* nmbm_load_info_table rewrites the older table, or writes the missing one.
LEMMA LoadInfoTables ==
  ASSUME TableBlocks = 1, IndInv, LayInv, TabInv, nmbm_load_info_table PROVE TabInv'
<1>0. pc = "loaded" /\ UNCHANGED <<cell, oob, loc>>
  BY DEF nmbm_load_info_table, chip
<1>1. /\ TypeOK /\ ni \in Instance /\ loc \in Locals /\ ni.sig_ba # 0 /\ ni.main_ba \in Nat
      /\ ni.backup_ba \in Nat /\ loc.mk # "er_mapped" /\ loc.main_top \in Int
      /\ loc.backup_top \in Int /\ loc.end \in Nat
  BY <1>0, Searching, Numbers DEF IndInv, Locals
<1>2. /\ \A b \in Tables :
           /\ TableIn(b).write_count <= ni.write_count
           /\ TableIn(b).write_count = ni.write_count /\ ~ni.dirty =>
                TableIn(b).state = ni.block_state /\ TableIn(b).map = ni.block_mapping
           /\ Covers(TableIn(b), ni.block_state)
      /\ Tables \subseteq {ni.main_ba, ni.backup_ba} /\ 0 \notin Tables
      /\ ni.backup_ba # 0 => DeadBelow(ni.block_state, ni.main_ba)
  BY <1>0, LoadedTables
<1>3. PICK newer, count : /\ newer = IF ni.backup_ba = 0 \/ loc.main_wc >= loc.backup_wc
                                       THEN loc.main_top ELSE loc.backup_top
                          /\ count = DataBlockCount(ni.block_mapping)
  OBVIOUS
<1>4. newer \in Int /\ count \in Nat
  <2>1. ni.block_mapping \in Mapping
    BY <1>1 DEF Instance
  <2> QED BY <1>1, <1>3, <2>1, DataBlockCountType
<1>5. PICK n : n = [ni EXCEPT !.top_ba = newer, !.map_ba = loc.end, !.data_count = count]
  OBVIOUS
<1>6. /\ n \in Instance /\ n.block_state = ni.block_state /\ n.block_mapping = ni.block_mapping
      /\ n.dirty = ni.dirty /\ n.write_count = ni.write_count /\ n.sig_ba = ni.sig_ba
      /\ n.main_ba = ni.main_ba /\ n.backup_ba = ni.backup_ba
  BY <1>1, <1>4, <1>5 DEF Instance
<1>7. PICK m : m = nmbm_generate_info_table_cache(n)
  OBVIOUS
<1>8. /\ m \in Instance /\ m.sig_ba = ni.sig_ba /\ m.main_ba = ni.main_ba
      /\ m.backup_ba = ni.backup_ba
  BY <1>6, <1>7, GenerateCache
<1>9. \/ /\ m.backup_ba = 0 /\ ni' = m
         /\ CallWrite(MgmtStart, m.main_ba, "rs_front")
      \/ /\ m.backup_ba # 0 /\ ni' = [m EXCEPT !.dirty = TRUE]
         /\ CallWrite(m.main_ba, m.backup_ba, "us_main")
      \/ /\ m.backup_ba # 0 /\ ni' = [m EXCEPT !.dirty = TRUE]
         /\ CallWrite(m.backup_ba, m.top_ba, "us_backup")
      \/ m.backup_ba # 0 /\ ni' = m /\ pc' = "load_ok"
  BY <1>3, <1>5, <1>7 DEF nmbm_load_info_table
<1>10. /\ ni'.block_state = m.block_state /\ ni'.cache = m.cache
       /\ ni'.write_count = m.write_count /\ ni'.sig_ba = ni.sig_ba
       /\ ni'.main_ba = ni.main_ba /\ ni'.backup_ba = ni.backup_ba
  BY <1>8, <1>9 DEF Instance
<1>11. ni'.block_state = ni.block_state /\ NewestInv' /\ CopyInv'
  BY <1>0, <1>1, <1>2, <1>6, <1>7, <1>10, NewCopy
<1>12. Tables' = Tables /\ ChipTables' /\ SightInv'
  BY <1>0, <1>1, <1>10, <1>11, SameFades, ShrinkChip, FadeSight DEF TabInv
<1>13. SeekInv'
  BY <1>9 DEF SeekInv, CallWrite
<1>14. UserInv'
  BY <1>0, <1>1, <1>9 DEF UserInv, CallWrite
<1>15. \A a : DeadBelow(ni.block_state, a) => DeadBelow(ni.block_state, a)'
  BY <1>0, <1>11 DEF DeadBelow, Dead
<1>16. DeadBelow(ni.block_state, MgmtStart)
  BY DeadStart, GeometryAssumption
<1>17. \A b \in Tables : b <= b
  BY TableValue DEF IndInv
<1>18. CASE m.backup_ba = 0 /\ CallWrite(MgmtStart, m.main_ba, "rs_front")
  <2>1. /\ pc' = "write" /\ w'.k = "rs_front" /\ w'.ba = MgmtStart /\ w'.i = 1
        /\ w'.limit = ni'.main_ba
    BY <1>8, <1>10, <1>18 DEF CallWrite
  <2>2. FrontInv' /\ ReachInv'
    BY <2>1 DEF FrontInv, ReachInv, At, Writers
  <2>3. \A b \in Tables : b \in Kept("rs_front")'
    BY <1>2, <1>8, <1>10, <1>18 DEF Kept
  <2>4. DeadBelow(ni.block_state, MgmtStart)'
    BY <1>15, <1>16
  <2>5. HomeInv'
    BY <1>12, <2>1, <2>3, <2>4 DEF HomeInv, RangeUser
  <2> QED BY <1>11, <1>12, <1>13, <1>14, <2>2, <2>5 DEF TabInv
<1>19. CASE m.backup_ba # 0 /\ CallWrite(m.main_ba, m.backup_ba, "us_main")
  <2>1. /\ pc' = "write" /\ w'.k = "us_main" /\ w'.ba = ni'.main_ba /\ w'.i = 1
        /\ w'.limit = ni'.backup_ba
    BY <1>8, <1>10, <1>19 DEF CallWrite
  <2>2. DeadBelow(ni.block_state, ni.main_ba)'
    BY <1>2, <1>8, <1>10, <1>15, <1>19
  <2>3. FrontInv' /\ ReachInv'
    BY <2>1, <2>2 DEF FrontInv, ReachInv, At, Writers
  <2>4. \A b \in Tables : b \in Kept("us_main")' \/ (b \in Old("us_main")' /\ w'.ba <= b)
    BY <1>2, <1>10, <1>17, <2>1 DEF Kept, Old
  <2>5. HomeInv'
    BY <1>12, <2>1, <2>2, <2>4 DEF HomeInv, RangeUser
  <2> QED BY <1>11, <1>12, <1>13, <1>14, <2>3, <2>5 DEF TabInv
<1>20. CASE m.backup_ba # 0 /\ CallWrite(m.backup_ba, m.top_ba, "us_backup")
  <2>1. pc' = "write" /\ w'.k = "us_backup" /\ w'.ba = ni'.backup_ba /\ w'.i = 1
    BY <1>8, <1>10, <1>20 DEF CallWrite
  <2>2. DeadBelow(ni.block_state, ni.main_ba)'
    BY <1>2, <1>8, <1>10, <1>15, <1>20
  <2>3. FrontInv' /\ ReachInv'
    BY <2>1, <2>2 DEF FrontInv, ReachInv, At, Writers
  <2>4. \A b \in Tables : b \in Kept("us_backup")' \/ (b \in Old("us_backup")' /\ w'.ba <= b)
    BY <1>2, <1>10, <1>17, <2>1 DEF Kept, Old
  <2>5. HomeInv'
    BY <1>12, <2>1, <2>4 DEF HomeInv, RangeUser, Fronts
  <2> QED BY <1>11, <1>12, <1>13, <1>14, <2>3, <2>5 DEF TabInv
<1>21. CASE m.backup_ba # 0 /\ ni' = m /\ pc' = "load_ok"
  <2>1. DeadBelow(ni.block_state, ni.main_ba)'
    BY <1>2, <1>8, <1>10, <1>15, <1>21
  <2>2. FrontInv' /\ ReachInv'
    BY <1>21, <2>1 DEF FrontInv, ReachInv, At, Writers
  <2>3. HomeInv'
    BY <1>2, <1>10, <1>12, <1>21 DEF HomeInv, RangeUser
  <2> QED BY <1>11, <1>12, <1>13, <1>14, <2>2, <2>3 DEF TabInv
<1> QED BY <1>9, <1>18, <1>19, <1>20, <1>21


-----------------------------------------------------------------------------
(* The theorems.                                                           *)

\* There is no table before the first attach.
LEMMA TabInvInit == Init => TabInv
<1> SUFFICES ASSUME Init PROVE TabInv
  OBVIOUS
<1>1. pc = "off" /\ loc.mk = "off" /\ Tables = {}
  BY DEF Init, L0, Blank, Tables
<1>2. ChipTables /\ SightInv
  BY <1>1 DEF ChipTables, SightInv
<1>3. NewestInv /\ CopyInv /\ SeekInv /\ FrontInv /\ HomeInv /\ ReachInv /\ UserInv
  BY <1>1 DEF NewestInv, CopyInv, SeekInv, FrontInv, HomeInv, ReachInv, UserInv, Active,
              Starting, RangeUser, At, Writers
<1> QED BY <1>2, <1>3 DEF TabInv

\* Every step preserves the invariant.
LEMMA TabInvNext ==
  ASSUME ~MarkMayFail, TableBlocks = 1
  PROVE  IndInv /\ LayInv /\ TabInv /\ [Next]_vars => TabInv'
<1> SUFFICES ASSUME IndInv, LayInv, TabInv, [Next]_vars PROVE TabInv'
  OBVIOUS
<1>1. CASE DriverStep
  BY <1>1, WriteReturnTables, WriteEraseTables, WriteProgramTables, EraseRangeTables,
     RebuildMainTables, RebuildBackupTables, UpdateTables, UpdateBackupTables, UpdateMainTables,
     RescueTmpTables, RescueMainTables, MapBlockTables, MapFailedTables, SignatureTables,
     CreateInfoTables, CreateTables, CreateDoneTables, SearchFirstTables, SearchSecondTables,
     LoadInfoTables, UpdateSingleTables, RescueFrontTables, RescueNextTables, LoadDoneTables,
     EraseLogicTables, EraseMappedTables, WriteLogicTables, CallsStill
     DEF DriverStep
<1>2. CASE UserStep
  BY <1>2, AttachTables, CallsStill, MarkBadTables DEF UserStep
<1>3. CASE PowerFails
  BY <1>3, PowerFailsTables
<1>4. CASE UNCHANGED vars
  BY <1>4, StutterTables DEF vars
<1> QED BY <1>1, <1>2, <1>3, <1>4 DEF Next, Retired

\* It tells tables apart by their write counts.
LEMMA TabInvIdentifies ==
  ASSUME TableBlocks = 1
  PROVE  TabInv => WriteCountIdentifies
<1> SUFFICES ASSUME TabInv, NEW a \in LoadableAt(cell, oob), NEW b \in LoadableAt(cell, oob),
                    cell[a].t.write_count = cell[b].t.write_count
             PROVE  cell[a].t = cell[b].t
  BY DEF WriteCountIdentifies
<1>1. a \in Tables /\ b \in Tables
  BY LoadableInTables
<1> QED BY <1>1 DEF TabInv, ChipTables, TableIn

\* Two tables that an attach can load and that have the same write count are
\* copies of one another, whatever fails and wherever the power is cut, on
\* every chip with tables of one block on which bad marks can be written,
\* unless nmbm_map_block has passed a bad block (run shared_block).
THEOREM WriteCountsIdentify ==
  ASSUME ~MarkMayFail, TableBlocks = 1
  PROVE  Spec /\ []TopIsGood => []WriteCountIdentifies
<1>1. Init => IndInv /\ LayInv /\ TabInv
  BY IndInvInit, LayInvInit, TabInvInit
<1>2. (IndInv /\ LayInv /\ TabInv) /\ TopIsGood /\ [Next]_vars => (IndInv /\ LayInv /\ TabInv)'
  BY IndInvNext, LayInvNext, TabInvNext, TabInvIdentifies
<1>3. TabInv => WriteCountIdentifies
  BY TabInvIdentifies
<1> QED BY <1>1, <1>2, <1>3, PTL DEF Spec

\* So on such chips the walk of nmbm_map_block is the only way to lose the
\* layout of the management area or to share a block.
THEOREM OneWayToLoseLayout ==
  ASSUME ~MarkMayFail, TableBlocks = 1
  PROVE  Spec /\ []TopIsGood => [](Layout /\ NoSharing)
BY WriteCountsIdentify, LayoutKept, NothingShared, PTL

\* And where only data blocks wear out and the supply does not fail, there is
\* no such way: the properties hold of every behaviour.
THEOREM SafeWithoutCuts ==
  ASSUME ~MarkMayFail, TableBlocks = 1, ~PowerCut, Markable = {},
         FactoryBad \cup Weak \subseteq LBlocks
  PROVE  Spec => [](WriteCountIdentifies /\ NoSharing /\ Layout)
<1>1. Weak \subseteq LBlocks
  OBVIOUS
<1>2. Spec => []TornSeen
  BY <1>1, Invariance, WeakAlways, SearchAboveData, PTL
<1>3. Spec => []TopIsGood
  BY <1>2, Invariance, MarkInvariance, WeakAlways, SparesAreGood, PTL
<1> QED BY <1>3, WriteCountsIdentify, OneWayToLoseLayout, PTL
=============================================================================
