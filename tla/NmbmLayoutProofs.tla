-------------------------- MODULE NmbmLayoutProofs --------------------------
(***************************************************************************)
(* Where nmbm-core.c keeps the layout of the management area, and that no  *)
(* physical block serves two logic blocks, for every chip geometry, every  *)
(* set of bad and weak blocks and any number of power cuts.                *)
(*                                                                         *)
(* Both are false as they stand: nmbm_map_block takes a block twice if it  *)
(* has to skip a bad one (run shared_block), and nmbm_load_info_table      *)
(* trusts write counts.  The theorems have these two as hypotheses about   *)
(* the behaviour, and so show that there is no third way to lose the       *)
(* layout.                                                                 *)
(***************************************************************************)
EXTENDS NmbmProofs

\* The first hypothesis: when nmbm_map_block has spare blocks to search, the
\* highest one is good.  The second is WriteCountIdentifies.
TopIsGood == pc = "map" /\ ni.map_ba < ni.top_ba => Good(ni.top_ba)

-----------------------------------------------------------------------------
(* The inductive invariant.                                                *)

\* A mapping to the data area or to blocks above top, below sig, to no block
\* twice.
Above(map, top) == \A lb \in LBlocks : map[lb] < MgmtStart \/ top < map[lb]
Below(map, sig) == \A lb \in LBlocks : map[lb] < sig
Apart(map) ==
  \A a, b \in LBlocks : a # b /\ map[a] # Unmapped => map[a] # map[b]

Found == nmbm_find_signature(cell, oob)

\* A chunk in block b is of a table that maps to no block up to the one behind
\* it, and a signature that is above all blocks it maps to is still there.
OnChip(b, t, found) ==
  Above(t.map, b + 1) /\ Apart(t.map) /\ \E s \in found : Below(t.map, s)

ChipInv ==
  /\ \A b \in Blocks : cell[b].k = "table" => OnChip(b, cell[b].t, Found)
  /\ pc \in {"sig_erase", "sig_program"} => \A b \in Blocks : cell[b].k # "table"
  /\ ni.sig_ba # 0 => ni.sig_ba \in Found
  /\ pc \in {"search1", "search2", "loaded"} => \A s \in Found : s <= ni.sig_ba

\* The mapping in memory.  A protected instance may have run out of spares.
MapInv ==
  /\ ni.sig_ba # 0 => Below(ni.block_mapping, ni.sig_ba)
  /\ pc = "create" => \A lb \in LBlocks : ni.block_mapping[lb] < MgmtStart
  /\ pc \notin Starting => \/ Above(ni.block_mapping, ni.top_ba)
                           \/ ni.protected /\ ni.top_ba <= ni.map_ba
  /\ Apart(ni.block_mapping)

\* What is about to be written.
CacheInv ==
  pc \in RangeUser =>
    /\ ~ni.protected /\ Above(ni.cache.map, ni.top_ba)
    /\ Below(ni.cache.map, ni.sig_ba) /\ Apart(ni.cache.map)

\* What the search has kept of a table it found at ba.
Loaded(ba, wc, top) ==
  /\ ba \in LoadableAt(cell, oob)
  /\ wc = cell[ba].t.write_count /\ top = MappingTop(cell[ba].t, ba, ni.sig_ba)

LoadInv ==
  /\ pc \in Starting \ {"off"} => ~ni.protected
  /\ pc \in {"sig_erase", "sig_program"} => \A b \in oob : ~Good(b)
  /\ pc = "sig_program" => Good(loc.ba)
  /\ pc \in {"search2", "loaded"} => Loaded(ni.main_ba, loc.main_wc, loc.main_top)
  /\ pc = "search2" =>
       /\ ni.backup_ba = 0 /\ loc.end = ni.main_ba + TableBlocks /\ loc.end <= loc.ba
       /\ ni.write_count = loc.main_wc /\ ni.block_mapping = cell[ni.main_ba].t.map
  /\ pc = "loaded" /\ ni.backup_ba = 0 =>
       loc.end = ni.main_ba + TableBlocks /\ ni.block_mapping = cell[ni.main_ba].t.map
  /\ pc = "loaded" /\ ni.backup_ba # 0 =>
       /\ Loaded(ni.backup_ba, loc.backup_wc, loc.backup_top)
       /\ ni.main_ba + TableBlocks <= ni.backup_ba /\ loc.end = ni.backup_ba + TableBlocks
       /\ ni.block_mapping = IF loc.backup_wc > loc.main_wc
                               THEN cell[ni.backup_ba].t.map ELSE cell[ni.main_ba].t.map

\* The driver is in, or just back from, the loop that was called from k.
At(k) == pc = k \/ (pc \in {"write", "program", "erase"} /\ w.k = k)

\* Main table, backup table, spare blocks, in this order.
Placed(n) ==
  /\ MgmtStart <= n.main_ba /\ n.main_ba + TableBlocks <= n.map_ba
  /\ n.backup_ba # 0 => /\ n.main_ba + TableBlocks <= n.backup_ba
                        /\ n.backup_ba + TableBlocks <= n.map_ba

PlaceInv ==
  pc \notin Starting \cup {"load_failed"} /\ ~ni.protected /\ ~At("rb_main") =>
    Placed(ni) /\ (~At("us_backup") => ni.map_ba <= ni.top_ba)

\* The loops that write a table, the lowest block each may use, and the block
\* it must stay below.
Writers == {"rb_main", "rb_backup", "u_backup", "u_main", "rm_tmp", "rm_main",
            "us_main", "us_backup", "rs_front", "rs_next"}
Base(k) == CASE k \in {"u_backup", "us_backup"} -> ni.backup_ba
             [] k \in {"rb_backup", "rm_tmp", "rs_next"} -> ni.map_ba
             [] OTHER -> MgmtStart
Limit(k) == CASE k = "us_main" \/ (k = "u_main" /\ ni.backup_ba # 0) -> ni.backup_ba
              [] k = "rs_front" -> ni.main_ba
              [] k = "rm_main" -> loc.start
              [] OTHER -> ni.top_ba

\* The frame of a loop that writes a table.
TableFrame ==
  /\ w.limit <= ni.top_ba /\ w.limit <= Limit(w.k) /\ Base(w.k) <= w.ba
  /\ w.i <= TableBlocks + 1
  /\ w.i > 1 => Base(w.k) <= w.start /\ w.start + w.i - 1 <= w.ba

WriterInv ==
  /\ pc \in {"write", "program"} => w.k \in Writers
  /\ pc = "erase" => w.k \notin Writers
  /\ pc \in RangeUser /\ w.k \in Writers => TableFrame
  /\ At("rb_main") \/ At("rs_front") => ni.backup_ba = 0
  /\ At("us_main") \/ At("rm_tmp") => ni.backup_ba # 0
  /\ At("rm_main") => MgmtStart <= loc.start /\ loc.start + TableBlocks <= ni.map_ba
  /\ At("rs_erased") => /\ ni.map_ba <= loc.start /\ loc.start + TableBlocks <= loc.end
                        /\ loc.end <= ni.top_ba

LayInv == ChipInv /\ MapInv /\ CacheInv /\ LoadInv /\ PlaceInv /\ WriterInv

-----------------------------------------------------------------------------
(* Lemmas about mappings and the chip.                                     *)

\* The empty mapping, and the initial one, use no block twice: the number of
\* usable blocks below a block is the number of its logic block.
LEMMA BuildApart ==
  ASSUME NEW bs PROVE Apart(nmbm_build_mapping_table(bs))
<1> DEFINE below(pb) == Cardinality({b \in Usable(bs) : b < pb})
           nth(lb) == {pb \in Usable(bs) : below(pb) = lb}
           m == nmbm_build_mapping_table(bs)
<1>1. \A lb \in LBlocks :
        m[lb] = IF nth(lb) = {} THEN Unmapped ELSE CHOOSE pb \in nth(lb) : TRUE
  BY DEF nmbm_build_mapping_table
<1>2. ASSUME NEW lb \in LBlocks, m[lb] # Unmapped PROVE below(m[lb]) = lb
  <2>1. nth(lb) # {} /\ m[lb] = CHOOSE pb \in nth(lb) : TRUE
    BY <1>1, <1>2
  <2>2. m[lb] \in nth(lb)
    BY <2>1
  <2> QED BY <2>2
<1> HIDE DEF m, nth, below
<1>3. \A a, b \in LBlocks : a # b /\ m[a] # Unmapped => m[a] # m[b]
  BY <1>2
<1> QED BY <1>3 DEF Apart, m

\* Taking a block that nothing is mapped to, or giving one up, keeps the
\* mapping apart.
LEMMA ApartExcept ==
  ASSUME NEW map \in Mapping, Apart(map), NEW lb \in LBlocks, NEW p,
         p = Unmapped \/ \A a \in LBlocks : map[a] # p
  PROVE  Apart([map EXCEPT ![lb] = p])
BY DEF Apart, Mapping

\* nmbm_set_block_state leaves the rest of the instance.
LEMMA SetStateRest ==
  ASSUME NEW n \in Instance, NEW S, NEW state \in BlockState,
         NEW m, m = nmbm_set_block_state(n, S, state)
  PROVE  /\ m \in Instance
         /\ m.sig_ba = n.sig_ba /\ m.block_mapping = n.block_mapping
         /\ m.main_ba = n.main_ba /\ m.backup_ba = n.backup_ba
         /\ m.map_ba = n.map_ba /\ m.top_ba = n.top_ba
         /\ m.cache = n.cache /\ m.protected = n.protected /\ m.write_count = n.write_count
BY DEF nmbm_set_block_state, Instance

\* What a step may do to the chip below the signature.
LEMMA ChipKept ==
  ASSUME TypeOK, ChipInv, ni.sig_ba # 0,
         \A b \in Blocks : ni.sig_ba <= b =>
           cell'[b] = cell[b] /\ (b \in oob' <=> b \in oob),
         \A b \in Blocks : cell'[b].k = "table" =>
           \/ cell'[b] = cell[b]
           \/ /\ Above(cell'[b].t.map, b + 1) /\ Apart(cell'[b].t.map)
              /\ Below(cell'[b].t.map, ni.sig_ba)
  PROVE  /\ ni.sig_ba \in Found'
         /\ \A b \in Blocks : cell'[b].k = "table" => OnChip(b, cell'[b].t, Found')
<1>1. ni.sig_ba \in Blocks /\ ni.sig_ba \in Found
  BY DEF TypeOK, Instance, ChipInv
<1>2. ni.sig_ba \in Found'
  BY <1>1 DEF Found, nmbm_find_signature, Blocks
<1>3. ASSUME NEW s \in Found PROVE \E t \in Found' : s <= t
  <2>1. CASE s < ni.sig_ba
    <3>1. s <= ni.sig_ba
      BY <1>1, <2>1, GeometryAssumption DEF Found, nmbm_find_signature, Blocks
    <3> QED BY <1>2, <3>1
  <2>2. CASE ~(s < ni.sig_ba)
    <3>1. s \in Blocks /\ ni.sig_ba <= s
      BY <1>1, <2>2, GeometryAssumption DEF Found, nmbm_find_signature, Blocks
    <3>2. s \in Found'
      BY <3>1 DEF Found, nmbm_find_signature
    <3>3. s <= s
      BY <3>1 DEF Blocks
    <3> QED BY <3>2, <3>3
  <2> QED BY <2>1, <2>2
<1>4. ASSUME NEW b \in Blocks, cell'[b].k = "table" PROVE OnChip(b, cell'[b].t, Found')
  <2>1. CASE cell'[b] = cell[b]
    <3>1. OnChip(b, cell[b].t, Found)
      BY <1>4, <2>1 DEF ChipInv
    <3>2. PICK s \in Found : Below(cell[b].t.map, s)
      BY <3>1 DEF OnChip
    <3>3. PICK t \in Found' : s <= t
      BY <1>3
    <3>4. s \in Int /\ t \in Int
      BY GeometryAssumption DEF Found, nmbm_find_signature
    <3>5. cell[b] \in Content
      BY DEF TypeOK
    <3>6. \A lb \in LBlocks : cell[b].t.map[lb] \in Int
      BY <3>5, <1>4, <2>1, GeometryAssumption
         DEF Content, Blank, Torn, Signature, InfoTable, Mapping, Blocks, Unmapped
    <3>7. Below(cell[b].t.map, t)
      BY <3>2, <3>3, <3>4, <3>6 DEF Below
    <3> QED BY <2>1, <3>1, <3>7 DEF OnChip
  <2>2. CASE ~(cell'[b] = cell[b])
    BY <1>2, <1>4, <2>2 DEF OnChip
  <2> QED BY <2>1, <2>2
<1> QED BY <1>2, <1>4


-----------------------------------------------------------------------------
(* Lemmas shared by the steps.                                             *)

\* Addresses are numbers.
LEMMA Numbers ==
  ASSUME IndInv
  PROVE  /\ ni \in Instance /\ w \in Frame /\ loc \in Locals
         /\ ni.main_ba \in Nat /\ ni.backup_ba \in Nat /\ ni.map_ba \in Nat /\ ni.top_ba \in Int
         /\ ni.sig_ba \in Nat /\ ni.protected \in BOOLEAN
         /\ w.ba \in Nat /\ w.limit \in Int /\ w.i \in Nat /\ w.start \in Nat
         /\ loc.ba \in Nat /\ loc.start \in Nat /\ loc.end \in Nat
         /\ MgmtStart \in Nat /\ TableBlocks \in Nat /\ 0 < MgmtStart /\ 0 < TableBlocks
BY GeometryAssumption DEF IndInv, TypeOK, Instance, Frame, Locals, Blocks

\* A mapping of an instance, and of its cache, maps to numbers.
LEMMA MapNumbers ==
  ASSUME NEW map \in Mapping PROVE \A lb \in LBlocks : map[lb] \in Int /\ -1 <= map[lb]
BY GeometryAssumption DEF Mapping, Blocks, Unmapped

\* A step of a running instance that leaves the chip, the mapping and the
\* highest spare block as they are.
LEMMA ControlStep ==
  ASSUME LayInv, pc \notin Starting, pc' \notin Starting \ {"off"}, UNCHANGED <<cell, oob>>,
         ni'.sig_ba = ni.sig_ba, ni'.block_mapping = ni.block_mapping,
         ni'.top_ba = ni.top_ba,
         ni.protected => ni'.protected /\ ni'.map_ba = ni.map_ba,
         pc' \in RangeUser =>
           /\ ~ni'.protected
           /\ \/ pc \in RangeUser /\ ni'.cache.map = ni.cache.map
              \/ ~ni.protected /\ ni'.cache.map = ni.block_mapping,
         ni.sig_ba # 0
  PROVE  ChipInv' /\ MapInv' /\ CacheInv' /\ LoadInv'
<1>1. ChipInv'
  BY DEF LayInv, ChipInv, Found, Starting
<1>2. MapInv'
  BY DEF LayInv, MapInv, Starting
<1>3. CacheInv'
  BY DEF LayInv, MapInv, CacheInv
<1>4. LoadInv'
  BY DEF LoadInv, Starting
<1> QED BY <1>1, <1>2, <1>3, <1>4

\* The tables are in place.
LEMMA InPlace ==
  ASSUME Placed(ni'), ni'.map_ba <= ni'.top_ba PROVE PlaceInv'
BY DEF PlaceInv

\* The call of a loop that writes a table.
LEMMA CallsWriter ==
  ASSUME NEW k \in Writers, NEW ba \in Nat, NEW limit \in Int, CallWrite(ba, limit, k),
         MgmtStart <= ba, limit <= ni'.top_ba,
         k \in {"u_backup", "us_backup"} => ni'.backup_ba <= ba,
         k \in {"rb_backup", "rm_tmp", "rs_next"} => ni'.map_ba <= ba,
         k = "rb_main" => ni'.backup_ba = 0,
         k \in {"us_main", "rm_tmp"} => ni'.backup_ba # 0,
         k = "us_main" => limit <= ni'.backup_ba,
         k = "u_main" /\ ni'.backup_ba # 0 => limit <= ni'.backup_ba,
         k = "rs_front" => ni'.backup_ba = 0 /\ limit <= ni'.main_ba,
         k = "rm_main" => /\ limit <= loc'.start /\ MgmtStart <= loc'.start
                          /\ loc'.start + TableBlocks <= ni'.map_ba
  PROVE  WriterInv'
<1>1. /\ pc' = "write" /\ w'.k = k /\ w'.limit = limit /\ w'.ba = ba /\ w'.i = 1
  BY DEF CallWrite
<1>2. TableFrame'
  BY <1>1, GeometryAssumption DEF TableFrame, Base, Limit, Writers
<1> QED BY <1>1, <1>2 DEF WriterInv, At, Writers

\* The call of a loop that erases.
LEMMA CallsErase ==
  ASSUME NEW k \in {"create_map", "update", "load_ok", "rs_erased", "off"},
         NEW ba, NEW limit, CallErase(ba, limit, k),
         k = "rs_erased" => /\ ni'.map_ba <= loc'.start
                            /\ loc'.start + TableBlocks <= loc'.end /\ loc'.end <= ni'.top_ba
  PROVE  WriterInv'
<1>1. /\ pc' = "erase" /\ w'.k = k
  BY DEF CallErase
<1> QED BY <1>1 DEF WriterInv, At, Writers

\* No loop is running.
LEMMA NoWriter == ASSUME pc' \notin RangeUser PROVE WriterInv'
BY DEF WriterInv, At, RangeUser

\* Back from a loop: the tables are in place but for two callers.
LEMMA PlaceNow ==
  ASSUME LayInv, pc \in RangeUser, ~At("rb_main"), ~At("us_backup")
  PROVE  Placed(ni) /\ ni.map_ba <= ni.top_ba
BY DEF LayInv, PlaceInv, CacheInv, RangeUser, Starting

\* ... and a table that was written lies where its caller wanted it.
LEMMA WrittenPlace ==
  ASSUME IndInv, LayInv, pc \in Writers, Written
  PROVE  /\ Base(pc) <= w.start /\ MgmtStart <= w.start /\ w.start + TableBlocks <= w.ba
         /\ w.ba <= w.limit /\ w.limit <= Limit(pc) /\ w.limit <= ni.top_ba
<1>1. pc \in RangeUser /\ w.k = pc
  BY DEF IndInv, FrameInv, Writers, RangeUser
<1>2. TableFrame
  BY <1>1 DEF LayInv, WriterInv
<1>3. w.i = TableBlocks + 1 /\ w.i > 1
  BY <1>2, Numbers DEF TableFrame, Written
<1>4. w.ba <= w.limit /\ w.start \in Area(ni)
  BY <1>1, <1>3 DEF IndInv, FrameInv
<1>5. MgmtStart <= w.start
  BY <1>4, Numbers, AreaNat
<1>6. Base(pc) <= w.start /\ w.start + w.i - 1 <= w.ba /\ w.limit <= Limit(pc) /\ w.limit <= ni.top_ba
  BY <1>1, <1>2, <1>3 DEF TableFrame
<1> QED BY <1>3, <1>4, <1>5, <1>6, Numbers

\* A running loop belongs to an instance that is not protected.
LEMMA Running ==
  ASSUME IndInv, LayInv, pc \in RangeUser
  PROVE  pc \notin Starting /\ ~ni.protected /\ ni.sig_ba # 0
<1>1. pc \notin Starting
  BY DEF RangeUser, Starting
<1> QED BY <1>1, Ready DEF LayInv, CacheInv

\* A reserved block lies at or above the block the search began at.
LEMMA ReserveRange ==
  ASSUME IndInv, NEW ba \in Nat, NEW next \in Reserve(ni, ba)
  PROVE  next \in Nat /\ ba <= next
<1>1. Reserve(ni, ba) \subseteq ba .. ni.top_ba - TableBlocks - 1
  BY WalkRange DEF Reserve
<1> QED BY <1>1, Numbers

-----------------------------------------------------------------------------
(* One lemma per action: the rebuild and the update of the tables.         *)

\* nmbm_rebuild_info_table starts.
LEMMA RebuildLayout ==
  ASSUME IndInv, LayInv, pc \notin Starting, ~ni.protected, ni.sig_ba # 0, NEW n \in Instance,
         n.sig_ba = ni.sig_ba, n.block_mapping = ni.block_mapping, n.top_ba = ni.top_ba,
         ~n.protected, n.cache.map = ni.block_mapping \/ (pc \in RangeUser /\ n.cache.map = ni.cache.map),
         Rebuild(n), UNCHANGED <<cell, oob>>
  PROVE  LayInv'
<1>1. /\ ni' = [n EXCEPT !.main_ba = 0, !.backup_ba = 0, !.map_ba = n.top_ba]
      /\ CallWrite(MgmtStart, n.top_ba, "rb_main")
  BY DEF Rebuild
<1>2. /\ ni'.sig_ba = n.sig_ba /\ ni'.block_mapping = n.block_mapping /\ ni'.top_ba = n.top_ba
      /\ ni'.backup_ba = 0 /\ ni'.cache = n.cache /\ ni'.protected = n.protected
  BY <1>1 DEF Instance
<1>3. pc' = "write" /\ w'.k = "rb_main"
  BY <1>1 DEF CallWrite
<1>4. ChipInv' /\ MapInv' /\ CacheInv' /\ LoadInv'
  BY <1>2, <1>3, ControlStep DEF Starting
<1>5. PlaceInv'
  BY <1>3 DEF PlaceInv, At
<1>6. n.top_ba \in Int /\ n.top_ba <= n.top_ba /\ MgmtStart \in Nat /\ MgmtStart <= MgmtStart
  BY GeometryAssumption DEF Instance
<1>7. "rb_main" \in Writers
  BY DEF Writers
<1>8. WriterInv'
  BY <1>1, <1>2, <1>6, <1>7, CallsWriter
<1> QED BY <1>4, <1>5, <1>8 DEF LayInv

\* The main table of a rebuild.
LEMMA RebuildMainLayout ==
  ASSUME IndInv, LayInv, RebuildMain PROVE LayInv'
<1>0. pc = "rb_main" /\ UNCHANGED <<cell, oob>>
  BY DEF RebuildMain, chip
<1>1. pc \in RangeUser /\ pc \in Writers /\ At("rb_main")
  BY <1>0 DEF RangeUser, Writers, At
<1>2. pc \notin Starting /\ ~ni.protected /\ ni.sig_ba # 0
  BY <1>1, Running
<1>3. ni \in Instance /\ loc \in Locals
  BY Numbers
<1>4. CASE ~Written
  <2>1. /\ ni' = [ni EXCEPT !.protected = TRUE]
        /\ pc' = (IF loc.rk = "create_map" THEN "create_done" ELSE loc.uk)
    BY <1>0, <1>4 DEF RebuildMain
  <2>2. pc' \notin RangeUser /\ pc' \notin Starting \ {"off"}
    BY <1>3, <2>1 DEF Locals, UpdateReturn, RangeUser, Starting
  <2>3. /\ ni'.sig_ba = ni.sig_ba /\ ni'.block_mapping = ni.block_mapping
        /\ ni'.top_ba = ni.top_ba /\ ni'.protected
    BY <1>3, <2>1 DEF Instance
  <2>4. ChipInv' /\ MapInv' /\ CacheInv' /\ LoadInv'
    BY <1>0, <1>2, <2>2, <2>3, ControlStep
  <2>5. PlaceInv' /\ WriterInv'
    BY <2>2, <2>3, NoWriter DEF PlaceInv
  <2> QED BY <2>4, <2>5 DEF LayInv
<1>5. CASE Written
  <2>1. /\ ni' = [ni EXCEPT !.main_ba = w.start, !.map_ba = w.ba, !.dirty = FALSE]
        /\ \/ pc' = loc.rk
           \/ \E next \in Reserve(ni, w.ba) : CallWrite(next, ni.top_ba, "rb_backup")
    BY <1>0, <1>5 DEF RebuildMain, nmbm_mark_tables_clean, TableStart, TableEnd
  <2>2. /\ ni'.sig_ba = ni.sig_ba /\ ni'.block_mapping = ni.block_mapping
        /\ ni'.top_ba = ni.top_ba /\ ni'.cache = ni.cache /\ ni'.protected = ni.protected
        /\ ni'.main_ba = w.start /\ ni'.map_ba = w.ba /\ ni'.backup_ba = ni.backup_ba
    BY <1>3, <2>1 DEF Instance
  <2>3. /\ MgmtStart <= w.start /\ w.start + TableBlocks <= w.ba
        /\ w.ba <= w.limit /\ w.limit <= ni.top_ba
    BY <1>1, <1>5, WrittenPlace
  <2>4. ni.backup_ba = 0
    BY <1>1 DEF LayInv, WriterInv
  <2>5. w.ba <= ni.top_ba
    BY <2>3, Numbers
  <2>6. PlaceInv'
    BY <2>2, <2>3, <2>4, <2>5, InPlace DEF Placed
  <2>7. CASE pc' = loc.rk
    <3>1. pc' \notin RangeUser /\ pc' \notin Starting \ {"off"}
      BY <1>3, <2>7 DEF Locals, RebuildReturn, RangeUser, Starting
    <3>2. ChipInv' /\ MapInv' /\ CacheInv' /\ LoadInv'
      BY <1>0, <1>2, <2>2, <3>1, ControlStep
    <3> QED BY <2>6, <3>1, <3>2, NoWriter DEF LayInv
  <2>8. ASSUME NEW next \in Reserve(ni, w.ba), CallWrite(next, ni.top_ba, "rb_backup")
        PROVE  LayInv'
    <3>1. pc' = "write" /\ "rb_backup" \in Writers
      BY <2>8 DEF CallWrite, Writers
    <3>2. next \in Nat /\ w.ba <= next /\ MgmtStart <= next
      BY <2>3, ReserveRange, Numbers
    <3>3. ChipInv' /\ MapInv' /\ CacheInv' /\ LoadInv'
      BY <1>0, <1>1, <1>2, <2>2, <3>1, ControlStep DEF Starting
    <3>4. ni.top_ba \in Int /\ ni.top_ba <= ni'.top_ba
      BY <2>2, Numbers
    <3>5. WriterInv'
      BY <2>2, <2>8, <3>1, <3>2, <3>4, CallsWriter
    <3> QED BY <2>6, <3>3, <3>5 DEF LayInv
  <2> QED BY <2>1, <2>7, <2>8
<1> QED BY <1>4, <1>5

\* The backup table of a rebuild.
LEMMA RebuildBackupLayout ==
  ASSUME IndInv, LayInv, RebuildBackup PROVE LayInv'
<1>0. pc = "rb_backup" /\ UNCHANGED <<cell, oob, loc>>
  BY DEF RebuildBackup, chip
<1>1. pc \in RangeUser /\ pc \in Writers /\ ~At("rb_main") /\ ~At("us_backup")
  BY <1>0 DEF RangeUser, Writers, At
<1>2. pc \notin Starting /\ ~ni.protected /\ ni.sig_ba # 0
  BY <1>1, Running
<1>3. ni \in Instance /\ loc \in Locals
  BY Numbers
<1>4. Placed(ni) /\ ni.map_ba <= ni.top_ba
  BY <1>1, PlaceNow
<1>5. CASE ~Written
  <2>1. pc' = loc.rk /\ ni' = ni
    BY <1>0, <1>5 DEF RebuildBackup
  <2>2. pc' \notin RangeUser /\ pc' \notin Starting \ {"off"}
    BY <1>3, <2>1 DEF Locals, RebuildReturn, RangeUser, Starting
  <2>3. ChipInv' /\ MapInv' /\ CacheInv' /\ LoadInv'
    BY <1>0, <1>2, <2>1, <2>2, ControlStep
  <2>4. PlaceInv' /\ WriterInv'
    BY <1>4, <2>1, <2>2, NoWriter, InPlace
  <2> QED BY <2>3, <2>4 DEF LayInv
<1>6. CASE Written
  <2>1. /\ ni' = [ni EXCEPT !.backup_ba = w.start, !.map_ba = w.ba]
        /\ CallErase(loc.end, w.start, loc.rk)
    BY <1>0, <1>6 DEF RebuildBackup, TableStart, TableEnd
  <2>2. /\ ni'.sig_ba = ni.sig_ba /\ ni'.block_mapping = ni.block_mapping
        /\ ni'.top_ba = ni.top_ba /\ ni'.cache = ni.cache /\ ni'.protected = ni.protected
        /\ ni'.main_ba = ni.main_ba /\ ni'.map_ba = w.ba /\ ni'.backup_ba = w.start
    BY <1>3, <2>1 DEF Instance
  <2>3. /\ Base(pc) <= w.start /\ w.start + TableBlocks <= w.ba
        /\ w.ba <= w.limit /\ w.limit <= ni.top_ba
    BY <1>1, <1>6, WrittenPlace
  <2>4. Base(pc) = ni.map_ba
    BY <1>0 DEF Base
  <2>5. /\ ni.main_ba + TableBlocks <= w.start /\ ni.main_ba + TableBlocks <= w.ba /\ w.ba <= ni.top_ba
    BY <1>4, <2>3, <2>4, Numbers DEF Placed
  <2>6. PlaceInv'
    BY <1>4, <2>2, <2>3, <2>5, InPlace DEF Placed
  <2>7. pc' = "erase" /\ loc.rk \in {"create_map", "update", "load_ok", "rs_erased", "off"}
        /\ loc.rk # "rs_erased"
    BY <1>3, <2>1 DEF CallErase, Locals, RebuildReturn
  <2>8. ChipInv' /\ MapInv' /\ CacheInv' /\ LoadInv'
    BY <1>0, <1>1, <1>2, <2>2, <2>7, ControlStep DEF Starting
  <2>9. WriterInv'
    BY <2>1, <2>7, CallsErase
  <2> QED BY <2>6, <2>8, <2>9 DEF LayInv
<1> QED BY <1>5, <1>6

\* The write of the main table, or the rebuild in its place.
LEMMA WriteMainLayout ==
  ASSUME IndInv, LayInv, pc \notin Starting, ~ni.protected, ni.sig_ba # 0, NEW n \in Instance,
         n.sig_ba = ni.sig_ba, n.block_mapping = ni.block_mapping, n.top_ba = ni.top_ba,
         ~n.protected, n.cache.map = ni.block_mapping \/ (pc \in RangeUser /\ n.cache.map = ni.cache.map),
         Placed(n), n.map_ba <= n.top_ba, NEW limit \in Int, limit <= n.top_ba,
         n.backup_ba # 0 => limit <= n.backup_ba,
         WriteMain(n, limit), UNCHANGED <<cell, oob>>
  PROVE  LayInv'
<1>1. CASE n.main_ba = 0
  <2>1. Rebuild(n)
    BY <1>1 DEF WriteMain
  <2> QED BY <2>1, RebuildLayout
<1>2. CASE n.main_ba # 0
  <2>1. ni' = n /\ CallWrite(n.main_ba, limit, "u_main")
    BY <1>2 DEF WriteMain
  <2>2. pc' = "write" /\ "u_main" \in Writers
    BY <2>1 DEF CallWrite, Writers
  <2>3. ChipInv' /\ MapInv' /\ CacheInv' /\ LoadInv'
    BY <2>1, <2>2, ControlStep DEF Starting
  <2>4. PlaceInv'
    BY <2>1, InPlace
  <2>5. n.main_ba \in Nat /\ MgmtStart <= n.main_ba
    BY DEF Instance, Placed
  <2>6. WriterInv'
    BY <2>1, <2>2, <2>5, CallsWriter
  <2> QED BY <2>3, <2>4, <2>6 DEF LayInv
<1> QED BY <1>1, <1>2

\* nmbm_update_info_table begins a round.
LEMMA UpdateLayout ==
  ASSUME IndInv, LayInv, nmbm_update_info_table PROVE LayInv'
<1>0. pc = "update" /\ UNCHANGED <<cell, oob>>
  BY DEF nmbm_update_info_table, chip
<1>1. pc \notin Starting /\ pc \notin RangeUser /\ pc # "load_failed" /\ ~At("rb_main") /\ ~At("us_backup")
  BY <1>0 DEF Starting, RangeUser, At
<1>2. ni.sig_ba # 0 /\ ni \in Instance /\ loc \in Locals
  BY <1>1, Ready
<1>3. CASE ni.protected \/ ~ni.dirty
  <2>1. pc' = loc.uk /\ ni' = ni /\ loc' = [loc EXCEPT !.ok = TRUE]
    BY <1>0, <1>3 DEF nmbm_update_info_table
  <2>2. pc' \notin RangeUser /\ pc' \notin Starting \ {"off"} /\ ~At("rb_main")' /\ ~At("us_backup")'
    BY <1>2, <2>1 DEF Locals, UpdateReturn, RangeUser, Starting, At
  <2>3. ChipInv' /\ MapInv' /\ CacheInv' /\ LoadInv'
    BY <1>0, <1>1, <1>2, <2>1, <2>2, ControlStep
  <2>4. PlaceInv'
    BY <1>1, <2>1, <2>2 DEF LayInv, PlaceInv, Placed
  <2> QED BY <2>2, <2>3, <2>4, NoWriter DEF LayInv
<1>4. CASE ~(ni.protected \/ ~ni.dirty)
  <2>1. PICK n : /\ n = nmbm_generate_info_table_cache(ni)
                 /\ n.backup_ba = 0 => WriteMain(n, n.top_ba)
                 /\ n.backup_ba # 0 => ni' = n /\ CallWrite(n.backup_ba, n.top_ba, "u_backup")
    BY <1>0, <1>4 DEF nmbm_update_info_table
  <2>2. /\ n \in Instance
        /\ n.sig_ba = ni.sig_ba /\ n.block_mapping = ni.block_mapping
        /\ n.main_ba = ni.main_ba /\ n.backup_ba = ni.backup_ba
        /\ n.map_ba = ni.map_ba /\ n.top_ba = ni.top_ba
    BY <1>2, <2>1, GenerateCache
  <2>3. n.cache.map = ni.block_mapping /\ n.protected = ni.protected
    BY <1>2, <2>1 DEF nmbm_generate_info_table_cache, Instance
  <2>4. Placed(n) /\ n.map_ba <= n.top_ba
    BY <1>1, <1>4, <2>2 DEF LayInv, PlaceInv, Placed
  <2>5. n.top_ba \in Int /\ n.top_ba <= n.top_ba
    BY <2>2 DEF Instance
  <2>6. CASE n.backup_ba = 0
    BY <1>0, <1>1, <1>2, <1>4, <2>1, <2>2, <2>3, <2>4, <2>5, <2>6, WriteMainLayout
  <2>7. CASE n.backup_ba # 0
    <3>1. pc' = "write" /\ "u_backup" \in Writers
      BY <2>1, <2>7 DEF CallWrite, Writers
    <3>2. ChipInv' /\ MapInv' /\ CacheInv' /\ LoadInv'
      BY <1>0, <1>1, <1>2, <1>4, <2>1, <2>2, <2>3, <2>7, <3>1, ControlStep DEF Starting
    <3>3. /\ n.backup_ba \in Nat /\ MgmtStart <= n.backup_ba /\ n.backup_ba <= n.backup_ba
      BY <2>2, <2>4, <2>7, GeometryAssumption DEF Placed, Instance
    <3>4. WriterInv'
      BY <2>1, <2>5, <2>7, <3>1, <3>3, CallsWriter
    <3> QED BY <2>1, <2>4, <2>7, <3>2, <3>4, InPlace DEF LayInv
  <2> QED BY <2>6, <2>7
<1> QED BY <1>3, <1>4

\* The backup table of an update, and on to the main table.
LEMMA UpdateBackupLayout ==
  ASSUME IndInv, LayInv, UpdateBackup PROVE LayInv'
<1>0. pc = "u_backup" /\ UNCHANGED <<cell, oob>>
  BY DEF UpdateBackup, chip
<1>1. pc \in RangeUser /\ pc \in Writers /\ ~At("rb_main") /\ ~At("us_backup")
  BY <1>0 DEF RangeUser, Writers, At
<1>2. pc \notin Starting /\ ~ni.protected /\ ni.sig_ba # 0
  BY <1>1, Running
<1>3. Placed(ni) /\ ni.map_ba <= ni.top_ba
  BY <1>1, PlaceNow
<1>4. ni.backup_ba # 0
  BY <1>0, <1>1 DEF IndInv, FrameInv
<1>5. CASE Written
  <2>1. PICK n : /\ n = [ni EXCEPT !.backup_ba = w.start, !.map_ba = w.ba, !.dirty = FALSE]
                 /\ WriteMain(n, w.start)
    BY <1>0, <1>5 DEF UpdateBackup, nmbm_mark_tables_clean, TableStart, TableEnd
  <2>2. /\ n \in Instance /\ n.sig_ba = ni.sig_ba /\ n.block_mapping = ni.block_mapping
        /\ n.top_ba = ni.top_ba /\ n.cache = ni.cache /\ n.protected = ni.protected
        /\ n.main_ba = ni.main_ba /\ n.map_ba = w.ba /\ n.backup_ba = w.start
    BY <2>1, Numbers DEF Instance
  <2>3. /\ Base(pc) <= w.start /\ w.start + TableBlocks <= w.ba
        /\ w.ba <= w.limit /\ w.limit <= ni.top_ba
    BY <1>1, <1>5, WrittenPlace
  <2>4. Base(pc) = ni.backup_ba
    BY <1>0 DEF Base
  <2>5. /\ ni.main_ba + TableBlocks <= w.start /\ ni.main_ba + TableBlocks <= w.ba
        /\ w.ba <= ni.top_ba /\ w.start <= ni.top_ba /\ w.start \in Int /\ w.start <= w.start
    BY <1>3, <1>4, <2>3, <2>4, Numbers DEF Placed
  <2>6. Placed(n)
    BY <1>3, <2>2, <2>3, <2>5 DEF Placed
  <2> QED BY <1>0, <1>1, <1>2, <2>1, <2>2, <2>5, <2>6, WriteMainLayout
<1>6. CASE ~Written
  <2>1. PICK n : /\ n = [ni EXCEPT !.map_ba = ni.backup_ba, !.backup_ba = 0]
                 /\ WriteMain(n, ni.top_ba)
    BY <1>0, <1>6 DEF UpdateBackup
  <2>2. /\ n \in Instance /\ n.sig_ba = ni.sig_ba /\ n.block_mapping = ni.block_mapping
        /\ n.top_ba = ni.top_ba /\ n.cache = ni.cache /\ n.protected = ni.protected
        /\ n.main_ba = ni.main_ba /\ n.map_ba = ni.backup_ba /\ n.backup_ba = 0
    BY <2>1, Numbers DEF Instance
  <2>3. /\ ni.backup_ba <= ni.top_ba /\ ni.top_ba \in Int /\ ni.top_ba <= ni.top_ba
    BY <1>3, <1>4, Numbers DEF Placed
  <2>4. Placed(n)
    BY <1>3, <1>4, <2>2 DEF Placed
  <2> QED BY <1>0, <1>1, <1>2, <2>1, <2>2, <2>3, <2>4, WriteMainLayout
<1> QED BY <1>5, <1>6

\* The main table of an update: done, or a rebuild, or the rescue begins.
LEMMA UpdateMainLayout ==
  ASSUME IndInv, LayInv, UpdateMain PROVE LayInv'
<1>0. pc = "u_main" /\ UNCHANGED <<cell, oob>>
  BY DEF UpdateMain, chip
<1>1. pc \in RangeUser /\ pc \in Writers /\ ~At("rb_main") /\ ~At("us_backup")
  BY <1>0 DEF RangeUser, Writers, At
<1>2. pc \notin Starting /\ ~ni.protected /\ ni.sig_ba # 0
  BY <1>1, Running
<1>3. Placed(ni) /\ ni.map_ba <= ni.top_ba
  BY <1>1, PlaceNow
<1>4. ASSUME pc' = "update", ni'.sig_ba = ni.sig_ba, ni'.block_mapping = ni.block_mapping,
             ni'.top_ba = ni.top_ba, ni'.protected = ni.protected,
             Placed(ni'), ni'.map_ba <= ni'.top_ba
      PROVE  LayInv'
  <2>1. pc' \notin RangeUser /\ pc' \notin Starting
    BY <1>4 DEF RangeUser, Starting
  <2>2. ChipInv' /\ MapInv' /\ CacheInv' /\ LoadInv'
    BY <1>0, <1>2, <1>4, <2>1, ControlStep
  <2> QED BY <1>4, <2>1, <2>2, NoWriter, InPlace DEF LayInv
<1>5. CASE Written
  <2>1. /\ ni' = [ni EXCEPT !.main_ba = w.start, !.dirty = FALSE,
                            !.map_ba = IF ni.backup_ba = 0 THEN w.ba ELSE ni.map_ba]
        /\ pc' = "update"
    BY <1>0, <1>5 DEF UpdateMain, nmbm_mark_tables_clean, TableStart, TableEnd
  <2>2. /\ ni'.sig_ba = ni.sig_ba /\ ni'.block_mapping = ni.block_mapping
        /\ ni'.top_ba = ni.top_ba /\ ni'.protected = ni.protected
        /\ ni'.main_ba = w.start /\ ni'.backup_ba = ni.backup_ba
        /\ ni'.map_ba = IF ni.backup_ba = 0 THEN w.ba ELSE ni.map_ba
    BY <2>1, Numbers DEF Instance
  <2>3. /\ MgmtStart <= w.start /\ w.start + TableBlocks <= w.ba
        /\ w.ba <= w.limit /\ w.limit <= ni.top_ba /\ w.limit <= Limit(pc)
    BY <1>1, <1>5, WrittenPlace
  <2>4. ni.backup_ba # 0 => Limit(pc) = ni.backup_ba
    BY <1>0 DEF Limit
  <2>5. CASE ni.backup_ba = 0
    <3>1. w.ba <= ni.top_ba
      BY <2>3, Numbers
    <3>2. Placed(ni')
      BY <2>2, <2>3, <2>5 DEF Placed
    <3> QED BY <1>4, <2>1, <2>2, <2>5, <3>1, <3>2
  <2>6. CASE ni.backup_ba # 0
    <3>1. w.start + TableBlocks <= ni.backup_ba /\ w.start + TableBlocks <= ni.map_ba
      BY <1>3, <2>3, <2>4, <2>6, Numbers DEF Placed
    <3>2. Placed(ni')
      BY <1>3, <2>2, <2>3, <2>6, <3>1 DEF Placed
    <3> QED BY <1>3, <1>4, <2>1, <2>2, <2>6, <3>2
  <2> QED BY <2>5, <2>6
<1>6. CASE ~Written /\ ni.backup_ba = 0
  <2>1. Rebuild(ni)
    BY <1>0, <1>6 DEF UpdateMain
  <2> QED BY <1>0, <1>1, <1>2, <2>1, Numbers, RebuildLayout
<1>7. CASE ~Written /\ ni.backup_ba # 0
  <2>1. \/ ni' = BackupBecomesMain(ni) /\ pc' = "update"
        \/ \E write_ba \in Reserve(ni, ni.map_ba) : CallWrite(write_ba, ni.top_ba, "rm_tmp") /\ ni' = ni
    BY <1>0, <1>7 DEF UpdateMain
  <2>2. CASE ni' = BackupBecomesMain(ni) /\ pc' = "update"
    <3>1. /\ ni'.sig_ba = ni.sig_ba /\ ni'.block_mapping = ni.block_mapping
          /\ ni'.top_ba = ni.top_ba /\ ni'.protected = ni.protected /\ ni'.map_ba = ni.map_ba
          /\ ni'.main_ba = ni.backup_ba /\ ni'.backup_ba = 0
      BY <2>2, Numbers DEF BackupBecomesMain, Instance
    <3>2. MgmtStart <= ni.backup_ba
      BY <1>3, <1>7, Numbers DEF Placed
    <3>3. Placed(ni')
      BY <1>3, <1>7, <3>1, <3>2 DEF Placed
    <3> QED BY <1>3, <1>4, <2>2, <3>1, <3>3
  <2>3. ASSUME NEW write_ba \in Reserve(ni, ni.map_ba),
               CallWrite(write_ba, ni.top_ba, "rm_tmp"), ni' = ni
        PROVE  LayInv'
    <3>1. pc' = "write" /\ "rm_tmp" \in Writers
      BY <2>3 DEF CallWrite, Writers
    <3>2. write_ba \in Nat /\ ni.map_ba <= write_ba
      BY Numbers, ReserveRange
    <3>3. MgmtStart <= write_ba /\ ni.top_ba \in Int /\ ni.top_ba <= ni.top_ba
      BY <1>3, <3>2, Numbers DEF Placed
    <3>4. ChipInv' /\ MapInv' /\ CacheInv' /\ LoadInv'
      BY <1>0, <1>1, <1>2, <2>3, <3>1, ControlStep DEF Starting
    <3>5. WriterInv'
      BY <1>7, <2>3, <3>1, <3>2, <3>3, CallsWriter
    <3> QED BY <1>3, <2>3, <3>4, <3>5, InPlace DEF LayInv
  <2> QED BY <2>1, <2>2, <2>3
<1> QED BY <1>5, <1>6, <1>7

\* The temporary table of nmbm_rescue_main_info_table.
LEMMA RescueTmpLayout ==
  ASSUME IndInv, LayInv, RescueTmp PROVE LayInv'
<1>0. pc = "rm_tmp" /\ UNCHANGED <<cell, oob>>
  BY DEF RescueTmp, chip
<1>1. pc \in RangeUser /\ pc \in Writers /\ ~At("rb_main") /\ ~At("us_backup") /\ At("rm_tmp")
  BY <1>0 DEF RangeUser, Writers, At
<1>2. pc \notin Starting /\ ~ni.protected /\ ni.sig_ba # 0
  BY <1>1, Running
<1>3. Placed(ni) /\ ni.map_ba <= ni.top_ba /\ ni.backup_ba # 0
  BY <1>1, PlaceNow DEF LayInv, WriterInv
<1>4. CASE Written
  <2>1. /\ ni' = [ni EXCEPT !.map_ba = w.ba] /\ loc' = [loc EXCEPT !.start = w.start]
        /\ CallWrite(MgmtStart, w.start, "rm_main")
    BY <1>0, <1>4 DEF RescueTmp, TableStart, TableEnd
  <2>2. /\ ni'.sig_ba = ni.sig_ba /\ ni'.block_mapping = ni.block_mapping
        /\ ni'.top_ba = ni.top_ba /\ ni'.cache = ni.cache /\ ni'.protected = ni.protected
        /\ ni'.main_ba = ni.main_ba /\ ni'.map_ba = w.ba /\ ni'.backup_ba = ni.backup_ba
        /\ loc'.start = w.start
    BY <2>1, Numbers DEF Instance, Locals
  <2>3. /\ Base(pc) <= w.start /\ MgmtStart <= w.start /\ w.start + TableBlocks <= w.ba
        /\ w.ba <= w.limit /\ w.limit <= ni.top_ba
    BY <1>1, <1>4, WrittenPlace
  <2>4. Base(pc) = ni.map_ba
    BY <1>0 DEF Base
  <2>5. /\ ni.map_ba <= w.ba /\ w.ba <= ni.top_ba /\ w.start <= ni.top_ba
        /\ w.start \in Int /\ w.start <= w.start /\ MgmtStart <= MgmtStart /\ MgmtStart \in Nat
    BY <2>3, <2>4, Numbers
  <2>6. Placed(ni')
    BY <1>3, <2>2, <2>5, Numbers DEF Placed
  <2>7. pc' = "write" /\ "rm_main" \in Writers
    BY <2>1 DEF CallWrite, Writers
  <2>8. ChipInv' /\ MapInv' /\ CacheInv' /\ LoadInv'
    BY <1>0, <1>1, <1>2, <2>2, <2>7, ControlStep DEF Starting
  <2>9. WriterInv'
    BY <2>1, <2>2, <2>3, <2>5, <2>7, CallsWriter
  <2> QED BY <2>2, <2>5, <2>6, <2>8, <2>9, InPlace DEF LayInv
<1>5. CASE ~Written /\ loc.ba > ni.map_ba
  <2>1. ni' = ni /\ CallWrite(loc.ba - 1, ni.top_ba, "rm_tmp")
    BY <1>0, <1>5, Numbers DEF RescueTmp
  <2>2. PICK a \in Nat : a = loc.ba - 1 /\ ni.map_ba <= a
    BY <1>5, Numbers
  <2>3. MgmtStart <= a /\ ni.top_ba \in Int /\ ni.top_ba <= ni.top_ba
    BY <1>3, <2>2, Numbers DEF Placed
  <2>4. pc' = "write" /\ "rm_tmp" \in Writers /\ CallWrite(a, ni.top_ba, "rm_tmp")
    BY <2>1, <2>2 DEF CallWrite, Writers
  <2>5. ChipInv' /\ MapInv' /\ CacheInv' /\ LoadInv'
    BY <1>0, <1>1, <1>2, <2>1, <2>4, ControlStep DEF Starting
  <2>6. WriterInv'
    BY <1>3, <2>1, <2>2, <2>3, <2>4, CallsWriter
  <2> QED BY <1>3, <2>1, <2>5, <2>6, InPlace DEF LayInv
<1>6. CASE ~Written /\ ~(loc.ba > ni.map_ba)
  <2>1. ni' = BackupBecomesMain(ni) /\ pc' = "update"
    BY <1>0, <1>6, Numbers DEF RescueTmp
  <2>2. /\ ni'.sig_ba = ni.sig_ba /\ ni'.block_mapping = ni.block_mapping
        /\ ni'.top_ba = ni.top_ba /\ ni'.protected = ni.protected /\ ni'.map_ba = ni.map_ba
        /\ ni'.main_ba = ni.backup_ba /\ ni'.backup_ba = 0
    BY <2>1, Numbers DEF BackupBecomesMain, Instance
  <2>3. Placed(ni')
    BY <1>3, <2>2, Numbers DEF Placed
  <2>4. pc' \notin RangeUser /\ pc' \notin Starting
    BY <2>1 DEF RangeUser, Starting
  <2>5. ChipInv' /\ MapInv' /\ CacheInv' /\ LoadInv'
    BY <1>0, <1>2, <2>2, <2>4, ControlStep
  <2> QED BY <1>3, <2>2, <2>3, <2>4, <2>5, NoWriter, InPlace DEF LayInv
<1> QED BY <1>4, <1>5, <1>6

\* The main table of nmbm_rescue_main_info_table.
LEMMA RescueMainLayout ==
  ASSUME IndInv, LayInv, RescueMain PROVE LayInv'
<1>0. pc = "rm_main" /\ pc' = "update" /\ UNCHANGED <<cell, oob>>
  BY DEF RescueMain, chip
<1>1. /\ pc \in RangeUser /\ pc \in Writers /\ ~At("rb_main") /\ ~At("us_backup") /\ At("rm_main")
      /\ pc' \notin RangeUser /\ pc' \notin Starting
  BY <1>0 DEF RangeUser, Writers, At, Starting
<1>2. pc \notin Starting /\ ~ni.protected /\ ni.sig_ba # 0
  BY <1>1, Running
<1>3. /\ Placed(ni) /\ ni.map_ba <= ni.top_ba
      /\ MgmtStart <= loc.start /\ loc.start + TableBlocks <= ni.map_ba
  BY <1>1, PlaceNow DEF LayInv, WriterInv
<1>4. /\ ni'.sig_ba = ni.sig_ba /\ ni'.block_mapping = ni.block_mapping
      /\ ni'.top_ba = ni.top_ba /\ ni'.protected = ni.protected /\ ni'.map_ba = ni.map_ba
  BY Numbers DEF RescueMain, nmbm_mark_tables_clean, Instance
<1>5. Placed(ni')
  <2>1. CASE Written
    <3>1. ni'.main_ba = w.start /\ ni'.backup_ba = loc.start
      BY <2>1, Numbers DEF RescueMain, nmbm_mark_tables_clean, Instance, TableStart
    <3>2. MgmtStart <= w.start /\ w.start + TableBlocks <= w.ba /\ w.ba <= w.limit /\ w.limit <= Limit(pc)
      BY <1>1, <2>1, WrittenPlace
    <3>3. Limit(pc) = loc.start
      BY <1>0 DEF Limit
    <3>4. w.start + TableBlocks <= loc.start /\ w.start + TableBlocks <= ni.map_ba
      BY <1>3, <3>2, <3>3, Numbers
    <3> QED BY <1>3, <1>4, <3>1, <3>2, <3>4 DEF Placed
  <2>2. CASE ~Written
    <3>1. ni'.main_ba = loc.start /\ ni'.backup_ba = 0
      BY <2>2, Numbers DEF RescueMain, nmbm_mark_tables_clean, Instance
    <3> QED BY <1>3, <1>4, <3>1 DEF Placed
  <2> QED BY <2>1, <2>2
<1>6. ChipInv' /\ MapInv' /\ CacheInv' /\ LoadInv'
  BY <1>0, <1>1, <1>2, <1>4, ControlStep
<1> QED BY <1>1, <1>3, <1>4, <1>5, <1>6, NoWriter, InPlace DEF LayInv

-----------------------------------------------------------------------------
(* One lemma per action: the repairs at load.                              *)

\* nmbm_update_single_info_table after its write.
LEMMA UpdateSingleLayout ==
  ASSUME IndInv, LayInv, UpdateSingle PROVE LayInv'
<1>0. pc \in {"us_main", "us_backup"} /\ UNCHANGED <<cell, oob>>
  BY DEF UpdateSingle, chip
<1>1. pc \in RangeUser /\ pc \in Writers /\ ~At("rb_main") /\ (pc = "us_main" => ~At("us_backup"))
  BY <1>0 DEF RangeUser, Writers, At
<1>2. pc \notin Starting /\ ~ni.protected /\ ni.sig_ba # 0
  BY <1>1, Running
<1>3. Placed(ni) /\ (pc = "us_main" => ni.map_ba <= ni.top_ba)
  BY <1>0, <1>1, <1>2 DEF LayInv, PlaceInv
<1>4. ni.backup_ba # 0
  BY <1>0, <1>1 DEF IndInv, FrameInv, LayInv, WriterInv, At
<1>5. CASE pc = "us_main" /\ Written
  <2>1. ni' = [ni EXCEPT !.main_ba = w.start, !.dirty = FALSE] /\ pc' = "load_ok"
    BY <1>5 DEF UpdateSingle, nmbm_mark_tables_clean, TableStart
  <2>2. /\ ni'.sig_ba = ni.sig_ba /\ ni'.block_mapping = ni.block_mapping
        /\ ni'.top_ba = ni.top_ba /\ ni'.protected = ni.protected /\ ni'.map_ba = ni.map_ba
        /\ ni'.main_ba = w.start /\ ni'.backup_ba = ni.backup_ba
    BY <2>1, Numbers DEF Instance
  <2>3. /\ MgmtStart <= w.start /\ w.start + TableBlocks <= w.ba
        /\ w.ba <= w.limit /\ w.limit <= Limit(pc)
    BY <1>1, <1>5, WrittenPlace
  <2>4. Limit(pc) = ni.backup_ba
    BY <1>5 DEF Limit
  <2>5. w.start + TableBlocks <= ni.backup_ba /\ w.start + TableBlocks <= ni.map_ba
    BY <1>3, <1>4, <2>3, <2>4, Numbers DEF Placed
  <2>6. Placed(ni')
    BY <1>3, <1>4, <2>2, <2>3, <2>5 DEF Placed
  <2>7. pc' \notin RangeUser /\ pc' \notin Starting
    BY <2>1 DEF RangeUser, Starting
  <2>8. ChipInv' /\ MapInv' /\ CacheInv' /\ LoadInv'
    BY <1>0, <1>2, <2>2, <2>7, ControlStep
  <2> QED BY <1>3, <1>5, <2>2, <2>6, <2>7, <2>8, NoWriter, InPlace DEF LayInv
<1>6. CASE pc = "us_main" /\ ~Written
  <2>1. ni' = BackupBecomesMain(ni) /\ CallWrite(MgmtStart, ni.backup_ba, "rs_front")
    BY <1>6 DEF UpdateSingle
  <2>2. /\ ni'.sig_ba = ni.sig_ba /\ ni'.block_mapping = ni.block_mapping /\ ni'.cache = ni.cache
        /\ ni'.top_ba = ni.top_ba /\ ni'.protected = ni.protected /\ ni'.map_ba = ni.map_ba
        /\ ni'.main_ba = ni.backup_ba /\ ni'.backup_ba = 0
    BY <2>1, Numbers DEF BackupBecomesMain, Instance
  <2>3. /\ MgmtStart <= ni.backup_ba /\ ni.backup_ba <= ni.top_ba /\ ni.backup_ba \in Int
        /\ ni.backup_ba <= ni.backup_ba /\ MgmtStart \in Nat /\ MgmtStart <= MgmtStart
    BY <1>3, <1>4, <1>6, Numbers DEF Placed
  <2>4. Placed(ni')
    BY <1>3, <1>4, <2>2, <2>3 DEF Placed
  <2>5. pc' = "write" /\ "rs_front" \in Writers
    BY <2>1 DEF CallWrite, Writers
  <2>6. ChipInv' /\ MapInv' /\ CacheInv' /\ LoadInv'
    BY <1>0, <1>1, <1>2, <2>2, <2>5, ControlStep DEF Starting
  <2>7. WriterInv'
    BY <2>1, <2>2, <2>3, <2>5, CallsWriter
  <2> QED BY <1>3, <1>6, <2>2, <2>4, <2>6, <2>7, InPlace DEF LayInv
<1>7. CASE pc = "us_backup" /\ Written
  <2>1. /\ ni' = [ni EXCEPT !.backup_ba = w.start, !.map_ba = w.ba, !.dirty = FALSE]
        /\ pc' = "load_ok"
    BY <1>7 DEF UpdateSingle, nmbm_mark_tables_clean, TableStart, TableEnd
  <2>2. /\ ni'.sig_ba = ni.sig_ba /\ ni'.block_mapping = ni.block_mapping
        /\ ni'.top_ba = ni.top_ba /\ ni'.protected = ni.protected /\ ni'.map_ba = w.ba
        /\ ni'.main_ba = ni.main_ba /\ ni'.backup_ba = w.start
    BY <2>1, Numbers DEF Instance
  <2>3. /\ Base(pc) <= w.start /\ w.start + TableBlocks <= w.ba
        /\ w.ba <= w.limit /\ w.limit <= ni.top_ba
    BY <1>1, <1>7, WrittenPlace
  <2>4. Base(pc) = ni.backup_ba
    BY <1>7 DEF Base
  <2>5. /\ ni.main_ba + TableBlocks <= w.start /\ ni.main_ba + TableBlocks <= w.ba
        /\ w.ba <= ni.top_ba
    BY <1>3, <1>4, <2>3, <2>4, Numbers DEF Placed
  <2>6. Placed(ni')
    BY <1>3, <2>2, <2>3, <2>5 DEF Placed
  <2>7. pc' \notin RangeUser /\ pc' \notin Starting
    BY <2>1 DEF RangeUser, Starting
  <2>8. ChipInv' /\ MapInv' /\ CacheInv' /\ LoadInv'
    BY <1>0, <1>2, <2>2, <2>7, ControlStep
  <2> QED BY <2>2, <2>5, <2>6, <2>7, <2>8, NoWriter, InPlace DEF LayInv
<1>8. CASE pc = "us_backup" /\ ~Written
  <2>1. ni' = [ni EXCEPT !.map_ba = ni.backup_ba, !.backup_ba = 0] /\ pc' = "load_failed"
    BY <1>8 DEF UpdateSingle
  <2>2. /\ ni'.sig_ba = ni.sig_ba /\ ni'.block_mapping = ni.block_mapping
        /\ ni'.top_ba = ni.top_ba /\ ni'.protected = ni.protected
    BY <2>1, Numbers DEF Instance
  <2>3. pc' \notin RangeUser /\ pc' \notin Starting
    BY <2>1 DEF RangeUser, Starting
  <2>4. ChipInv' /\ MapInv' /\ CacheInv' /\ LoadInv'
    BY <1>0, <1>2, <2>2, <2>3, ControlStep
  <2>5. PlaceInv'
    BY <2>1 DEF PlaceInv
  <2> QED BY <2>3, <2>4, <2>5, NoWriter DEF LayInv
<1> QED BY <1>0, <1>5, <1>6, <1>7, <1>8

\* The failure of a repair, which leads to protection.
LEMMA RepairFails ==
  ASSUME IndInv, LayInv, pc \in RangeUser, pc' = "load_failed", ni' = ni, UNCHANGED <<cell, oob>>
  PROVE  LayInv'
<1>1. pc \notin Starting /\ ~ni.protected /\ ni.sig_ba # 0
  BY Running
<1>2. pc' \notin RangeUser /\ pc' \notin Starting
  BY DEF RangeUser, Starting
<1>3. ChipInv' /\ MapInv' /\ CacheInv' /\ LoadInv'
  BY <1>1, <1>2, ControlStep
<1>4. PlaceInv'
  BY DEF PlaceInv
<1> QED BY <1>2, <1>3, <1>4, NoWriter DEF LayInv

\* nmbm_rescue_single_info_table after its write in front of the only table.
LEMMA RescueFrontLayout ==
  ASSUME IndInv, LayInv, RescueFront PROVE LayInv'
<1>0. pc = "rs_front" /\ UNCHANGED <<cell, oob>>
  BY DEF RescueFront, chip
<1>1. /\ pc \in RangeUser /\ pc \in Writers /\ ~At("rb_main") /\ ~At("us_backup") /\ At("rs_front")
  BY <1>0 DEF RangeUser, Writers, At
<1>2. pc \notin Starting /\ ~ni.protected /\ ni.sig_ba # 0
  BY <1>1, Running
<1>3. Placed(ni) /\ ni.map_ba <= ni.top_ba /\ ni.backup_ba = 0
  BY <1>1, PlaceNow DEF LayInv, WriterInv
<1>4. CASE Written
  <2>1. /\ ni' = [ni EXCEPT !.backup_ba = ni.main_ba, !.main_ba = w.start, !.dirty = FALSE]
        /\ CallErase(w.ba, ni.main_ba, "load_ok")
    BY <1>0, <1>4 DEF RescueFront, nmbm_mark_tables_clean, TableStart, TableEnd
  <2>2. /\ ni'.sig_ba = ni.sig_ba /\ ni'.block_mapping = ni.block_mapping /\ ni'.cache = ni.cache
        /\ ni'.top_ba = ni.top_ba /\ ni'.protected = ni.protected /\ ni'.map_ba = ni.map_ba
        /\ ni'.main_ba = w.start /\ ni'.backup_ba = ni.main_ba
    BY <2>1, Numbers DEF Instance
  <2>3. /\ MgmtStart <= w.start /\ w.start + TableBlocks <= w.ba
        /\ w.ba <= w.limit /\ w.limit <= Limit(pc)
    BY <1>1, <1>4, WrittenPlace
  <2>4. Limit(pc) = ni.main_ba
    BY <1>0 DEF Limit
  <2>5. w.start + TableBlocks <= ni.main_ba /\ w.start + TableBlocks <= ni.map_ba
    BY <1>3, <2>3, <2>4, Numbers DEF Placed
  <2>6. Placed(ni')
    BY <1>3, <2>2, <2>3, <2>5 DEF Placed
  <2>7. pc' = "erase"
    BY <2>1 DEF CallErase
  <2>8. ChipInv' /\ MapInv' /\ CacheInv' /\ LoadInv'
    BY <1>0, <1>1, <1>2, <2>2, <2>7, ControlStep DEF Starting
  <2>9. WriterInv'
    BY <2>1, CallsErase
  <2> QED BY <1>3, <2>2, <2>6, <2>8, <2>9, InPlace DEF LayInv
<1>5. CASE ~Written
  <2>1. \/ pc' = "load_failed" /\ ni' = ni
        \/ \E write_ba \in Reserve(ni, ni.map_ba) : CallWrite(write_ba, ni.top_ba, "rs_next") /\ ni' = ni
    BY <1>0, <1>5 DEF RescueFront
  <2>2. CASE pc' = "load_failed" /\ ni' = ni
    BY <1>0, <1>1, <2>2, RepairFails
  <2>3. ASSUME NEW write_ba \in Reserve(ni, ni.map_ba),
               CallWrite(write_ba, ni.top_ba, "rs_next"), ni' = ni
        PROVE  LayInv'
    <3>1. pc' = "write" /\ "rs_next" \in Writers
      BY <2>3 DEF CallWrite, Writers
    <3>2. write_ba \in Nat /\ ni.map_ba <= write_ba
      BY Numbers, ReserveRange
    <3>3. MgmtStart <= write_ba /\ ni.top_ba \in Int /\ ni.top_ba <= ni.top_ba
      BY <1>3, <3>2, Numbers DEF Placed
    <3>4. ChipInv' /\ MapInv' /\ CacheInv' /\ LoadInv'
      BY <1>0, <1>1, <1>2, <2>3, <3>1, ControlStep DEF Starting
    <3>5. WriterInv'
      BY <2>3, <3>1, <3>2, <3>3, CallsWriter
    <3> QED BY <1>3, <2>3, <3>4, <3>5, InPlace DEF LayInv
  <2> QED BY <2>1, <2>2, <2>3
<1> QED BY <1>4, <1>5

\* ... and after each attempt to write next to it.
LEMMA RescueNextLayout ==
  ASSUME IndInv, LayInv, RescueNext PROVE LayInv'
<1>0. pc \in {"rs_next", "rs_erased"} /\ UNCHANGED <<cell, oob>>
  BY DEF RescueNext, chip
<1>1. pc \in RangeUser /\ ~At("rb_main") /\ ~At("us_backup")
  BY <1>0 DEF RangeUser, At
<1>2. pc \notin Starting /\ ~ni.protected /\ ni.sig_ba # 0
  BY <1>1, Running
<1>3. Placed(ni) /\ ni.map_ba <= ni.top_ba
  BY <1>1, PlaceNow
<1>4. CASE pc = "rs_next" /\ Written
  <2>1. /\ loc' = [loc EXCEPT !.start = w.start, !.end = w.ba] /\ ni' = ni
        /\ CallErase(ni.map_ba, w.start, "rs_erased")
    BY <1>4 DEF RescueNext, TableStart, TableEnd
  <2>2. loc'.start = w.start /\ loc'.end = w.ba
    BY <2>1, Numbers DEF Locals
  <2>3. pc \in Writers /\ Base(pc) = ni.map_ba
    BY <1>4 DEF Writers, Base
  <2>4. /\ ni.map_ba <= w.start /\ w.start + TableBlocks <= w.ba
        /\ w.ba <= w.limit /\ w.limit <= ni.top_ba
    BY <1>4, <2>3, WrittenPlace
  <2>5. w.ba <= ni.top_ba
    BY <2>4, Numbers
  <2>6. pc' = "erase"
    BY <2>1 DEF CallErase
  <2>7. ChipInv' /\ MapInv' /\ CacheInv' /\ LoadInv'
    BY <1>0, <1>1, <1>2, <2>1, <2>6, ControlStep DEF Starting
  <2>8. WriterInv'
    BY <2>1, <2>2, <2>4, <2>5, CallsErase
  <2> QED BY <1>3, <2>1, <2>7, <2>8, InPlace DEF LayInv
<1>5. CASE pc = "rs_next" /\ ~Written /\ loc.ba > ni.map_ba
  <2>1. ni' = ni /\ CallWrite(loc.ba - 1, ni.top_ba, "rs_next")
    BY <1>5, Numbers DEF RescueNext
  <2>2. PICK a \in Nat : a = loc.ba - 1 /\ ni.map_ba <= a
    BY <1>5, Numbers
  <2>3. MgmtStart <= a /\ ni.top_ba \in Int /\ ni.top_ba <= ni.top_ba
    BY <1>3, <2>2, Numbers DEF Placed
  <2>4. pc' = "write" /\ "rs_next" \in Writers /\ CallWrite(a, ni.top_ba, "rs_next")
    BY <2>1, <2>2 DEF CallWrite, Writers
  <2>5. ChipInv' /\ MapInv' /\ CacheInv' /\ LoadInv'
    BY <1>0, <1>1, <1>2, <2>1, <2>4, ControlStep DEF Starting
  <2>6. WriterInv'
    BY <2>1, <2>2, <2>3, <2>4, CallsWriter
  <2> QED BY <1>3, <2>1, <2>5, <2>6, InPlace DEF LayInv
<1>6. CASE pc = "rs_next" /\ ~Written /\ ~(loc.ba > ni.map_ba)
  <2>1. pc' = "load_failed" /\ ni' = ni
    BY <1>6, Numbers DEF RescueNext
  <2> QED BY <1>0, <1>1, <2>1, RepairFails
<1>7. CASE pc = "rs_erased"
  <2>1. /\ ni' = [ni EXCEPT !.backup_ba = loc.start, !.map_ba = loc.end, !.dirty = FALSE]
        /\ pc' = "load_ok"
    BY <1>7 DEF RescueNext, nmbm_mark_tables_clean
  <2>2. /\ ni'.sig_ba = ni.sig_ba /\ ni'.block_mapping = ni.block_mapping
        /\ ni'.top_ba = ni.top_ba /\ ni'.protected = ni.protected /\ ni'.map_ba = loc.end
        /\ ni'.main_ba = ni.main_ba /\ ni'.backup_ba = loc.start
    BY <2>1, Numbers DEF Instance
  <2>3. ni.map_ba <= loc.start /\ loc.start + TableBlocks <= loc.end /\ loc.end <= ni.top_ba
    BY <1>7 DEF LayInv, WriterInv, At
  <2>4. ni.main_ba + TableBlocks <= loc.start /\ ni.main_ba + TableBlocks <= loc.end
    BY <1>3, <2>3, Numbers DEF Placed
  <2>5. Placed(ni')
    BY <1>3, <2>2, <2>3, <2>4 DEF Placed
  <2>6. pc' \notin RangeUser /\ pc' \notin Starting
    BY <2>1 DEF RangeUser, Starting
  <2>7. ChipInv' /\ MapInv' /\ CacheInv' /\ LoadInv'
    BY <1>0, <1>2, <2>2, <2>6, ControlStep
  <2> QED BY <2>2, <2>3, <2>5, <2>6, <2>7, NoWriter, InPlace DEF LayInv
<1> QED BY <1>0, <1>4, <1>5, <1>6, <1>7

\* The end of a load: a failed repair protects the instance.
LEMMA LoadDoneLayout ==
  ASSUME IndInv, LayInv, LoadDone PROVE LayInv'
<1>0. /\ pc \in {"load_ok", "load_failed"} /\ pc' = "done" /\ UNCHANGED <<cell, oob>>
      /\ ni' = [ni EXCEPT !.protected = @ \/ ni.map_ba = ni.top_ba \/ pc = "load_failed"]
  BY DEF LoadDone, chip
<1>1. /\ pc \notin Starting /\ pc \notin RangeUser /\ ~At("rb_main") /\ ~At("us_backup")
      /\ pc' \notin Starting /\ pc' \notin RangeUser
  BY <1>0 DEF Starting, RangeUser, At
<1>2. ni.sig_ba # 0 /\ ni \in Instance
  BY <1>1, Ready
<1>3. /\ ni'.sig_ba = ni.sig_ba /\ ni'.block_mapping = ni.block_mapping
      /\ ni'.top_ba = ni.top_ba /\ ni'.map_ba = ni.map_ba
      /\ ni'.main_ba = ni.main_ba /\ ni'.backup_ba = ni.backup_ba
      /\ (ni.protected => ni'.protected) /\ (pc = "load_failed" => ni'.protected)
  BY <1>0, <1>2 DEF Instance
<1>4. ChipInv' /\ MapInv' /\ CacheInv' /\ LoadInv'
  BY <1>0, <1>1, <1>2, <1>3, ControlStep
<1>5. PlaceInv'
  BY <1>0, <1>1, <1>3 DEF LayInv, PlaceInv, Placed
<1> QED BY <1>1, <1>4, <1>5, NoWriter DEF LayInv

-----------------------------------------------------------------------------
(* One lemma per action: the operations on logic blocks.                   *)

\* A step of an operation, outside the tables: it touches blocks below the
\* signature only, writes no table, and maps no further block.
LEMMA OperationStep ==
  ASSUME IndInv, LayInv, pc \notin Starting, pc \notin RangeUser, pc # "load_failed",
         pc' \notin RangeUser, pc' \notin Starting \ {"off"}, ni.sig_ba # 0,
         \A b \in Blocks : ni.sig_ba <= b =>
           cell'[b] = cell[b] /\ (b \in oob' <=> b \in oob),
         \A b \in Blocks : cell'[b].k = "table" => cell'[b] = cell[b],
         ni'.sig_ba = ni.sig_ba, ni'.top_ba = ni.top_ba, ni'.map_ba = ni.map_ba,
         ni'.main_ba = ni.main_ba, ni'.backup_ba = ni.backup_ba,
         ni'.protected = ni.protected,
         Below(ni'.block_mapping, ni.sig_ba), Apart(ni'.block_mapping),
         Above(ni.block_mapping, ni.top_ba) => Above(ni'.block_mapping, ni.top_ba)
  PROVE  LayInv'
<1>1. /\ ni.sig_ba \in Found'
      /\ \A b \in Blocks : cell'[b].k = "table" => OnChip(b, cell'[b].t, Found')
  BY ChipKept DEF IndInv, LayInv
<1>2. pc' \notin {"sig_erase", "sig_program", "search1", "search2", "loaded", "create"}
  BY DEF Starting
<1>3. ChipInv'
  BY <1>1, <1>2 DEF ChipInv
<1>4. MapInv' /\ CacheInv' /\ LoadInv'
  BY <1>2 DEF LayInv, MapInv, CacheInv, LoadInv, Starting
<1>5. ~At("rb_main") /\ ~At("us_backup") /\ ~At("rb_main")' /\ ~At("us_backup")'
  BY DEF At, RangeUser
<1>6. PlaceInv'
  BY <1>5 DEF LayInv, PlaceInv, Placed, Starting
<1> QED BY <1>3, <1>4, <1>6, NoWriter DEF LayInv

\* A step that leaves the chip and the instance, but for the block states and
\* the number of data blocks.
LEMMA PlainStep ==
  ASSUME IndInv, LayInv, pc \notin Starting, pc \notin RangeUser, pc # "load_failed",
         pc' \notin RangeUser, pc' \notin Starting \ {"off"},
         UNCHANGED <<cell, oob>>,
         ni'.sig_ba = ni.sig_ba, ni'.top_ba = ni.top_ba, ni'.map_ba = ni.map_ba,
         ni'.main_ba = ni.main_ba, ni'.backup_ba = ni.backup_ba,
         ni'.protected = ni.protected, ni'.block_mapping = ni.block_mapping
  PROVE  LayInv'
<1>1. ni.sig_ba # 0
  BY Ready
<1>2. Below(ni.block_mapping, ni.sig_ba) /\ Apart(ni.block_mapping)
  BY <1>1 DEF LayInv, MapInv
<1> QED BY <1>1, <1>2, OperationStep

\* The walk down from the top ends at the top if that block is good.
LEMMA WalkFromTop ==
  ASSUME NEW bs, NEW top \in Int, NEW limit \in Int, bs[top] = BLOCK_ST_GOOD,
         NEW pb \in nmbm_block_walk_desc(bs, top, 0, limit)
  PROVE  pb = top /\ limit < top
<1> DEFINE good == GoodIn(bs, limit + 1 .. top)
           higher == {c \in good : c > pb}
<1>1. pb \in good /\ Cardinality(higher) = 0
  BY DEF nmbm_block_walk_desc
<1>2. pb \in limit + 1 .. top
  BY <1>1 DEF GoodIn
<1>3. IsFiniteSet(higher)
  <2>1. IsFiniteSet(limit + 1 .. top) /\ higher \in SUBSET (limit + 1 .. top)
    BY FS_Interval DEF GoodIn
  <2> QED BY <2>1, FS_Subset
<1>4. higher = {}
  BY <1>1, <1>3, FS_EmptySet
<1>5. top \in good
  BY <1>2 DEF GoodIn
<1>6. ~(top > pb)
  BY <1>4, <1>5
<1> QED BY <1>2, <1>6

\* nmbm_map_block takes the highest spare block, if it is good.
LEMMA MapBlockLayout ==
  ASSUME IndInv, LayInv, TopIsGood, nmbm_map_block PROVE LayInv'
<1>0. pc = "map" /\ UNCHANGED <<cell, oob>>
  BY DEF nmbm_map_block, chip
<1>1. /\ pc \notin Starting /\ pc \notin RangeUser /\ pc # "load_failed"
      /\ ~At("rb_main") /\ ~At("us_backup")
  BY <1>0 DEF Starting, RangeUser, At
<1>2. ni.sig_ba # 0 /\ ni \in Instance /\ loc \in Locals /\ Keeps(ni, loc)
  BY <1>1, Ready
<1>3. loc.mk \in MapReturn
  BY <1>2 DEF Locals
<1>4. CASE ni' = ni /\ pc' \in {loc.mk, "update"}
  <2>1. pc' \notin RangeUser /\ pc' \notin Starting \ {"off"}
    BY <1>3, <1>4 DEF MapReturn, RangeUser, Starting
  <2> QED BY <1>0, <1>1, <1>4, <2>1, PlainStep
<1>5. ASSUME NEW pb \in nmbm_block_walk_desc(ni.block_state, ni.top_ba, 0, ni.map_ba),
             ni' = [ni EXCEPT !.block_mapping[loc.lb] = pb, !.top_ba = @ - 1, !.dirty = TRUE],
             pc' = loc.mk
      PROVE  LayInv'
  <2>1. pb \in ni.map_ba + 1 .. ni.top_ba
    BY WalkRange
  <2>2. ni.block_state[ni.top_ba] = BLOCK_ST_GOOD
    BY <1>0, <2>1, Numbers DEF TopIsGood, Good
  <2>3. pb = ni.top_ba /\ ni.map_ba < ni.top_ba
    BY <2>2, Numbers, WalkFromTop
  <2>4. PICK m : m = [ni.block_mapping EXCEPT ![loc.lb] = pb]
    OBVIOUS
  <2>5. /\ ni'.block_mapping = m /\ ni'.top_ba = ni.top_ba - 1
        /\ ni'.sig_ba = ni.sig_ba /\ ni'.map_ba = ni.map_ba
        /\ ni'.main_ba = ni.main_ba /\ ni'.backup_ba = ni.backup_ba
        /\ ni'.protected = ni.protected
    BY <1>2, <1>5, <2>4 DEF Instance
  <2>6. ni.block_mapping \in Mapping /\ loc.lb \in LBlocks
    BY <1>2 DEF Instance, Locals
  <2>7. Above(ni.block_mapping, ni.top_ba)
    BY <1>1, <2>3, Numbers DEF LayInv, MapInv
  <2>8. ni.top_ba \in Int /\ MgmtStart <= ni.top_ba /\ ni.top_ba < ni.sig_ba
    BY <1>2, AreaNat DEF Keeps, SparesIn
  <2>9. \A lb \in LBlocks : ni.block_mapping[lb] \in Int
    BY <2>6, MapNumbers
  <2>10. \A lb \in LBlocks : m[lb] = IF lb = loc.lb THEN ni.top_ba ELSE ni.block_mapping[lb]
    BY <2>3, <2>4, <2>6 DEF Mapping
  <2>11. Above(m, ni.top_ba - 1)
    BY <2>7, <2>8, <2>9, <2>10, GeometryAssumption DEF Above
  <2>12. Below(m, ni.sig_ba)
    BY <1>2, <2>8, <2>10 DEF Below, LayInv, MapInv
  <2>13. \A a \in LBlocks : ni.block_mapping[a] # pb
    BY <2>3, <2>7, <2>8, <2>9, GeometryAssumption DEF Above
  <2>14. Apart(m)
    BY <2>4, <2>6, <2>13, ApartExcept DEF LayInv, MapInv
  <2>15. pc' \notin RangeUser /\ pc' \notin Starting \ {"off"} /\ ~At("rb_main")' /\ ~At("us_backup")'
    BY <1>3, <1>5 DEF MapReturn, RangeUser, Starting, At
  <2>16. MapInv'
    BY <2>5, <2>11, <2>12, <2>14, <2>15 DEF MapInv, Starting
  <2>17. ChipInv'
    BY <1>0, <2>5, <2>15 DEF LayInv, ChipInv, Found, Starting
  <2>18. CacheInv' /\ LoadInv'
    BY <2>15 DEF CacheInv, LoadInv, Starting
  <2>19. ni.map_ba <= ni.top_ba - 1
    BY <2>3, Numbers
  <2>20. PlaceInv'
    BY <1>1, <2>5, <2>19 DEF LayInv, PlaceInv, Placed
  <2> QED BY <2>15, <2>16, <2>17, <2>18, <2>20, NoWriter DEF LayInv
<1> QED BY <1>0, <1>4, <1>5 DEF nmbm_map_block

\* nmbm_map_block after it has found no spare block.
LEMMA MapFailedLayout ==
  ASSUME IndInv, LayInv, MapFailed PROVE LayInv'
<1>0. /\ pc = "map_failed" /\ pc' = loc.mk /\ UNCHANGED <<cell, oob>>
      /\ ni' = [ni EXCEPT !.top_ba = ni.map_ba]
  BY DEF MapFailed, chip
<1>1. /\ pc \notin Starting /\ pc \notin RangeUser /\ pc # "load_failed"
      /\ ~At("rb_main") /\ ~At("us_backup")
  BY <1>0 DEF Starting, RangeUser, At
<1>2. ni.sig_ba # 0 /\ ni \in Instance /\ loc \in Locals
  BY <1>1, Ready
<1>3. pc' \notin RangeUser /\ pc' \notin Starting \ {"off"}
  BY <1>0, <1>2 DEF Locals, MapReturn, RangeUser, Starting
<1>4. /\ ni'.block_mapping = ni.block_mapping /\ ni'.top_ba = ni.map_ba
      /\ ni'.sig_ba = ni.sig_ba /\ ni'.map_ba = ni.map_ba
      /\ ni'.main_ba = ni.main_ba /\ ni'.backup_ba = ni.backup_ba
      /\ ni'.protected = ni.protected
  BY <1>0, <1>2 DEF Instance
<1>5. ~ni.protected => Placed(ni) /\ ni.map_ba <= ni.top_ba /\ Above(ni.block_mapping, ni.top_ba)
  BY <1>1 DEF LayInv, PlaceInv, MapInv
<1>6. \A lb \in LBlocks : ni.block_mapping[lb] \in Int
  BY <1>2, MapNumbers DEF Instance
<1>7. ~ni.protected => Above(ni.block_mapping, ni.map_ba)
  BY <1>5, <1>6, Numbers DEF Above
<1>8. ni.map_ba <= ni.map_ba
  BY Numbers
<1>9. MapInv'
  BY <1>3, <1>4, <1>7, <1>8 DEF LayInv, MapInv, Starting
<1>10. ChipInv' /\ CacheInv' /\ LoadInv'
  BY <1>0, <1>3, <1>4 DEF LayInv, ChipInv, Found, CacheInv, LoadInv, Starting
<1>11. PlaceInv'
  BY <1>4, <1>5, <1>8 DEF PlaceInv, Placed
<1> QED BY <1>3, <1>9, <1>10, <1>11, NoWriter DEF LayInv

\* Giving a logic block up keeps what is known of the mapping.
LEMMA Unmapping ==
  ASSUME NEW map \in Mapping, NEW lb \in LBlocks, NEW m, m = [map EXCEPT ![lb] = Unmapped],
         NEW top, NEW sig \in Nat
  PROVE  /\ Apart(map) => Apart(m)
         /\ Above(map, top) => Above(m, top)
         /\ Below(map, sig) => Below(m, sig)
<1>1. \A a \in LBlocks : m[a] = IF a = lb THEN Unmapped ELSE map[a]
  BY DEF Mapping
<1>2. Unmapped < MgmtStart /\ Unmapped < sig
  BY GeometryAssumption DEF Unmapped
<1>3. Apart(map) => Apart(m)
  BY ApartExcept
<1> QED BY <1>1, <1>2, <1>3 DEF Above, Below

\* A failing block changes only itself, and becomes no table.
LEMMA FailsAlone ==
  ASSUME TypeOK, NEW b \in Blocks, FailBlock(b, {Torn})
  PROVE  /\ \A c \in Blocks : c # b => cell'[c] = cell[c] /\ (c \in oob' <=> c \in oob)
         /\ \A c \in Blocks : cell'[c].k = "table" => cell'[c] = cell[c]
<1>1. {Torn} \in SUBSET Content
  BY ContentValues
<1>2. /\ \A c \in Blocks : c # b => cell'[c] = cell[c]
      /\ cell'[b] \in {cell[b], Torn}
  BY <1>1, FailBlockEffect
<1>3. Torn.k # "table"
  BY DEF Torn
<1>4. oob' \in {oob, oob \cup {b}}
  BY DEF FailBlock
<1> QED BY <1>2, <1>3, <1>4

\* The physical block behind a logic block lies below the signature.
LEMMA BehindLogic ==
  ASSUME IndInv, LayInv, ni.sig_ba # 0, NEW lb \in LBlocks, ni.block_mapping[lb] # Unmapped
  PROVE  ni.block_mapping[lb] \in Blocks /\ ni.block_mapping[lb] < ni.sig_ba
<1>1. ni.block_mapping \in Mapping
  BY Numbers DEF Instance
<1> QED BY <1>1 DEF Mapping, LayInv, MapInv, Below

\* nmbm_erase_logic_block erases the block or has it remapped.
LEMMA EraseLogicLayout ==
  ASSUME IndInv, LayInv, nmbm_erase_logic_block PROVE LayInv'
<1>0. pc = "er_try"
  BY DEF nmbm_erase_logic_block
<1>1. pc \notin Starting /\ pc \notin RangeUser /\ pc # "load_failed"
  BY <1>0 DEF Starting, RangeUser
<1>2. ni.sig_ba # 0 /\ ni \in Instance /\ loc \in Locals
  BY <1>1, Ready
<1>3. PICK pb : pb = ni.block_mapping[loc.lb]
  OBVIOUS
<1>4. pb \in Blocks /\ pb < ni.sig_ba
  BY <1>0, <1>2, <1>3, BehindLogic DEF IndInv, MappedInv, Locals
<1>5. PICK bad : bad = nmbm_set_block_state(ni, {pb}, BLOCK_ST_BAD)
  OBVIOUS
<1>6. /\ bad.sig_ba = ni.sig_ba /\ bad.block_mapping = ni.block_mapping
      /\ bad.main_ba = ni.main_ba /\ bad.backup_ba = ni.backup_ba
      /\ bad.map_ba = ni.map_ba /\ bad.top_ba = ni.top_ba /\ bad.protected = ni.protected
  BY <1>2, <1>5, SetStateRest DEF BlockState
<1>7. /\ pc' \in {"map", "done"} /\ ni' \in {ni, bad}
      /\ \/ UNCHANGED <<cell, oob>>
         \/ cell' = [cell EXCEPT ![pb] = Blank] /\ UNCHANGED oob
         \/ FailBlock(pb, {Torn})
  BY <1>3, <1>5 DEF nmbm_erase_logic_block, RemapLogicBlock, chip
<1>8. TypeOK /\ cell \in [Blocks -> Content] /\ Blank.k # "table"
  BY DEF IndInv, TypeOK, Blank
<1>9. /\ \A c \in Blocks : c # pb => cell'[c] = cell[c] /\ (c \in oob' <=> c \in oob)
      /\ \A c \in Blocks : cell'[c].k = "table" => cell'[c] = cell[c]
  BY <1>4, <1>7, <1>8, FailsAlone
<1>10. \A c \in Blocks : ni.sig_ba <= c => c # pb
  BY <1>4, Numbers DEF Blocks
<1>11. pc' \notin RangeUser /\ pc' \notin Starting
  BY <1>7 DEF RangeUser, Starting
<1>12. Below(ni.block_mapping, ni.sig_ba) /\ Apart(ni.block_mapping)
  BY <1>2 DEF LayInv, MapInv
<1>13. /\ ni'.sig_ba = ni.sig_ba /\ ni'.block_mapping = ni.block_mapping
       /\ ni'.main_ba = ni.main_ba /\ ni'.backup_ba = ni.backup_ba
       /\ ni'.map_ba = ni.map_ba /\ ni'.top_ba = ni.top_ba /\ ni'.protected = ni.protected
  BY <1>6, <1>7
<1>14. \A b \in Blocks : ni.sig_ba <= b => cell'[b] = cell[b] /\ (b \in oob' <=> b \in oob)
  BY <1>9, <1>10
<1> QED BY <1>1, <1>2, <1>9, <1>11, <1>12, <1>13, <1>14, OperationStep

\* nmbm_write_logic_page programs the block behind a logic block.
LEMMA WriteLogicLayout ==
  ASSUME IndInv, LayInv, nmbm_write_logic_page PROVE LayInv'
<1>0. pc = "wr_program"
  BY DEF nmbm_write_logic_page
<1>1. pc \notin Starting /\ pc \notin RangeUser /\ pc # "load_failed"
  BY <1>0 DEF Starting, RangeUser
<1>2. ni.sig_ba # 0 /\ ni \in Instance /\ loc \in Locals
  BY <1>1, Ready
<1>3. PICK pb : pb = ni.block_mapping[loc.lb]
  OBVIOUS
<1>4. pb \in Blocks /\ pb < ni.sig_ba
  BY <1>0, <1>2, <1>3, BehindLogic DEF IndInv, MappedInv, Locals
<1>5. PICK worn : worn = nmbm_set_block_state(ni, {pb}, BLOCK_ST_NEED_REMAP)
  OBVIOUS
<1>6. /\ worn.sig_ba = ni.sig_ba /\ worn.block_mapping = ni.block_mapping
      /\ worn.main_ba = ni.main_ba /\ worn.backup_ba = ni.backup_ba
      /\ worn.map_ba = ni.map_ba /\ worn.top_ba = ni.top_ba /\ worn.protected = ni.protected
  BY <1>2, <1>5, SetStateRest DEF BlockState
<1>7. /\ pc' \in {"update", "done"} /\ ni' \in {ni, worn} /\ UNCHANGED oob
      /\ \/ cell' = cell
         \/ cell' = [cell EXCEPT ![pb] = Data(loc.lb)]
         \/ cell' = [cell EXCEPT ![pb] = Torn]
  BY <1>3, <1>5 DEF nmbm_write_logic_page
<1>8. cell \in [Blocks -> Content] /\ Data(loc.lb).k # "table" /\ Torn.k # "table"
  BY DEF IndInv, TypeOK, Data, Torn
<1>9. /\ \A c \in Blocks : c # pb => cell'[c] = cell[c] /\ (c \in oob' <=> c \in oob)
      /\ \A c \in Blocks : cell'[c].k = "table" => cell'[c] = cell[c]
  BY <1>4, <1>7, <1>8
<1>10. \A c \in Blocks : ni.sig_ba <= c => c # pb
  BY <1>4, Numbers DEF Blocks
<1>11. pc' \notin RangeUser /\ pc' \notin Starting
  BY <1>7 DEF RangeUser, Starting
<1>12. Below(ni.block_mapping, ni.sig_ba) /\ Apart(ni.block_mapping)
  BY <1>2 DEF LayInv, MapInv
<1>13. /\ ni'.sig_ba = ni.sig_ba /\ ni'.block_mapping = ni.block_mapping
       /\ ni'.main_ba = ni.main_ba /\ ni'.backup_ba = ni.backup_ba
       /\ ni'.map_ba = ni.map_ba /\ ni'.top_ba = ni.top_ba /\ ni'.protected = ni.protected
  BY <1>6, <1>7
<1>14. \A b \in Blocks : ni.sig_ba <= b => cell'[b] = cell[b] /\ (b \in oob' <=> b \in oob)
  BY <1>9, <1>10
<1> QED BY <1>1, <1>2, <1>9, <1>11, <1>12, <1>13, <1>14, OperationStep

\* nmbm_mark_bad_block gives a logic block up for its user.
LEMMA MarkBadLayout ==
  ASSUME IndInv, LayInv, nmbm_mark_bad_block PROVE LayInv'
<1>1. PICK lb \in Markable :
        /\ Begin(lb) /\ pc' = "update" /\ UNCHANGED cell
        /\ ni' = nmbm_set_block_state([ni EXCEPT !.block_mapping[lb] = Unmapped],
                                      {ni.block_mapping[lb]}, BLOCK_ST_BAD)
        /\ oob' \in {oob, oob \cup {ni.block_mapping[lb]}}
  BY DEF nmbm_mark_bad_block
<1>2. pc = "idle" /\ ni.block_mapping[lb] # Unmapped /\ lb \in LBlocks
  BY <1>1, EnvironmentAssumption DEF Begin, Idle
<1>3. pc \notin Starting /\ pc \notin RangeUser /\ pc # "load_failed"
      /\ pc' \notin Starting /\ pc' \notin RangeUser
  BY <1>1, <1>2 DEF Starting, RangeUser
<1>4. ni.sig_ba # 0 /\ ni \in Instance
  BY <1>3, Ready
<1>5. PICK pb : pb = ni.block_mapping[lb] /\ pb \in Blocks /\ pb < ni.sig_ba
  BY <1>2, <1>4, BehindLogic
<1>6. ni.block_mapping \in Mapping
  BY <1>4 DEF Instance
<1>7. PICK m : m = [ni.block_mapping EXCEPT ![lb] = Unmapped]
  OBVIOUS
<1>8. m \in Mapping
  BY <1>2, <1>6, <1>7 DEF Mapping
<1>9. PICK n : n = [ni EXCEPT !.block_mapping[lb] = Unmapped]
  OBVIOUS
<1>10. /\ n \in Instance /\ n.block_mapping = m /\ n.sig_ba = ni.sig_ba
       /\ n.main_ba = ni.main_ba /\ n.backup_ba = ni.backup_ba
       /\ n.map_ba = ni.map_ba /\ n.top_ba = ni.top_ba /\ n.protected = ni.protected
  BY <1>4, <1>7, <1>8, <1>9 DEF Instance
<1>11. ni' = nmbm_set_block_state(n, {pb}, BLOCK_ST_BAD)
  BY <1>1, <1>5, <1>9
<1>12. /\ ni'.block_mapping = m /\ ni'.sig_ba = ni.sig_ba
       /\ ni'.main_ba = ni.main_ba /\ ni'.backup_ba = ni.backup_ba
       /\ ni'.map_ba = ni.map_ba /\ ni'.top_ba = ni.top_ba /\ ni'.protected = ni.protected
  BY <1>10, <1>11, SetStateRest DEF BlockState
<1>13. Apart(m) /\ Below(m, ni.sig_ba) /\ (Above(ni.block_mapping, ni.top_ba) => Above(m, ni.top_ba))
  BY <1>2, <1>4, <1>6, <1>7, Numbers, Unmapping DEF LayInv, MapInv
<1>14. \A b \in Blocks : ni.sig_ba <= b => cell'[b] = cell[b] /\ (b \in oob' <=> b \in oob)
  <2>1. \A b \in Blocks : ni.sig_ba <= b => b # pb
    BY <1>5, Numbers DEF Blocks
  <2> QED BY <1>1, <1>5, <2>1
<1> QED BY <1>1, <1>3, <1>4, <1>12, <1>13, <1>14, OperationStep

\* Back from nmbm_map_block: the logic block is remapped or given up.
LEMMA EraseMappedLayout ==
  ASSUME IndInv, LayInv, EraseMapped PROVE LayInv'
<1>0. pc = "er_mapped" /\ pc' = "update" /\ UNCHANGED <<cell, oob>>
  BY DEF EraseMapped, chip
<1>1. pc \notin Starting /\ pc \notin RangeUser /\ pc # "load_failed"
      /\ pc' \notin Starting /\ pc' \notin RangeUser
  BY <1>0 DEF Starting, RangeUser
<1>2. ni.sig_ba # 0 /\ ni \in Instance /\ loc \in Locals
  BY <1>1, Ready
<1>3. PICK n : /\ n = IF ni.block_state[loc.pb] # BLOCK_ST_NEED_REMAP
                        THEN nmbm_set_block_state(ni, {loc.pb}, BLOCK_ST_BAD) ELSE ni
               /\ ni' = n \/ ni' = [n EXCEPT !.block_mapping[loc.lb] = Unmapped]
  BY DEF EraseMapped
<1>4. /\ n \in Instance /\ n.block_mapping = ni.block_mapping /\ n.sig_ba = ni.sig_ba
      /\ n.main_ba = ni.main_ba /\ n.backup_ba = ni.backup_ba
      /\ n.map_ba = ni.map_ba /\ n.top_ba = ni.top_ba /\ n.protected = ni.protected
  <2>1. CASE n = ni
    BY <1>2, <2>1
  <2>2. CASE n = nmbm_set_block_state(ni, {loc.pb}, BLOCK_ST_BAD)
    BY <1>2, <2>2, SetStateRest DEF BlockState
  <2> QED BY <1>3, <2>1, <2>2
<1>5. CASE ni' = n
  BY <1>0, <1>1, <1>4, <1>5, PlainStep
<1>6. CASE ni' = [n EXCEPT !.block_mapping[loc.lb] = Unmapped]
  <2>1. ni.block_mapping \in Mapping /\ loc.lb \in LBlocks
    BY <1>2 DEF Instance, Locals
  <2>2. PICK m : m = [ni.block_mapping EXCEPT ![loc.lb] = Unmapped]
    OBVIOUS
  <2>3. /\ ni'.block_mapping = m /\ ni'.sig_ba = ni.sig_ba
        /\ ni'.main_ba = ni.main_ba /\ ni'.backup_ba = ni.backup_ba
        /\ ni'.map_ba = ni.map_ba /\ ni'.top_ba = ni.top_ba /\ ni'.protected = ni.protected
    BY <1>4, <1>6, <2>2 DEF Instance
  <2>4. Apart(m) /\ Below(m, ni.sig_ba) /\ (Above(ni.block_mapping, ni.top_ba) => Above(m, ni.top_ba))
    BY <1>2, <2>1, <2>2, Numbers, Unmapping DEF LayInv, MapInv
  <2> QED BY <1>0, <1>1, <1>2, <2>3, <2>4, OperationStep
<1> QED BY <1>3, <1>5, <1>6

\* The instance is gone; the chip stays.
LEMMA PowerOffLayout ==
  ASSUME PowerOff,
         \A b \in Blocks : cell'[b].k = "table" => OnChip(b, cell'[b].t, Found')
  PROVE  LayInv'
<1>1. /\ pc' = "off" /\ ni'.sig_ba = 0 /\ ni'.block_mapping = NoMapping
  BY DEF PowerOff, nmbm_init_structure
<1>2. Apart(NoMapping)
  BY DEF Apart, NoMapping
<1>3. ChipInv'
  BY <1>1 DEF ChipInv
<1>4. MapInv' /\ CacheInv' /\ LoadInv' /\ PlaceInv'
  BY <1>1, <1>2 DEF MapInv, CacheInv, LoadInv, PlaceInv, Starting, RangeUser
<1>5. pc' \notin RangeUser
  BY <1>1 DEF RangeUser
<1> QED BY <1>3, <1>4, <1>5, NoWriter DEF LayInv

\* The same if the chip is left alone.
LEMMA PowerOffQuiet ==
  ASSUME LayInv, PowerOff, UNCHANGED <<cell, oob>> PROVE LayInv'
<1>1. Found' = Found
  BY DEF Found
<1> QED BY <1>1, PowerOffLayout DEF LayInv, ChipInv

\* The begin and the end of operations, and what nmbm_create_new does between
\* its tables, leave the chip and the tables.
LEMMA CallLayout ==
  ASSUME IndInv, LayInv,
         EraseBegin \/ WriteBegin \/ BadDone \/ OperationDone \/ nmbm_detach \/ CreateMap
  PROVE  LayInv'
<1>1. /\ ni' = ni /\ UNCHANGED <<cell, oob>>
      /\ pc \in {"idle", "bad_done", "done", "create_map"}
      /\ pc' \in {"er_try", "wr_program", "done", "idle", "update", "map"}
  BY DEF EraseBegin, WriteBegin, BadDone, OperationDone, nmbm_detach, CreateMap, Begin, Idle, chip
<1>2. /\ pc \notin Starting /\ pc \notin RangeUser /\ pc # "load_failed"
      /\ pc' \notin Starting /\ pc' \notin RangeUser
  BY <1>1 DEF Starting, RangeUser
<1> QED BY <1>1, <1>2, PlainStep

\* Back from nmbm_map_block in nmbm_create_new.
LEMMA CreateMappedLayout ==
  ASSUME IndInv, LayInv, CreateMapped PROVE LayInv'
<1>1. /\ pc = "create_mapped" /\ pc' \in {"create_map", "update"} /\ UNCHANGED <<cell, oob>>
      /\ ni' = ni \/ ni' = [ni EXCEPT !.data_count = @ + 1]
  BY DEF CreateMapped, chip
<1>2. /\ pc \notin Starting /\ pc \notin RangeUser /\ pc # "load_failed"
      /\ pc' \notin Starting /\ pc' \notin RangeUser
  BY <1>1 DEF Starting, RangeUser
<1>3. /\ ni'.sig_ba = ni.sig_ba /\ ni'.top_ba = ni.top_ba /\ ni'.map_ba = ni.map_ba
      /\ ni'.main_ba = ni.main_ba /\ ni'.backup_ba = ni.backup_ba
      /\ ni'.protected = ni.protected /\ ni'.block_mapping = ni.block_mapping
  BY <1>1, Numbers DEF Instance
<1> QED BY <1>1, <1>2, <1>3, PlainStep

\* The end of nmbm_create_new.
LEMMA CreateDoneLayout ==
  ASSUME IndInv, LayInv, CreateDone PROVE LayInv'
<1>1. /\ pc = "create_done" /\ UNCHANGED <<cell, oob>>
      /\ (pc' = "done" /\ ni' = ni) \/ PowerOff
  BY DEF CreateDone, chip
<1>2. CASE pc' = "done" /\ ni' = ni
  <2>1. /\ pc \notin Starting /\ pc \notin RangeUser /\ pc # "load_failed"
        /\ pc' \notin Starting /\ pc' \notin RangeUser
    BY <1>1, <1>2 DEF Starting, RangeUser
  <2> QED BY <1>1, <1>2, <2>1, PlainStep
<1> QED BY <1>1, <1>2, PowerOffQuiet

-----------------------------------------------------------------------------
(* One lemma per action: the loops over blocks.                            *)

\* A step inside a loop.
LEMMA LoopLayout ==
  ASSUME IndInv, LayInv, pc \in {"write", "program", "erase"},
         pc' \in {"write", "program", "erase"}, (pc = "erase") <=> (pc' = "erase"),
         loc' = loc, w'.k = w.k, w'.limit = w.limit,
         \A b \in Blocks : ni.sig_ba <= b =>
           cell'[b] = cell[b] /\ (b \in oob' <=> b \in oob),
         \A b \in Blocks : cell'[b].k = "table" =>
           \/ cell'[b] = cell[b]
           \/ /\ Above(cell'[b].t.map, b + 1) /\ Apart(cell'[b].t.map)
              /\ Below(cell'[b].t.map, ni.sig_ba),
         ni'.sig_ba = ni.sig_ba, ni'.top_ba = ni.top_ba, ni'.map_ba = ni.map_ba,
         ni'.main_ba = ni.main_ba, ni'.backup_ba = ni.backup_ba,
         ni'.protected = ni.protected, ni'.block_mapping = ni.block_mapping, ni'.cache = ni.cache,
         w.k \in Writers => TableFrame'
  PROVE  LayInv'
<1>1. pc \in RangeUser /\ pc' \in RangeUser
  BY DEF RangeUser
<1>2. pc \notin Starting /\ ~ni.protected /\ ni.sig_ba # 0
  BY <1>1, Running
<1>3. /\ ni.sig_ba \in Found'
      /\ \A b \in Blocks : cell'[b].k = "table" => OnChip(b, cell'[b].t, Found')
  BY <1>2, ChipKept DEF IndInv, LayInv
<1>4. ChipInv'
  BY <1>3 DEF ChipInv
<1>5. MapInv' /\ CacheInv' /\ LoadInv'
  BY <1>1, <1>2 DEF LayInv, MapInv, CacheInv, LoadInv, Starting
<1>6. /\ (At("rb_main")' <=> At("rb_main"))
      /\ (At("us_backup")' <=> At("us_backup"))
      /\ (At("rs_front")' <=> At("rs_front"))
      /\ (At("us_main")' <=> At("us_main"))
      /\ (At("rm_tmp")' <=> At("rm_tmp"))
      /\ (At("rm_main")' <=> At("rm_main"))
      /\ (At("rs_erased")' <=> At("rs_erased"))
  BY DEF At
<1>7. pc # "load_failed" /\ pc' # "load_failed" /\ pc' \notin Starting
  BY DEF Starting
<1>8. PlaceInv'
  BY <1>2, <1>6, <1>7 DEF LayInv, PlaceInv, Placed
<1>9. WriterInv'
  BY <1>1, <1>6 DEF LayInv, WriterInv
<1> QED BY <1>4, <1>5, <1>8, <1>9 DEF LayInv


\* Leaving a block of a table's range behind.
LEMMA SkipFrame ==
  ASSUME IndInv, LayInv, pc \in {"write", "program", "erase"}, loc' = loc, w' = [w EXCEPT !.ba = @ + 1],
         ni'.top_ba = ni.top_ba, ni'.map_ba = ni.map_ba,
         ni'.main_ba = ni.main_ba, ni'.backup_ba = ni.backup_ba, w.k \in Writers
  PROVE  TableFrame'
<1>1. TableFrame
  BY DEF LayInv, WriterInv, RangeUser
<1>2. /\ w'.ba = w.ba + 1 /\ w'.limit = w.limit /\ w'.i = w.i /\ w'.start = w.start
      /\ w'.k = w.k
  BY Numbers DEF Frame
<1>3. Base(w.k)' = Base(w.k) /\ Limit(w.k)' = Limit(w.k) /\ Base(w.k) \in Int
  BY <1>2, Numbers DEF Base, Limit
<1>4. Base(w.k)' <= w'.ba
  BY <1>1, <1>2, <1>3, Numbers DEF TableFrame
<1>5. w.i > 1 => Base(w.k) <= w.start /\ w.start + w.i - 1 <= w.ba + 1
  BY <1>1, Numbers DEF TableFrame
<1>6. w'.limit <= ni'.top_ba /\ w'.limit <= Limit(w.k)' /\ w'.i <= TableBlocks + 1
  BY <1>1, <1>2, <1>3 DEF TableFrame
<1> QED BY <1>2, <1>3, <1>4, <1>5, <1>6 DEF TableFrame

\* A loop leaves a block behind, which may have failed.
LEMMA NextBlockLayout ==
  ASSUME IndInv, LayInv, pc \in {"write", "program", "erase"},
         pc' \in {"write", "erase"}, (pc = "erase") <=> (pc' = "erase"),
         loc' = loc, NextBlock, w.ba < w.limit,
         ni' \in {ni, nmbm_set_block_state(ni, {w.ba}, BLOCK_ST_BAD)},
         \A c \in Blocks : c # w.ba => cell'[c] = cell[c] /\ (c \in oob' <=> c \in oob),
         \A c \in Blocks : cell'[c].k = "table" => cell'[c] = cell[c]
  PROVE  LayInv'
<1>1. w' = [w EXCEPT !.ba = @ + 1]
  BY DEF NextBlock
<1>2. w'.k = w.k /\ w'.limit = w.limit
  BY <1>1, Numbers DEF Frame
<1>3. /\ ni'.sig_ba = ni.sig_ba /\ ni'.block_mapping = ni.block_mapping
      /\ ni'.main_ba = ni.main_ba /\ ni'.backup_ba = ni.backup_ba
      /\ ni'.map_ba = ni.map_ba /\ ni'.top_ba = ni.top_ba
      /\ ni'.protected = ni.protected /\ ni'.cache = ni.cache
  BY Numbers, SetStateRest DEF BlockState
<1>4. w.limit < ni.sig_ba
  BY InLoop
<1>5. \A b \in Blocks : ni.sig_ba <= b => b # w.ba
  BY <1>4, Numbers DEF Blocks
<1>6. \A b \in Blocks : ni.sig_ba <= b => cell'[b] = cell[b] /\ (b \in oob' <=> b \in oob)
  BY <1>5
<1>7. w.k \in Writers => TableFrame'
  BY <1>1, <1>3, SkipFrame
<1> QED BY <1>2, <1>3, <1>6, <1>7, LoopLayout

\* A block that is not good is skipped.
LEMMA SkipLayout ==
  ASSUME IndInv, LayInv, pc \in {"write", "erase"}, SkipBlock, loc' = loc, w.ba < w.limit
  PROVE  LayInv'
<1>1. /\ NextBlock /\ UNCHANGED <<cell, oob, pc>>
      /\ ni' \in {ni, nmbm_set_block_state(ni, {w.ba}, BLOCK_ST_BAD)}
  BY DEF SkipBlock
<1> QED BY <1>1, NextBlockLayout

\* A block that fails is marked and left behind.
LEMMA FailsLayout ==
  ASSUME IndInv, LayInv, pc \in {"write", "program", "erase"},
         pc' \in {"write", "erase"}, (pc = "erase") <=> (pc' = "erase"),
         EraseFails, loc' = loc, w.ba < w.limit
  PROVE  LayInv'
<1>1. /\ FailBlock(w.ba, {Torn}) /\ NextBlock
      /\ ni' = nmbm_set_block_state(ni, {w.ba}, BLOCK_ST_BAD)
  BY DEF EraseFails
<1>2. w.ba \in Blocks /\ TypeOK
  BY InLoop DEF IndInv
<1>3. /\ \A c \in Blocks : c # w.ba => cell'[c] = cell[c] /\ (c \in oob' <=> c \in oob)
      /\ \A c \in Blocks : cell'[c].k = "table" => cell'[c] = cell[c]
  BY <1>1, <1>2, FailsAlone
<1> QED BY <1>1, <1>3, NextBlockLayout

\* A block of the range is erased.
LEMMA ErasedCell ==
  ASSUME TypeOK, NEW b \in Blocks, cell' = [cell EXCEPT ![b] = Blank], oob' = oob
  PROVE  /\ \A c \in Blocks : c # b => cell'[c] = cell[c] /\ (c \in oob' <=> c \in oob)
         /\ \A c \in Blocks : cell'[c].k = "table" => cell'[c] = cell[c]
<1>1. cell \in [Blocks -> Content] /\ Blank.k # "table"
  BY DEF TypeOK, Blank
<1> QED BY <1>1

\* nmbm_write_mgmt_range, the erase.
LEMMA WriteEraseLayout ==
  ASSUME IndInv, LayInv, WriteErase PROVE LayInv'
<1>0. pc = "write" /\ loc' = loc /\ w.ba < w.limit /\ TypeOK
  BY Numbers DEF WriteErase, WriteReturns, IndInv
<1>1. w.ba \in Blocks /\ w.limit < ni.sig_ba
  BY <1>0, InLoop
<1>2. CASE SkipBlock
  BY <1>0, <1>2, SkipLayout
<1>3. CASE cell' = [cell EXCEPT ![w.ba] = Blank] /\ pc' = "program" /\ UNCHANGED <<oob, ni, w>>
  <2>1. /\ \A c \in Blocks : c # w.ba => cell'[c] = cell[c] /\ (c \in oob' <=> c \in oob)
        /\ \A c \in Blocks : cell'[c].k = "table" => cell'[c] = cell[c]
    BY <1>0, <1>1, <1>3, ErasedCell
  <2>2. \A b \in Blocks : ni.sig_ba <= b => b # w.ba
    BY <1>0, <1>1, Numbers DEF Blocks
  <2>3. \A b \in Blocks : ni.sig_ba <= b => cell'[b] = cell[b] /\ (b \in oob' <=> b \in oob)
    BY <2>1, <2>2
  <2>4. w.k \in Writers => TableFrame'
    <3>1. w.k \in Writers => TableFrame
      BY <1>0 DEF LayInv, WriterInv, RangeUser
    <3>2. Base(w.k)' = Base(w.k) /\ Limit(w.k)' = Limit(w.k)
      BY <1>0, <1>3 DEF Base, Limit
    <3> QED BY <1>3, <3>1, <3>2 DEF TableFrame
  <2> QED BY <1>0, <1>3, <2>1, <2>3, <2>4, LoopLayout
<1>4. CASE EraseFails /\ pc' = pc
  BY <1>0, <1>4, FailsLayout
<1> QED BY <1>0, <1>2, <1>3, <1>4 DEF WriteErase

\* A loop returns to its caller.
LEMMA ReturnLayout ==
  ASSUME IndInv, LayInv, pc \in {"write", "erase"}, pc' = w.k,
         UNCHANGED <<cell, oob, ni, w, loc>>
  PROVE  LayInv'
<1>1. pc \in RangeUser
  BY DEF RangeUser
<1>2. pc \notin Starting /\ ~ni.protected /\ ni.sig_ba # 0
  BY <1>1, Running
<1>3. w.k \in RangeReturn
  BY Numbers DEF Frame
<1>4. pc' \notin Starting \ {"off"} /\ pc' # "load_failed" /\ pc' \notin {"write", "program", "erase"}
  BY <1>3 DEF RangeReturn, Starting
<1>5. ChipInv' /\ MapInv' /\ CacheInv' /\ LoadInv'
  BY <1>1, <1>2, <1>4, ControlStep
<1>6. /\ (At("rb_main")' <=> At("rb_main"))
      /\ (At("us_backup")' <=> At("us_backup"))
      /\ (At("rs_front")' <=> At("rs_front"))
      /\ (At("us_main")' <=> At("us_main"))
      /\ (At("rm_tmp")' <=> At("rm_tmp"))
      /\ (At("rm_main")' <=> At("rm_main"))
      /\ (At("rs_erased")' <=> At("rs_erased"))
  BY <1>4 DEF At
<1>7. PlaceInv'
  BY <1>2, <1>6 DEF LayInv, PlaceInv, Placed
<1>8. w.k \in Writers => TableFrame
  BY <1>1 DEF LayInv, WriterInv
<1>9. TableFrame => TableFrame'
  BY DEF TableFrame, Base, Limit
<1>10. WriterInv'
  BY <1>4, <1>6, <1>8, <1>9 DEF LayInv, WriterInv
<1> QED BY <1>5, <1>7, <1>10 DEF LayInv

\* nmbm_write_mgmt_range returns.
LEMMA WriteReturnLayout ==
  ASSUME IndInv, LayInv, WriteReturn PROVE LayInv'
BY ReturnLayout DEF WriteReturn

\* nmbm_erase_range, one block or the return.
LEMMA EraseRangeLayout ==
  ASSUME IndInv, LayInv, nmbm_erase_range PROVE LayInv'
<1>0. pc = "erase" /\ loc' = loc /\ TypeOK
  BY DEF nmbm_erase_range, IndInv
<1>1. CASE pc' = w.k /\ UNCHANGED <<cell, oob, ni, w>>
  BY <1>0, <1>1, ReturnLayout
<1>2. CASE w.ba < w.limit /\ SkipBlock
  BY <1>0, <1>2, SkipLayout
<1>3. CASE w.ba < w.limit /\ cell' = [cell EXCEPT ![w.ba] = Blank] /\ NextBlock /\ UNCHANGED <<oob, ni, pc>>
  <2>1. w.ba \in Blocks
    BY <1>0, <1>3, InLoop
  <2>2. /\ \A c \in Blocks : c # w.ba => cell'[c] = cell[c] /\ (c \in oob' <=> c \in oob)
        /\ \A c \in Blocks : cell'[c].k = "table" => cell'[c] = cell[c]
    BY <1>0, <1>3, <2>1, ErasedCell
  <2> QED BY <1>0, <1>3, <2>2, NextBlockLayout
<1>4. CASE w.ba < w.limit /\ EraseFails /\ pc' = pc
  BY <1>0, <1>4, FailsLayout
<1> QED BY <1>0, <1>1, <1>2, <1>3, <1>4 DEF nmbm_erase_range

\* nmbm_write_mgmt_range, the program: the chunk goes below the spare blocks
\* the cached table maps to.
LEMMA WriteProgramLayout ==
  ASSUME IndInv, LayInv, WriteProgram PROVE LayInv'
<1>0. pc = "program" /\ pc' = "write" /\ loc' = loc /\ TypeOK
  BY DEF WriteProgram, IndInv
<1>1. pc \in RangeUser
  BY <1>0 DEF RangeUser
<1>2. w.ba < w.limit /\ w.i <= TableBlocks
  BY <1>0, <1>1 DEF IndInv, FrameInv
<1>3. w.ba \in Blocks /\ w.limit < ni.sig_ba
  BY <1>0, <1>2, InLoop
<1>4. w.k \in Writers /\ TableFrame
  BY <1>0, <1>1 DEF LayInv, WriterInv
<1>5. ASSUME cell' = [cell EXCEPT ![w.ba] = Chunk(w.i, ni.cache)],
             w' = [w EXCEPT !.start = IF w.i = 1 THEN w.ba ELSE @, !.i = @ + 1, !.ba = @ + 1],
             UNCHANGED <<oob, ni>>
      PROVE  LayInv'
  <2>1. cell \in [Blocks -> Content] /\ Chunk(w.i, ni.cache).t = ni.cache
    BY <1>0 DEF TypeOK, Chunk
  <2>2. /\ \A c \in Blocks : c # w.ba => cell'[c] = cell[c]
        /\ cell'[w.ba].t = ni.cache
    BY <1>3, <1>5, <2>1
  <2>3. \A b \in Blocks : ni.sig_ba <= b => b # w.ba
    BY <1>2, <1>3, Numbers DEF Blocks
  <2>4. /\ Above(ni.cache.map, ni.top_ba) /\ Apart(ni.cache.map)
        /\ Below(ni.cache.map, ni.sig_ba)
    BY <1>1 DEF LayInv, CacheInv
  <2>5. w.ba + 1 <= ni.top_ba
    BY <1>2, <1>4, Numbers DEF TableFrame
  <2>6. \A lb \in LBlocks : ni.cache.map[lb] \in Int
    BY Numbers, MapNumbers DEF Instance, InfoTable
  <2>7. Above(ni.cache.map, w.ba + 1)
    BY <2>4, <2>5, <2>6, Numbers DEF Above
  <2>8. \A b \in Blocks : \/ cell'[b] = cell[b]
                          \/ /\ Above(cell'[b].t.map, b + 1) /\ Apart(cell'[b].t.map)
                             /\ Below(cell'[b].t.map, ni.sig_ba)
    BY <2>2, <2>4, <2>7
  <2>9. PICK s \in Nat : s = IF w.i = 1 THEN w.ba ELSE w.start
    BY Numbers
  <2>10. w' = [w EXCEPT !.start = s, !.i = w.i + 1, !.ba = w.ba + 1]
    BY <1>5, <2>9, Numbers DEF Frame
  <2>11. /\ w'.start = s /\ w'.i = w.i + 1 /\ w'.ba = w.ba + 1
         /\ w'.k = w.k /\ w'.limit = w.limit
    BY <2>10, Numbers DEF Frame
  <2>12. Base(w.k)' = Base(w.k) /\ Limit(w.k)' = Limit(w.k) /\ Base(w.k) \in Int
    BY <1>0, <1>5, <2>11, Numbers DEF Base, Limit
  <2>13. Base(w.k) <= s /\ s + w.i <= w.ba + 1 /\ Base(w.k) <= w.ba + 1
    <3>1. Base(w.k) <= w.ba /\ (w.i > 1 => Base(w.k) <= w.start /\ w.start + w.i - 1 <= w.ba)
      BY <1>4 DEF TableFrame
    <3>2. w.i >= 1
      BY Numbers DEF Frame
    <3> QED BY <2>9, <2>12, <3>1, <3>2, Numbers
  <2>14. TableFrame'
    <3>1. w'.limit <= ni'.top_ba /\ w'.limit <= Limit(w.k)'
      BY <1>4, <1>5, <2>11, <2>12 DEF TableFrame
    <3>2. w.i + 1 <= TableBlocks + 1 /\ s + (w.i + 1) - 1 <= w.ba + 1
      BY <1>2, <2>13, Numbers
    <3> QED BY <2>11, <2>12, <2>13, <3>1, <3>2 DEF TableFrame
  <2>15. \A b \in Blocks : ni.sig_ba <= b => cell'[b] = cell[b] /\ (b \in oob' <=> b \in oob)
    BY <1>5, <2>2, <2>3
  <2> QED BY <1>0, <1>5, <2>8, <2>11, <2>14, <2>15, LoopLayout
<1>6. CASE EraseFails
  BY <1>0, <1>2, <1>6, FailsLayout
<1> QED BY <1>5, <1>6 DEF WriteProgram

-----------------------------------------------------------------------------
(* One lemma per action: attaching.                                        *)

\* nmbm_attach, a signature found.
LEMMA AttachFound ==
  ASSUME IndInv, LayInv, Found # {}, UNCHANGED <<cell, oob>>, pc' = "search1",
         ni'.sig_ba = Max(Found), ni'.block_mapping = NoMapping, ~ni'.protected
  PROVE  LayInv'
<1>1. Found \in SUBSET (0 .. BlockCount - 1) /\ BlockCount - 1 \in Nat
  BY GeometryAssumption DEF Found, nmbm_find_signature
<1>2. PICK sig : sig = Max(Found) /\ sig \in Found /\ \A s \in Found : s <= sig
  BY <1>1, MaxNat
<1>3. Found' = Found
  BY DEF Found
<1>4. ChipInv'
  BY <1>2, <1>3 DEF LayInv, ChipInv
<1>5. sig \in Nat
  BY <1>1, <1>2
<1>6. Below(NoMapping, sig) /\ Apart(NoMapping)
  BY <1>5 DEF Below, Apart, NoMapping, Unmapped
<1>7. MapInv'
  BY <1>2, <1>6 DEF MapInv, Starting
<1>8. CacheInv' /\ LoadInv' /\ PlaceInv'
  BY DEF CacheInv, LoadInv, PlaceInv, Starting, RangeUser
<1>9. pc' \notin RangeUser
  BY DEF RangeUser
<1> QED BY <1>4, <1>7, <1>8, <1>9, NoWriter DEF LayInv

\* What nmbm_scan_badblocks and nmbm_build_mapping_table leave.
LEMMA ScanLayout ==
  ASSUME NEW n \in Instance, NEW m, m = nmbm_scan_and_build(n), oob \subseteq Blocks
  PROVE  /\ Apart(m.block_mapping) /\ m.protected = n.protected
         /\ \A b \in oob : m.block_state[b] # BLOCK_ST_GOOD
<1>1. PICK s : s = nmbm_set_block_state(n, oob, BLOCK_ST_BAD)
  OBVIOUS
<1>2. s \in Instance /\ s.protected = n.protected
  BY <1>1, SetStateRest DEF BlockState
<1>3. \A b \in oob : s.block_state[b] = BLOCK_ST_BAD
  BY <1>1 DEF nmbm_set_block_state, Instance
<1>4. PICK bm, count : bm = nmbm_build_mapping_table(s.block_state) /\ count = Cardinality(Usable(s.block_state))
  OBVIOUS
<1>5. m = [s EXCEPT !.block_mapping = bm, !.data_count = count]
  BY <1>1, <1>4 DEF nmbm_scan_and_build
<1>6. m.block_mapping = bm /\ m.protected = s.protected /\ m.block_state = s.block_state
  BY <1>2, <1>5 DEF Instance
<1>7. Apart(bm)
  BY <1>4, BuildApart
<1>8. BLOCK_ST_BAD # BLOCK_ST_GOOD
  BY DEF BLOCK_ST_BAD, BLOCK_ST_GOOD
<1> QED BY <1>2, <1>3, <1>6, <1>7, <1>8

\* While nmbm_write_signature looks for a block there is no table on the chip.
LEMMA SignaturePhase ==
  ASSUME pc' \in {"sig_erase", "sig_program"}, ni'.sig_ba = 0, Apart(ni'.block_mapping),
         ~ni'.protected, \A b \in Blocks : cell'[b].k # "table",
         \A b \in oob' : ni'.block_state[b] # BLOCK_ST_GOOD,
         pc' = "sig_program" => ni'.block_state[loc'.ba] = BLOCK_ST_GOOD
  PROVE  LayInv'
<1>1. ChipInv'
  BY DEF ChipInv
<1>2. MapInv' /\ CacheInv' /\ PlaceInv'
  BY DEF MapInv, CacheInv, PlaceInv, Starting, RangeUser
<1>3. LoadInv'
  BY DEF LoadInv, Good
<1>4. pc' \notin RangeUser
  BY DEF RangeUser
<1> QED BY <1>1, <1>2, <1>3, <1>4, NoWriter DEF LayInv

\* nmbm_attach.
LEMMA AttachLayout ==
  ASSUME IndInv, LayInv, nmbm_attach PROVE LayInv'
<1>0. pc = "off" /\ UNCHANGED <<cell, oob, w>>
  BY DEF nmbm_attach, chip
<1>1. PICK create, n :
        /\ create \in CreateFlags
        /\ n = [nmbm_init_structure EXCEPT !.create = create]
        /\ \/ /\ Found # {}
              /\ ni' = [n EXCEPT !.sig_ba = Max(Found), !.data_count = MgmtStart,
                                 !.top_ba = Max(Found) - 1]
              /\ pc' = "search1"
           \/ /\ Found = {} /\ ni' = nmbm_scan_and_build(n)
              /\ pc' = "sig_erase"
           \/ UNCHANGED <<ni, loc, pc>>
  BY DEF nmbm_attach, Found
<1>2. /\ n \in Instance /\ n.sig_ba = 0 /\ n.block_mapping = NoMapping /\ ~n.protected
  <2>1. create \in BOOLEAN
    BY <1>1, EnvironmentAssumption
  <2>2. n \in Instance
    BY <1>1, <2>1, InitInstance DEF Instance
  <2> QED BY <1>1, <2>2 DEF nmbm_init_structure
<1>3. CASE /\ Found # {} /\ pc' = "search1"
           /\ ni' = [n EXCEPT !.sig_ba = Max(Found), !.data_count = MgmtStart,
                              !.top_ba = Max(Found) - 1]
  <2>1. ni'.sig_ba = Max(Found) /\ ni'.block_mapping = NoMapping /\ ~ni'.protected
    BY <1>2, <1>3 DEF Instance
  <2> QED BY <1>0, <1>3, <2>1, AttachFound
<1>4. CASE Found = {} /\ ni' = nmbm_scan_and_build(n) /\ pc' = "sig_erase"
  <2>1. oob \subseteq Blocks
    BY DEF IndInv, TypeOK
  <2>2. /\ Apart(ni'.block_mapping) /\ ~ni'.protected
        /\ \A b \in oob : ni'.block_state[b] # BLOCK_ST_GOOD
    BY <1>2, <1>4, <2>1, ScanLayout
  <2>3. ni'.sig_ba = 0
    BY <1>2, <1>4, ScanAndBuild
  <2>4. \A b \in Blocks : cell[b].k # "table"
    BY <1>4 DEF LayInv, ChipInv, OnChip
  <2> QED BY <1>0, <1>4, <2>2, <2>3, <2>4, SignaturePhase
<1>5. CASE UNCHANGED <<ni, loc, pc>>
  <2>1. pc' \notin RangeUser
    BY <1>0, <1>5 DEF RangeUser
  <2>2. ChipInv' /\ MapInv' /\ CacheInv'
    BY <1>0, <1>5 DEF LayInv, ChipInv, Found, MapInv, CacheInv, RangeUser
  <2>3. LoadInv' /\ PlaceInv'
    BY <1>0, <1>5 DEF LoadInv, PlaceInv, Starting
  <2> QED BY <2>1, <2>2, <2>3, NoWriter DEF LayInv
<1> QED BY <1>1, <1>3, <1>4, <1>5

\* A block that cannot take the signature.
LEMMA SignatureFailsLayout ==
  ASSUME IndInv, LayInv, pc \in {"sig_erase", "sig_program"}, pc' = "sig_erase", loc.ba > MgmtStart,
         NEW junk \in SUBSET {Torn, Signature}, SignatureFails(junk)
  PROVE  LayInv'
<1>1. TypeOK /\ loc.ba \in Blocks /\ ni \in Instance /\ ni.sig_ba = 0
  BY AtSignature, GeometryAssumption DEF Blocks
<1>2. junk \in SUBSET Content
  BY ContentValues
<1>3. /\ FailBlock(loc.ba, junk) /\ ni' = nmbm_set_block_state(ni, {loc.ba}, BLOCK_ST_BAD)
  BY DEF SignatureFails
<1>4. /\ \A c \in Blocks : c # loc.ba => cell'[c] = cell[c]
      /\ cell'[loc.ba] \in {cell[loc.ba], Torn, Signature}
  BY <1>1, <1>2, <1>3, FailBlockEffect
<1>5. \A b \in Blocks : cell[b].k # "table"
  BY DEF LayInv, ChipInv
<1>6. Torn.k # "table" /\ Signature.k # "table"
  BY DEF Torn, Signature
<1>7. \A b \in Blocks : cell'[b].k # "table"
  BY <1>1, <1>4, <1>5, <1>6
<1>8. /\ ni'.sig_ba = 0 /\ ni'.block_mapping = ni.block_mapping
      /\ ni'.protected = ni.protected
  BY <1>1, <1>3, SetStateRest DEF BlockState
<1>9. Apart(ni.block_mapping) /\ ~ni.protected /\ \A b \in oob : ~Good(b)
  BY DEF LayInv, MapInv, LoadInv, Starting
<1>10. \A b \in oob' : ni'.block_state[b] # BLOCK_ST_GOOD
  <2>1. oob' \subseteq oob \cup {loc.ba} /\ oob \subseteq Blocks
    BY <1>1, <1>3 DEF FailBlock, TypeOK
  <2>2. \A b \in Blocks : ni'.block_state[b] = IF b = loc.ba THEN BLOCK_ST_BAD ELSE ni.block_state[b]
    BY <1>1, <1>3 DEF nmbm_set_block_state, Instance
  <2>3. BLOCK_ST_BAD # BLOCK_ST_GOOD
    BY DEF BLOCK_ST_BAD, BLOCK_ST_GOOD
  <2> QED BY <1>1, <1>9, <2>1, <2>2, <2>3 DEF Good
<1> QED BY <1>7, <1>8, <1>9, <1>10, SignaturePhase

\* nmbm_write_signature, the erase.
LEMMA WriteSignatureLayout ==
  ASSUME IndInv, LayInv, nmbm_write_signature PROVE LayInv'
<1>0. pc = "sig_erase"
  BY DEF nmbm_write_signature
<1>1. /\ \A b \in Blocks : cell[b].k # "table"
      /\ Apart(ni.block_mapping) /\ ~ni.protected
      /\ \A b \in oob : ni.block_state[b] # BLOCK_ST_GOOD
  BY <1>0 DEF LayInv, ChipInv, MapInv, LoadInv, Starting, Good
<1>2. ni.sig_ba = 0 /\ cell \in [Blocks -> Content]
  BY <1>0, AtSignature DEF TypeOK
<1>3. CASE PowerOff /\ UNCHANGED <<cell, oob>>
  BY <1>3, PowerOffQuiet
<1>4. CASE UNCHANGED <<cell, oob, ni, pc>>
  BY <1>0, <1>1, <1>2, <1>4, SignaturePhase
<1>5. CASE /\ Good(loc.ba) /\ cell' = [cell EXCEPT ![loc.ba] = Blank]
           /\ pc' = "sig_program" /\ UNCHANGED <<oob, ni, loc>>
  <2>1. Blank.k # "table"
    BY DEF Blank
  <2>2. \A b \in Blocks : cell'[b].k # "table"
    BY <1>1, <1>2, <1>5, <2>1
  <2> QED BY <1>1, <1>2, <1>5, <2>2, SignaturePhase DEF Good
<1>6. CASE loc.ba > MgmtStart /\ SignatureFails({Torn}) /\ pc' = pc
  BY <1>0, <1>6, SignatureFailsLayout
<1> QED BY <1>3, <1>4, <1>5, <1>6 DEF nmbm_write_signature, chip

\* nmbm_write_signature, the program: the block carries no bad mark.
LEMMA SignatureProgramLayout ==
  ASSUME IndInv, LayInv, SignatureProgram PROVE LayInv'
<1>0. pc = "sig_program"
  BY DEF SignatureProgram
<1>1. loc.ba > MgmtStart
  BY <1>0, AtSignature, GeometryAssumption DEF IndInv, SigInv
<1>2. ASSUME cell' = [cell EXCEPT ![loc.ba] = Signature], ni' = [ni EXCEPT !.sig_ba = loc.ba],
             pc' = "create", oob' = oob
      PROVE  LayInv'
  <2>1. /\ ni \in Instance /\ cell \in [Blocks -> Content]
        /\ \A lb \in LBlocks : ni.block_mapping[lb] < MgmtStart
        /\ loc.ba \in Nat /\ loc.ba < BlockCount
    BY <1>0, AtSignature DEF TypeOK
  <2>2. loc.ba \in Blocks /\ loc.ba \in MgmtStart - 1 .. BlockCount - 1
    BY <1>1, <2>1, GeometryAssumption DEF Blocks
  <2>3. /\ \A b \in Blocks : cell[b].k # "table"
        /\ loc.ba \notin oob /\ ~ni.protected /\ Apart(ni.block_mapping)
    BY <1>0 DEF LayInv, ChipInv, LoadInv, MapInv, Starting
  <2>4. Signature.k # "table"
    BY DEF Signature
  <2>5. \A b \in Blocks : cell'[b].k # "table"
    BY <1>2, <2>1, <2>3, <2>4
  <2>6. loc.ba \in Found'
    BY <1>2, <2>1, <2>2, <2>3 DEF Found, nmbm_find_signature
  <2>7. /\ ni'.sig_ba = loc.ba /\ ni'.block_mapping = ni.block_mapping
        /\ ni'.protected = ni.protected
    BY <1>2, <2>1 DEF Instance
  <2>8. ChipInv'
    BY <1>2, <2>5, <2>6, <2>7 DEF ChipInv
  <2>9. Below(ni.block_mapping, loc.ba)
    <3>1. \A lb \in LBlocks : ni.block_mapping[lb] \in Int
      BY <2>1, MapNumbers DEF Instance
    <3> QED BY <1>1, <2>1, <3>1, GeometryAssumption DEF Below
  <2>10. MapInv'
    BY <1>2, <2>1, <2>3, <2>7, <2>9 DEF MapInv, Starting
  <2>11. CacheInv' /\ LoadInv' /\ PlaceInv'
    BY <1>2, <2>3, <2>7 DEF CacheInv, LoadInv, PlaceInv, Starting, RangeUser
  <2>12. pc' \notin RangeUser
    BY <1>2 DEF RangeUser
  <2> QED BY <2>8, <2>10, <2>11, <2>12, NoWriter DEF LayInv
<1>3. CASE SignatureFails({Torn, Signature}) /\ pc' = "sig_erase"
  BY <1>0, <1>1, <1>3, SignatureFailsLayout
<1> QED BY <1>2, <1>3 DEF SignatureProgram

\* nmbm_create_info_table: the first tables of a chip.
LEMMA CreateInfoLayout ==
  ASSUME IndInv, LayInv, nmbm_create_info_table PROVE LayInv'
<1>0. pc = "create" /\ UNCHANGED <<cell, oob>>
  BY DEF nmbm_create_info_table, chip
<1>1. /\ ni \in Instance /\ ni.sig_ba # 0 /\ ni.sig_ba \in Int
  BY <1>0, Numbers DEF IndInv, SigInv
<1>2. CASE PowerOff
  BY <1>0, <1>2, PowerOffQuiet
<1>3. ASSUME NEW t \in nmbm_block_walk_desc(ni.block_state, ni.sig_ba, 1, MgmtStart),
             Rebuild(nmbm_generate_info_table_cache([ni EXCEPT !.top_ba = t]))
      PROVE  LayInv'
  <2>1. t \in MgmtStart + 1 .. ni.sig_ba - 1
    BY <1>1, WalkBelow, GeometryAssumption
  <2>2. t \in Int
    BY <2>1
  <2>3. PICK m : m = [ni EXCEPT !.top_ba = t]
    OBVIOUS
  <2>4. /\ m \in Instance /\ m.sig_ba = ni.sig_ba /\ m.block_mapping = ni.block_mapping
        /\ m.top_ba = t /\ m.protected = ni.protected
    BY <1>1, <2>2, <2>3 DEF Instance
  <2>5. PICK n : n = nmbm_generate_info_table_cache(m)
    OBVIOUS
  <2>6. /\ n \in Instance /\ n.sig_ba = ni.sig_ba /\ n.block_mapping = ni.block_mapping /\ n.top_ba = t
    BY <2>4, <2>5, GenerateCache
  <2>7. n.cache.map = ni.block_mapping /\ n.protected = ni.protected
    BY <2>4, <2>5 DEF nmbm_generate_info_table_cache, Instance
  <2>8. /\ ni' = [n EXCEPT !.main_ba = 0, !.backup_ba = 0, !.map_ba = n.top_ba]
        /\ CallWrite(MgmtStart, n.top_ba, "rb_main")
    BY <1>3, <2>3, <2>5 DEF Rebuild
  <2>9. /\ ni'.sig_ba = ni.sig_ba /\ ni'.block_mapping = ni.block_mapping /\ ni'.top_ba = t
        /\ ni'.backup_ba = 0 /\ ni'.cache.map = ni.block_mapping /\ ni'.protected = ni.protected
    BY <2>6, <2>7, <2>8 DEF Instance
  <2>10. /\ \A lb \in LBlocks : ni.block_mapping[lb] < MgmtStart
         /\ Below(ni.block_mapping, ni.sig_ba) /\ Apart(ni.block_mapping) /\ ~ni.protected
    BY <1>0, <1>1 DEF LayInv, MapInv, LoadInv, Starting
  <2>11. Above(ni.block_mapping, t)
    BY <2>10 DEF Above
  <2>12. pc' = "write" /\ w'.k = "rb_main"
    BY <2>8 DEF CallWrite
  <2>13. Found' = Found
    BY <1>0 DEF Found
  <2>14. ChipInv'
    BY <1>0, <1>1, <2>9, <2>12, <2>13 DEF LayInv, ChipInv
  <2>15. MapInv' /\ CacheInv'
    BY <2>9, <2>10, <2>11, <2>12 DEF MapInv, CacheInv, Starting
  <2>16. LoadInv' /\ PlaceInv'
    BY <2>12 DEF LoadInv, PlaceInv, At, Starting
  <2>17. n.top_ba \in Int /\ n.top_ba <= ni'.top_ba /\ MgmtStart \in Nat /\ MgmtStart <= MgmtStart
    BY <2>2, <2>6, <2>9, GeometryAssumption
  <2>18. "rb_main" \in Writers
    BY DEF Writers
  <2>19. WriterInv'
    BY <2>8, <2>9, <2>17, <2>18, CallsWriter
  <2> QED BY <2>14, <2>15, <2>16, <2>19 DEF LayInv
<1> QED BY <1>2, <1>3 DEF nmbm_create_info_table

\* During the search ni.sig_ba is the highest signature of the chip.
LEMMA SignatureIsMax ==
  ASSUME IndInv, LayInv, pc \in {"search1", "search2", "loaded"}
  PROVE  /\ ni.sig_ba = Max(Found) /\ ni.sig_ba \in Found /\ ni.sig_ba \in Nat
         /\ \A s \in Found : s \in Nat /\ s <= ni.sig_ba
<1>1. ni.sig_ba \in Nat /\ ni.sig_ba # 0
  BY Searching
<1>2. ni.sig_ba \in Found /\ \A s \in Found : s <= ni.sig_ba
  BY <1>1 DEF LayInv, ChipInv
<1>3. Found \in SUBSET (0 .. BlockCount - 1) /\ BlockCount - 1 \in Nat
  BY GeometryAssumption DEF Found, nmbm_find_signature
<1>4. Max(Found) \in Found /\ \A y \in Found : y <= Max(Found)
  BY <1>2, <1>3, MaxNat
<1>5. PICK top : top = Max(Found) /\ top \in Found /\ top <= ni.sig_ba /\ ni.sig_ba <= top
  BY <1>2, <1>4
<1>6. \A s \in Found : s \in Nat
  BY <1>3
<1>7. top = ni.sig_ba
  BY <1>1, <1>5, <1>6
<1> QED BY <1>1, <1>2, <1>5, <1>6, <1>7

\* A table that is loaded maps to different blocks below the signature.
LEMMA TableOnChip ==
  ASSUME IndInv, LayInv, pc \in {"search1", "search2", "loaded"},
         NEW b \in Blocks, cell[b].k = "table"
  PROVE  /\ cell[b].t.map \in Mapping /\ Apart(cell[b].t.map)
         /\ Above(cell[b].t.map, b + 1) /\ Below(cell[b].t.map, ni.sig_ba)
<1>1. OnChip(b, cell[b].t, Found)
  BY DEF LayInv, ChipInv
<1>2. PICK s \in Found : Below(cell[b].t.map, s)
  BY <1>1 DEF OnChip
<1>3. s \in Nat /\ s <= ni.sig_ba /\ ni.sig_ba \in Nat
  BY SignatureIsMax
<1>4. cell[b].t.map \in Mapping
  BY DEF IndInv, TypeOK, Content, Blank, Torn, Signature, InfoTable
<1>5. \A lb \in LBlocks : cell[b].t.map[lb] \in Int
  BY <1>4, MapNumbers
<1>6. Below(cell[b].t.map, ni.sig_ba)
  BY <1>2, <1>3, <1>5 DEF Below
<1> QED BY <1>1, <1>4, <1>6 DEF OnChip

\* Where nmbm_try_load_info_table succeeds a table is loadable.
LEMMA TryLoadLoadable ==
  ASSUME IndInv, LayInv, pc \in {"search1", "search2"}, SearchMore, TryLoad(loc.ba)
  PROVE  /\ loc.ba \in LoadableAt(cell, oob) /\ loc.ba \in Blocks /\ cell[loc.ba].k = "table"
<1>1. /\ ni.sig_ba \in Nat /\ ni.sig_ba < BlockCount /\ loc.ba \in Nat /\ MgmtStart <= loc.ba
  BY Searching
<1>2. loc.ba < ni.sig_ba - TableBlocks
  BY DEF SearchMore
<1>3. loc.ba \in Blocks /\ loc.ba \in MgmtStart .. BlockCount - 1
  BY <1>1, <1>2, GeometryAssumption DEF Blocks
<1>4. ni.sig_ba = Max(Found) /\ Found # {}
  BY SignatureIsMax
<1>5. /\ IsHeader(cell[loc.ba]) /\ TableAt(cell, loc.ba, cell[loc.ba].t)
      /\ nmbm_check_info_table(cell[loc.ba].t, loc.ba, ni.sig_ba)
  BY DEF TryLoad
<1>6. TableRange(loc.ba) \cap oob = {}
  BY DEF TryLoad
<1>7. loc.ba \in LoadableAt(cell, oob)
  BY <1>2, <1>3, <1>4, <1>5, <1>6 DEF LoadableAt, Found
<1> QED BY <1>3, <1>5, <1>7 DEF IsHeader

\* A step of the search leaves everything but the tables it has found.
LEMMA SearchLayout ==
  ASSUME IndInv, LayInv, pc \in {"search1", "search2"}, pc' \in {"search1", "search2", "loaded"},
         UNCHANGED <<cell, oob>>, ni'.sig_ba = ni.sig_ba, ni'.protected = ni.protected,
         Apart(ni'.block_mapping), Below(ni'.block_mapping, ni.sig_ba), LoadInv'
  PROVE  LayInv'
<1>1. Found' = Found /\ ni.sig_ba # 0
  BY Searching DEF Found
<1>2. ChipInv'
  BY <1>1 DEF LayInv, ChipInv
<1>3. MapInv' /\ CacheInv' /\ PlaceInv'
  BY DEF MapInv, CacheInv, PlaceInv, Starting, RangeUser
<1>4. pc' \notin RangeUser
  BY DEF RangeUser
<1> QED BY <1>2, <1>3, <1>4, NoWriter DEF LayInv

\* A block without a loadable table.
LEMMA TryLoadFailsLayout ==
  ASSUME IndInv, LayInv, pc \in {"search1", "search2"}, TryLoadFails, UNCHANGED <<cell, oob>>
  PROVE  LayInv'
<1>1. PICK S : ni' = nmbm_set_block_state(ni, S, BLOCK_ST_BAD)
  BY DEF TryLoadFails
<1>2. loc' = [loc EXCEPT !.ba = @ + 1] /\ pc' = pc
  BY DEF TryLoadFails
<1>3. /\ ni'.sig_ba = ni.sig_ba /\ ni'.block_mapping = ni.block_mapping
      /\ ni'.main_ba = ni.main_ba /\ ni'.backup_ba = ni.backup_ba
      /\ ni'.protected = ni.protected /\ ni'.write_count = ni.write_count
  BY <1>1, Numbers, SetStateRest DEF BlockState
<1>4. /\ loc'.ba = loc.ba + 1 /\ loc'.end = loc.end
      /\ loc'.main_wc = loc.main_wc /\ loc'.main_top = loc.main_top
  BY <1>2, Numbers DEF Locals
<1>5. loc.end <= loc.ba => loc.end <= loc.ba + 1
  BY Numbers
<1>6. Apart(ni.block_mapping) /\ Below(ni.block_mapping, ni.sig_ba)
  BY Searching DEF LayInv, MapInv
<1>7. Loaded(ni.main_ba, loc.main_wc, loc.main_top) => Loaded(ni.main_ba, loc.main_wc, loc.main_top)'
  BY <1>3, <1>4 DEF Loaded
<1>8. LoadInv'
  BY <1>2, <1>3, <1>4, <1>5, <1>7 DEF LayInv, LoadInv, Starting
<1> QED BY <1>2, <1>3, <1>6, <1>8, SearchLayout

\* The search for the first table.
LEMMA SearchFirstLayout ==
  ASSUME IndInv, LayInv, SearchFirst PROVE LayInv'
<1>0. pc = "search1" /\ UNCHANGED <<cell, oob>>
  BY DEF SearchFirst, chip
<1>1. /\ ni \in Instance /\ loc \in Locals /\ ni.backup_ba = 0 /\ loc.ba \in Nat
      /\ ni.sig_ba # 0 /\ MgmtStart < ni.sig_ba /\ ni.sig_ba \in Nat
  BY <1>0, Searching DEF IndInv, SearchInv
<1>2. CASE SearchMore /\ TryLoad(loc.ba) /\ pc' = "search2"
  <2>1. PICK t : t = cell[loc.ba].t
    OBVIOUS
  <2>2. PICK top : top = MappingTop(t, loc.ba, ni.sig_ba)
    OBVIOUS
  <2>3. /\ ni' = Adopt([ni EXCEPT !.main_ba = loc.ba], t)
        /\ loc' = [loc EXCEPT !.ba = loc.ba + TableBlocks, !.end = loc.ba + TableBlocks,
                              !.main_wc = t.write_count, !.main_top = top]
    BY <1>0, <1>2, <2>1, <2>2 DEF SearchFirst, TryLoadFails, PowerOff
  <2>4. /\ ni'.sig_ba = ni.sig_ba /\ ni'.main_ba = loc.ba /\ ni'.backup_ba = 0
        /\ ni'.block_mapping = t.map /\ ni'.write_count = t.write_count
        /\ ni'.protected = ni.protected
    BY <1>1, <2>3 DEF Instance, Adopt
  <2>5. /\ loc'.ba = loc.ba + TableBlocks /\ loc'.end = loc.ba + TableBlocks
        /\ loc'.main_wc = t.write_count /\ loc'.main_top = top
    BY <1>1, <2>3 DEF Locals
  <2>6. loc.ba \in LoadableAt(cell, oob) /\ loc.ba \in Blocks /\ cell[loc.ba].k = "table"
    BY <1>0, <1>2, TryLoadLoadable
  <2>7. Apart(t.map) /\ Below(t.map, ni.sig_ba)
    BY <1>0, <2>1, <2>6, TableOnChip
  <2>8. loc'.end <= loc'.ba
    BY <1>1, <2>5, GeometryAssumption
  <2>9. Loaded(ni.main_ba, loc.main_wc, loc.main_top)'
    BY <1>0, <2>1, <2>2, <2>4, <2>5, <2>6 DEF Loaded
  <2>10. ~ni'.protected
    BY <1>0, <2>4 DEF LayInv, LoadInv, Starting
  <2>11. LoadInv'
    BY <1>0, <1>2, <2>1, <2>4, <2>5, <2>8, <2>9, <2>10 DEF LoadInv
  <2> QED BY <1>0, <1>2, <2>4, <2>7, <2>11, SearchLayout
<1>3. CASE TryLoadFails
  BY <1>0, <1>3, TryLoadFailsLayout
<1>4. CASE ni' = nmbm_scan_and_build(ni) /\ pc' = "create"
  <2>1. /\ ni'.sig_ba = ni.sig_ba /\ ni' \in Instance
        /\ \A lb \in LBlocks : ni'.block_mapping[lb] < MgmtStart
    BY <1>1, <1>4, ScanAndBuild
  <2>2. oob \subseteq Blocks
    BY DEF IndInv, TypeOK
  <2>3. Apart(ni'.block_mapping) /\ ni'.protected = ni.protected
    BY <1>1, <1>4, <2>2, ScanLayout
  <2>4. \A lb \in LBlocks : ni'.block_mapping[lb] \in Int
    BY <2>1, MapNumbers DEF Instance
  <2>5. Below(ni'.block_mapping, ni.sig_ba)
    BY <1>1, <2>1, <2>4, GeometryAssumption DEF Below
  <2>6. Found' = Found
    BY <1>0 DEF Found
  <2>7. ChipInv'
    BY <1>0, <1>1, <1>4, <2>1, <2>6 DEF LayInv, ChipInv
  <2>8. MapInv'
    BY <1>4, <2>1, <2>3, <2>5 DEF MapInv, Starting
  <2>9. ~ni'.protected
    BY <1>0, <2>3 DEF LayInv, LoadInv, Starting
  <2>10. CacheInv' /\ LoadInv' /\ PlaceInv'
    BY <1>4, <2>9 DEF CacheInv, LoadInv, PlaceInv, Starting, RangeUser
  <2>11. pc' \notin RangeUser
    BY <1>4 DEF RangeUser
  <2> QED BY <2>7, <2>8, <2>10, <2>11, NoWriter DEF LayInv
<1>5. CASE PowerOff
  BY <1>0, <1>5, PowerOffQuiet
<1> QED BY <1>0, <1>2, <1>3, <1>4, <1>5 DEF SearchFirst

\* The search for the second table.
LEMMA SearchSecondLayout ==
  ASSUME IndInv, LayInv, SearchSecond PROVE LayInv'
<1>0. pc = "search2" /\ UNCHANGED <<cell, oob>>
  BY DEF SearchSecond, chip
<1>1. /\ ni \in Instance /\ loc \in Locals /\ loc.ba \in Nat /\ MgmtStart <= loc.ba
      /\ ni.sig_ba # 0 /\ ni.sig_ba \in Nat
  BY <1>0, Searching
<1>2. /\ Loaded(ni.main_ba, loc.main_wc, loc.main_top)
      /\ ni.backup_ba = 0 /\ loc.end = ni.main_ba + TableBlocks /\ loc.end <= loc.ba
      /\ ni.write_count = loc.main_wc /\ ni.block_mapping = cell[ni.main_ba].t.map
      /\ ~ni.protected
  BY <1>0 DEF LayInv, LoadInv, Starting
<1>3. Apart(ni.block_mapping) /\ Below(ni.block_mapping, ni.sig_ba)
  BY <1>1 DEF LayInv, MapInv
<1>4. CASE SearchMore /\ TryLoad(loc.ba) /\ pc' = "loaded"
  <2>1. PICK t : t = cell[loc.ba].t
    OBVIOUS
  <2>2. PICK top, n : top = MappingTop(t, loc.ba, ni.sig_ba) /\ n = [ni EXCEPT !.backup_ba = loc.ba]
    OBVIOUS
  <2>3. /\ ni' = IF t.write_count > ni.write_count THEN Adopt(n, t) ELSE n
        /\ loc' = [loc EXCEPT !.end = loc.ba + TableBlocks,
                              !.backup_wc = t.write_count, !.backup_top = top]
    BY <1>0, <1>4, <2>1, <2>2 DEF SearchSecond, TryLoadFails
  <2>4. /\ loc'.end = loc.ba + TableBlocks /\ loc'.backup_wc = t.write_count
        /\ loc'.backup_top = top /\ loc'.main_wc = loc.main_wc /\ loc'.main_top = loc.main_top
    BY <1>1, <2>3 DEF Locals
  <2>5. /\ n \in Instance /\ n.sig_ba = ni.sig_ba /\ n.main_ba = ni.main_ba /\ n.backup_ba = loc.ba
        /\ n.block_mapping = ni.block_mapping /\ n.protected = ni.protected
    BY <1>1, <2>2 DEF Instance
  <2>6. /\ ni'.sig_ba = ni.sig_ba /\ ni'.main_ba = ni.main_ba /\ ni'.backup_ba = loc.ba
        /\ ni'.protected = ni.protected
        /\ ni'.block_mapping = IF t.write_count > ni.write_count THEN t.map ELSE ni.block_mapping
    BY <2>3, <2>5 DEF Instance, Adopt
  <2>7. loc.ba \in LoadableAt(cell, oob) /\ loc.ba \in Blocks /\ cell[loc.ba].k = "table"
    BY <1>0, <1>4, TryLoadLoadable
  <2>8. Apart(t.map) /\ Below(t.map, ni.sig_ba)
    BY <1>0, <2>1, <2>7, TableOnChip
  <2>9. Apart(ni'.block_mapping) /\ Below(ni'.block_mapping, ni.sig_ba)
    BY <1>3, <2>6, <2>8
  <2>10. Loaded(ni.main_ba, loc.main_wc, loc.main_top)'
    BY <1>0, <1>2, <2>4, <2>6 DEF Loaded
  <2>11. Loaded(ni.backup_ba, loc.backup_wc, loc.backup_top)'
    BY <1>0, <2>1, <2>2, <2>4, <2>6, <2>7 DEF Loaded
  <2>12. ni'.backup_ba # 0
    BY <1>1, <2>6, GeometryAssumption
  <2>13. ni'.block_mapping = IF loc'.backup_wc > loc'.main_wc
                               THEN cell'[ni'.backup_ba].t.map ELSE cell'[ni'.main_ba].t.map
    BY <1>0, <1>2, <2>1, <2>4, <2>6
  <2>14. LoadInv'
    BY <1>2, <1>4, <2>4, <2>6, <2>10, <2>11, <2>12, <2>13 DEF LoadInv
  <2> QED BY <1>0, <1>4, <2>6, <2>9, <2>14, SearchLayout
<1>5. CASE TryLoadFails
  BY <1>0, <1>5, TryLoadFailsLayout
<1>6. CASE pc' = "loaded" /\ UNCHANGED <<ni, loc>>
  <2>1. Loaded(ni.main_ba, loc.main_wc, loc.main_top)'
    BY <1>0, <1>2, <1>6 DEF Loaded
  <2>2. LoadInv'
    BY <1>0, <1>2, <1>6, <2>1 DEF LoadInv
  <2> QED BY <1>0, <1>3, <1>6, <2>2, SearchLayout
<1> QED BY <1>0, <1>4, <1>5, <1>6 DEF SearchSecond

\* A table at ba, and what is known of its mapping.
LEMMA LoadableTable ==
  ASSUME IndInv, LayInv, pc = "loaded", NEW ba \in LoadableAt(cell, oob), NEW t, t = cell[ba].t
  PROVE  /\ ba \in Nat /\ MgmtStart <= ba /\ ba < ni.sig_ba - TableBlocks
         /\ t \in InfoTable /\ \A lb \in LBlocks : t.map[lb] \in Int
         /\ \A lb \in LBlocks : t.map[lb] \notin MgmtStart .. ba + TableBlocks - 1
         /\ Below(t.map, ni.sig_ba) /\ Above(t.map, ba + TableBlocks)
<1>1. ni.sig_ba = Max(Found) /\ ni.sig_ba \in Nat /\ ni.sig_ba < BlockCount
  BY SignatureIsMax, Searching
<1>2. /\ ba \in MgmtStart .. BlockCount - 1 /\ IsHeader(cell[ba])
      /\ ba < ni.sig_ba - TableBlocks /\ TableAt(cell, ba, t)
      /\ nmbm_check_info_table(t, ba, ni.sig_ba)
  BY <1>1 DEF LoadableAt, Found
<1>3. ba \in Nat /\ MgmtStart <= ba /\ ba \in Blocks
  BY <1>2, GeometryAssumption DEF Blocks
<1>4. t \in InfoTable
  BY <1>2, <1>3, HeaderTable DEF IndInv, TypeOK
<1>5. \A lb \in LBlocks : t.map[lb] \in Int
  BY <1>4, MapNumbers DEF InfoTable
<1>6. \A lb \in LBlocks : t.map[lb] \notin MgmtStart .. ba + TableBlocks - 1
  BY <1>2 DEF nmbm_check_info_table
<1>7. PICK last : last = ba + TableBlocks - 1
  OBVIOUS
<1>8. last \in Blocks /\ last + 1 = ba + TableBlocks
  BY <1>1, <1>2, <1>3, <1>7, GeometryAssumption DEF Blocks
<1>9. cell[last] = Chunk(TableBlocks, t)
  BY <1>2, <1>7, GeometryAssumption DEF TableAt
<1>10. cell[last].k = "table" /\ cell[last].t = t
  BY <1>9 DEF Chunk
<1>11. Above(t.map, last + 1) /\ Below(t.map, ni.sig_ba)
  BY <1>8, <1>10, TableOnChip
<1> QED BY <1>2, <1>3, <1>4, <1>5, <1>6, <1>8, <1>11

\* The top that nmbm_check_info_table reports for a mapping: nothing is mapped
\* to a block between mgmt_start_ba and it, and it is not below a block up to
\* which nothing is mapped.
LEMMA TopOfMapping ==
  ASSUME NEW t \in InfoTable, NEW ba \in Nat, NEW sig \in Nat, NEW e \in Nat,
         \A lb \in LBlocks : t.map[lb] \in Int,
         \A lb \in LBlocks : t.map[lb] \notin MgmtStart .. ba + TableBlocks - 1,
         MgmtStart <= ba, ba < sig - TableBlocks,
         Below(t.map, sig), Above(t.map, e), e < sig
  PROVE  Above(t.map, MappingTop(t, ba, sig)) /\ e <= MappingTop(t, ba, sig)
<1> DEFINE S == {sig} \cup {p \in {t.map[lb] : lb \in LBlocks} :
                              ba + TableBlocks <= p /\ p < sig}
<1>1. \A x \in S : x \in Nat /\ ba + TableBlocks <= x
  BY GeometryAssumption
<1>2. S \in SUBSET Nat /\ S # {}
  BY <1>1
<1>3. MappingTop(t, ba, sig) = Min(S) - 1
  BY DEF MappingTop
<1>4. \A x \in S : e < x
  BY GeometryAssumption DEF Above
<1>5. \A lb \in LBlocks : t.map[lb] < MgmtStart \/ t.map[lb] \in S
  <2> SUFFICES ASSUME NEW lb \in LBlocks, ~(t.map[lb] < MgmtStart) PROVE t.map[lb] \in S
    OBVIOUS
  <2>1. t.map[lb] \in Int /\ t.map[lb] < sig
    BY DEF Below
  <2>2. ba + TableBlocks <= t.map[lb]
    BY <2>1, GeometryAssumption
  <2> QED BY <2>1, <2>2
<1> HIDE DEF S
<1>6. PICK m \in S : m = Min(S) /\ \A y \in S : m <= y
  BY <1>2, MinNat
<1>7. m \in Nat /\ e < m
  BY <1>1, <1>4, <1>6
<1>8. \A lb \in LBlocks : t.map[lb] < MgmtStart \/ m - 1 < t.map[lb]
  <2>1. \A lb \in LBlocks : t.map[lb] < MgmtStart \/ m <= t.map[lb]
    BY <1>5, <1>6
  <2> QED BY <1>7, <2>1
<1> QED BY <1>3, <1>6, <1>7, <1>8 DEF Above

\* nmbm_load_info_table brings the tables to the same write count, or writes
\* the missing one.  Of two tables with the same write count it takes the
\* mapping from one and the place of the spare blocks from both.
LEMMA LoadInfoLayout ==
  ASSUME IndInv, LayInv, WriteCountIdentifies, nmbm_load_info_table PROVE LayInv'
<1>0. pc = "loaded" /\ UNCHANGED <<cell, oob, loc>>
  BY DEF nmbm_load_info_table, chip
<1>1. /\ ni \in Instance /\ loc \in Locals /\ ni.sig_ba \in Nat /\ ni.sig_ba # 0
      /\ loc.main_top \in Int /\ loc.backup_top \in Int /\ loc.main_wc \in Nat /\ loc.backup_wc \in Nat
  BY <1>0, Searching DEF Locals
<1>2. /\ Loaded(ni.main_ba, loc.main_wc, loc.main_top) /\ ~ni.protected
      /\ ni.backup_ba = 0 => /\ loc.end = ni.main_ba + TableBlocks
                             /\ ni.block_mapping = cell[ni.main_ba].t.map
      /\ ni.backup_ba # 0 =>
           /\ Loaded(ni.backup_ba, loc.backup_wc, loc.backup_top)
           /\ ni.main_ba + TableBlocks <= ni.backup_ba /\ loc.end = ni.backup_ba + TableBlocks
           /\ ni.block_mapping = IF loc.backup_wc > loc.main_wc
                                   THEN cell[ni.backup_ba].t.map ELSE cell[ni.main_ba].t.map
  BY <1>0 DEF LayInv, LoadInv, Starting
<1>3. PICK tm : tm = cell[ni.main_ba].t
  OBVIOUS
<1>4. PICK tb : tb = cell[ni.backup_ba].t
  OBVIOUS
<1>5. /\ ni.main_ba \in Nat /\ MgmtStart <= ni.main_ba /\ ni.main_ba < ni.sig_ba - TableBlocks
      /\ tm \in InfoTable /\ \A lb \in LBlocks : tm.map[lb] \in Int
      /\ \A lb \in LBlocks : tm.map[lb] \notin MgmtStart .. ni.main_ba + TableBlocks - 1
      /\ Below(tm.map, ni.sig_ba) /\ Above(tm.map, ni.main_ba + TableBlocks)
  BY <1>0, <1>2, <1>3, LoadableTable DEF Loaded
<1>6. ni.backup_ba # 0 =>
        /\ ni.backup_ba \in Nat /\ MgmtStart <= ni.backup_ba /\ ni.backup_ba < ni.sig_ba - TableBlocks
        /\ tb \in InfoTable /\ \A lb \in LBlocks : tb.map[lb] \in Int
        /\ \A lb \in LBlocks : tb.map[lb] \notin MgmtStart .. ni.backup_ba + TableBlocks - 1
        /\ Below(tb.map, ni.sig_ba) /\ Above(tb.map, ni.backup_ba + TableBlocks)
  BY <1>0, <1>2, <1>4, LoadableTable DEF Loaded
<1>7. loc.main_top = MappingTop(tm, ni.main_ba, ni.sig_ba)
  BY <1>2, <1>3 DEF Loaded
<1>8. ni.backup_ba # 0 => loc.backup_top = MappingTop(tb, ni.backup_ba, ni.sig_ba)
  BY <1>2, <1>4 DEF Loaded
<1>9. Above(tm.map, loc.main_top) /\ ni.main_ba + TableBlocks <= loc.main_top
  <2>1. ni.main_ba + TableBlocks \in Nat /\ ni.main_ba + TableBlocks < ni.sig_ba
    BY <1>1, <1>5, GeometryAssumption
  <2> QED BY <1>1, <1>5, <1>7, <2>1, TopOfMapping
<1>10. ni.backup_ba # 0 =>
         Above(tb.map, loc.backup_top) /\ ni.backup_ba + TableBlocks <= loc.backup_top
  <2>1. ni.backup_ba # 0 =>
          ni.backup_ba + TableBlocks \in Nat /\ ni.backup_ba + TableBlocks < ni.sig_ba
    BY <1>1, <1>6, GeometryAssumption
  <2> QED BY <1>1, <1>6, <1>8, <2>1, TopOfMapping
<1>11. ni.backup_ba # 0 /\ loc.main_wc = loc.backup_wc => tm = tb
  BY <1>2, <1>3, <1>4 DEF Loaded, WriteCountIdentifies
<1>12. ni.backup_ba # 0 /\ loc.main_wc = loc.backup_wc =>
         ni.backup_ba + TableBlocks <= loc.main_top
  <2> SUFFICES ASSUME ni.backup_ba # 0, loc.main_wc = loc.backup_wc
               PROVE  ni.backup_ba + TableBlocks <= loc.main_top
    OBVIOUS
  <2>1. ni.backup_ba + TableBlocks \in Nat /\ ni.backup_ba + TableBlocks < ni.sig_ba
    BY <1>1, <1>6, GeometryAssumption
  <2>2. Above(tm.map, ni.backup_ba + TableBlocks)
    BY <1>6, <1>11
  <2> QED BY <1>1, <1>5, <1>7, <2>1, <2>2, TopOfMapping
<1>13. PICK newer : newer = IF ni.backup_ba = 0 \/ loc.main_wc >= loc.backup_wc
                              THEN loc.main_top ELSE loc.backup_top
  OBVIOUS
<1>14. newer \in Int
  BY <1>1, <1>13
<1>15. PICK count \in Nat : count = DataBlockCount(ni.block_mapping)
  BY <1>1, DataBlockCountType DEF Instance
<1>16. PICK m : m = [ni EXCEPT !.top_ba = newer, !.map_ba = loc.end, !.data_count = count]
  OBVIOUS
<1>17. /\ m \in Instance /\ m.sig_ba = ni.sig_ba /\ m.block_mapping = ni.block_mapping
       /\ m.main_ba = ni.main_ba /\ m.backup_ba = ni.backup_ba /\ m.top_ba = newer
       /\ m.map_ba = loc.end /\ m.protected = ni.protected
  <2>1. loc.end \in Nat
    BY Numbers
  <2>2. m \in Instance
    BY <1>1, <1>14, <1>15, <1>16, <2>1 DEF Instance
  <2> QED BY <1>1, <1>16, <2>2 DEF Instance
<1>18. PICK n : n = nmbm_generate_info_table_cache(m)
  OBVIOUS
<1>19. /\ n \in Instance /\ n.sig_ba = ni.sig_ba /\ n.block_mapping = ni.block_mapping
       /\ n.main_ba = ni.main_ba /\ n.backup_ba = ni.backup_ba
       /\ n.top_ba = newer /\ n.map_ba = loc.end
  BY <1>17, <1>18, GenerateCache
<1>20. n.cache.map = ni.block_mapping /\ n.protected = ni.protected
  BY <1>17, <1>18 DEF nmbm_generate_info_table_cache, Instance
<1>21. PICK d : d = [n EXCEPT !.dirty = TRUE]
  OBVIOUS
<1>22. /\ d.sig_ba = n.sig_ba /\ d.block_mapping = n.block_mapping
       /\ d.main_ba = n.main_ba /\ d.backup_ba = n.backup_ba
       /\ d.top_ba = n.top_ba /\ d.map_ba = n.map_ba
       /\ d.cache = n.cache /\ d.protected = n.protected
  BY <1>19, <1>21 DEF Instance
<1>23. \/ /\ n.backup_ba = 0 /\ ni' = n /\ CallWrite(MgmtStart, n.main_ba, "rs_front")
       \/ /\ n.backup_ba # 0 /\ loc.main_wc < loc.backup_wc /\ ni' = d
          /\ CallWrite(n.main_ba, n.backup_ba, "us_main")
       \/ /\ n.backup_ba # 0 /\ loc.main_wc > loc.backup_wc /\ ni' = d
          /\ CallWrite(n.backup_ba, n.top_ba, "us_backup")
       \/ /\ n.backup_ba # 0 /\ loc.main_wc = loc.backup_wc /\ ni' = n
          /\ pc' = "load_ok"
  BY <1>13, <1>15, <1>16, <1>18, <1>21 DEF nmbm_load_info_table
<1>24. /\ ni'.sig_ba = ni.sig_ba /\ ni'.block_mapping = ni.block_mapping
       /\ ni'.main_ba = ni.main_ba /\ ni'.backup_ba = ni.backup_ba
       /\ ni'.top_ba = newer /\ ni'.map_ba = loc.end
       /\ ni'.cache.map = ni.block_mapping /\ ~ni'.protected
  BY <1>2, <1>19, <1>20, <1>22, <1>23
<1>25. pc' \in {"write", "load_ok"}
  BY <1>23 DEF CallWrite
<1>26. Above(ni.block_mapping, newer)
  <2>1. CASE ni.backup_ba = 0
    BY <1>2, <1>3, <1>9, <1>13, <2>1
  <2>2. CASE ni.backup_ba # 0 /\ loc.main_wc >= loc.backup_wc
    <3>1. ~(loc.backup_wc > loc.main_wc)
      BY <1>1, <2>2
    <3> QED BY <1>2, <1>3, <1>9, <1>13, <2>2, <3>1
  <2>3. CASE ni.backup_ba # 0 /\ ~(loc.main_wc >= loc.backup_wc)
    <3>1. loc.backup_wc > loc.main_wc
      BY <1>1, <2>3
    <3> QED BY <1>2, <1>4, <1>10, <1>13, <2>3, <3>1
  <2> QED BY <2>1, <2>2, <2>3
<1>27. Below(ni.block_mapping, ni.sig_ba) /\ Apart(ni.block_mapping)
  BY <1>1 DEF LayInv, MapInv
<1>28. Found' = Found
  BY <1>0 DEF Found
<1>29. ChipInv'
  BY <1>0, <1>1, <1>24, <1>25, <1>28 DEF LayInv, ChipInv
<1>30. MapInv' /\ CacheInv' /\ LoadInv'
  BY <1>24, <1>25, <1>26, <1>27 DEF MapInv, CacheInv, LoadInv, Starting
<1>31. loc.end = (IF ni.backup_ba = 0 THEN ni.main_ba ELSE ni.backup_ba) + TableBlocks
  BY <1>2
<1>32. Placed(ni')
  <2>1. CASE ni.backup_ba = 0
    <3>1. ni.main_ba + TableBlocks <= loc.end
      BY <1>2, <1>5, <2>1, GeometryAssumption
    <3> QED BY <1>5, <1>24, <2>1, <3>1 DEF Placed
  <2>2. CASE ni.backup_ba # 0
    <3>1. /\ ni.main_ba + TableBlocks <= ni.backup_ba /\ ni.backup_ba + TableBlocks <= loc.end
          /\ ni.main_ba + TableBlocks <= loc.end
      BY <1>2, <1>5, <1>6, <2>2, GeometryAssumption
    <3> QED BY <1>5, <1>24, <2>2, <3>1 DEF Placed
  <2> QED BY <2>1, <2>2
<1>33. ni.backup_ba = 0 \/ loc.main_wc <= loc.backup_wc => loc.end <= newer
  <2>1. CASE ni.backup_ba = 0
    BY <1>2, <1>9, <1>13, <2>1
  <2>2. CASE ni.backup_ba # 0 /\ loc.main_wc = loc.backup_wc
    <3>1. loc.main_wc >= loc.backup_wc
      BY <1>1, <2>2
    <3> QED BY <1>2, <1>12, <1>13, <2>2, <3>1
  <2>3. CASE ni.backup_ba # 0 /\ loc.main_wc < loc.backup_wc
    <3>1. ~(loc.main_wc >= loc.backup_wc)
      BY <1>1, <2>3
    <3> QED BY <1>2, <1>10, <1>13, <2>3, <3>1
  <2> QED BY <1>1, <2>1, <2>2, <2>3
<1>34. MgmtStart \in Nat /\ MgmtStart <= MgmtStart /\ newer <= newer
  BY <1>14, GeometryAssumption
<1>35. CASE n.backup_ba = 0 /\ ni' = n /\ CallWrite(MgmtStart, n.main_ba, "rs_front")
  <2>1. "rs_front" \in Writers /\ n.main_ba \in Int /\ n.main_ba <= ni'.main_ba
    BY <1>5, <1>19, <1>24 DEF Writers
  <2>2. n.main_ba <= ni'.top_ba /\ ni'.map_ba <= ni'.top_ba
    BY <1>5, <1>14, <1>19, <1>24, <1>31, <1>33, <1>35, GeometryAssumption
  <2>3. WriterInv'
    BY <1>19, <1>24, <1>34, <1>35, <2>1, <2>2, CallsWriter
  <2> QED BY <1>29, <1>30, <1>32, <2>2, <2>3, InPlace DEF LayInv
<1>36. CASE /\ n.backup_ba # 0 /\ loc.main_wc < loc.backup_wc /\ ni' = d
            /\ CallWrite(n.main_ba, n.backup_ba, "us_main")
  <2>1. "us_main" \in Writers /\ n.main_ba \in Nat /\ MgmtStart <= n.main_ba
        /\ n.backup_ba \in Int /\ n.backup_ba <= ni'.backup_ba
    BY <1>5, <1>6, <1>19, <1>24, <1>36 DEF Writers
  <2>2. loc.main_wc <= loc.backup_wc
    BY <1>1, <1>36
  <2>3. n.backup_ba <= ni'.top_ba /\ ni'.map_ba <= ni'.top_ba
    BY <1>6, <1>14, <1>19, <1>24, <1>31, <1>33, <1>36, <2>2, GeometryAssumption
  <2>4. WriterInv'
    BY <1>19, <1>24, <1>36, <2>1, <2>3, CallsWriter
  <2> QED BY <1>29, <1>30, <1>32, <2>3, <2>4, InPlace DEF LayInv
<1>37. CASE /\ n.backup_ba # 0 /\ loc.main_wc > loc.backup_wc /\ ni' = d
            /\ CallWrite(n.backup_ba, n.top_ba, "us_backup")
  <2>1. "us_backup" \in Writers /\ n.backup_ba \in Nat /\ MgmtStart <= n.backup_ba
        /\ ni'.backup_ba <= n.backup_ba /\ n.top_ba \in Int /\ n.top_ba <= ni'.top_ba
    BY <1>6, <1>14, <1>19, <1>24, <1>37 DEF Writers
  <2>2. WriterInv'
    BY <1>19, <1>24, <1>37, <2>1, CallsWriter
  <2>3. pc' = "write" /\ w'.k = "us_backup"
    BY <1>37 DEF CallWrite
  <2>4. PlaceInv'
    BY <1>32, <2>3 DEF PlaceInv, At
  <2> QED BY <1>29, <1>30, <2>2, <2>4 DEF LayInv
<1>38. CASE n.backup_ba # 0 /\ loc.main_wc = loc.backup_wc /\ ni' = n /\ pc' = "load_ok"
  <2>1. ni'.map_ba <= ni'.top_ba
    BY <1>1, <1>24, <1>33, <1>38
  <2>2. pc' \notin RangeUser
    BY <1>38 DEF RangeUser
  <2> QED BY <1>29, <1>30, <1>32, <2>1, <2>2, InPlace, NoWriter DEF LayInv
<1> QED BY <1>23, <1>35, <1>36, <1>37, <1>38

\* A power cut leaves the block that was being erased or programmed torn, or
\* as it was: no table, and not the signature of a running instance.
LEMMA PowerFailsLayout ==
  ASSUME IndInv, LayInv, PowerFails PROVE LayInv'
<1>0. PowerOff /\ oob' = oob /\ pc # "off"
  BY DEF PowerFails
<1>1. TypeOK /\ cell \in [Blocks -> Content]
  BY DEF IndInv, TypeOK
<1>2. CASE cell' = cell
  BY <1>0, <1>2, PowerOffQuiet
<1>3. ASSUME NEW b \in InFlight, NEW c \in {Torn, Signature}, cell' = [cell EXCEPT ![b] = c]
      PROVE  LayInv'
  <2>1. b \in Blocks /\ Torn.k # "table" /\ Signature.k # "table"
    BY DEF InFlight, Torn, Signature
  <2>2. /\ \A a \in Blocks : a # b => cell'[a] = cell[a]
        /\ \A a \in Blocks : cell'[a].k = "table" => cell'[a] = cell[a]
    BY <1>1, <1>3, <2>1
  <2>3. CASE pc \in {"sig_erase", "sig_program"}
    <3>1. \A a \in Blocks : cell'[a].k # "table"
      BY <2>2, <2>3 DEF LayInv, ChipInv
    <3> QED BY <1>0, <3>1, PowerOffLayout
  <2>4. CASE pc \notin {"sig_erase", "sig_program"}
    <3>1. ni.sig_ba # 0
      BY <1>0, <2>4 DEF IndInv, SigInv
    <3>2. b < ni.sig_ba
      <4>1. CASE pc \in {"write", "program", "erase"}
        <5>1. b = w.ba /\ w.ba < w.limit
          <6>1. CASE pc = "program"
            BY <6>1 DEF InFlight, IndInv, FrameInv, RangeUser
          <6>2. CASE pc \in {"write", "erase"}
            BY <6>2, Numbers DEF InFlight, WriteReturns
          <6> QED BY <4>1, <6>1, <6>2
        <5>2. w.limit < ni.sig_ba
          BY <4>1, InLoop
        <5> QED BY <5>1, <5>2, Numbers
      <4>2. CASE pc \in {"er_try", "wr_program"}
        <5>1. b = ni.block_mapping[loc.lb]
          BY <4>2 DEF InFlight
        <5>2. ni.block_mapping[loc.lb] # Unmapped /\ loc.lb \in LBlocks
          BY <4>2, Numbers DEF IndInv, MappedInv, Locals
        <5> QED BY <3>1, <5>1, <5>2, BehindLogic
      <4> QED BY <2>4, <4>1, <4>2 DEF InFlight
    <3>3. \A a \in Blocks : ni.sig_ba <= a => a # b
      BY <2>1, <3>2, Numbers DEF Blocks
    <3>4. \A a \in Blocks : cell'[a].k = "table" => OnChip(a, cell'[a].t, Found')
      BY <1>0, <1>1, <2>2, <3>1, <3>3, ChipKept DEF LayInv
    <3> QED BY <1>0, <3>4, PowerOffLayout
  <2> QED BY <2>3, <2>4
<1> QED BY <1>2, <1>3 DEF PowerFails

\* nmbm_detach at its end.
LEMMA DetachedLayout ==
  ASSUME LayInv, Detached PROVE LayInv'
BY PowerOffQuiet DEF Detached, chip

\* A step that changes nothing.
LEMMA StutterLayout ==
  ASSUME LayInv, UNCHANGED vars PROVE LayInv'
<1> USE DEF vars
<1>1. Found' = Found /\ \A k : At(k)' <=> At(k)
  BY DEF Found, At
<1>2. ChipInv' /\ MapInv' /\ CacheInv'
  BY <1>1 DEF LayInv, ChipInv, MapInv, CacheInv
<1>3. LoadInv'
  BY DEF LayInv, LoadInv, Loaded, Good
<1>4. PlaceInv'
  BY <1>1 DEF LayInv, PlaceInv, Placed
<1>5. TableFrame => TableFrame'
  BY DEF TableFrame, Base, Limit
<1>6. WriterInv'
  BY <1>1, <1>5 DEF LayInv, WriterInv
<1> QED BY <1>2, <1>3, <1>4, <1>6 DEF LayInv

-----------------------------------------------------------------------------
(* The theorems.                                                           *)

\* The invariant holds before the first attach.
LEMMA LayInvInit == Init => LayInv
<1> SUFFICES ASSUME Init PROVE LayInv
  OBVIOUS
<1>1. /\ pc = "off" /\ ni.sig_ba = 0 /\ ni.block_mapping = NoMapping
      /\ \A b \in Blocks : cell[b].k # "table"
  BY DEF Init, nmbm_init_structure, Blank
<1>2. Apart(NoMapping)
  BY DEF Apart, NoMapping
<1>3. ChipInv /\ MapInv /\ CacheInv /\ LoadInv /\ PlaceInv
  BY <1>1, <1>2 DEF ChipInv, MapInv, CacheInv, LoadInv, PlaceInv, Starting, RangeUser
<1>4. WriterInv
  BY <1>1 DEF WriterInv, At, RangeUser
<1> QED BY <1>3, <1>4 DEF LayInv

\* Every step preserves it, where the hypotheses hold.
LEMMA LayInvNext ==
  IndInv /\ LayInv /\ WriteCountIdentifies /\ TopIsGood /\ [Next]_vars => LayInv'
<1> SUFFICES ASSUME IndInv, LayInv, WriteCountIdentifies, TopIsGood, [Next]_vars PROVE LayInv'
  OBVIOUS
<1>1. CASE DriverStep
  BY <1>1, WriteReturnLayout, WriteEraseLayout, WriteProgramLayout, EraseRangeLayout,
     RebuildMainLayout, RebuildBackupLayout, UpdateLayout, UpdateBackupLayout, UpdateMainLayout,
     RescueTmpLayout, RescueMainLayout, MapBlockLayout, MapFailedLayout, WriteSignatureLayout,
     SignatureProgramLayout, CreateInfoLayout, CallLayout, CreateMappedLayout,
     CreateDoneLayout, SearchFirstLayout, SearchSecondLayout, LoadInfoLayout,
     UpdateSingleLayout, RescueFrontLayout, RescueNextLayout, LoadDoneLayout,
     EraseLogicLayout, EraseMappedLayout, WriteLogicLayout, DetachedLayout
     DEF DriverStep
<1>2. CASE UserStep
  BY <1>2, AttachLayout, CallLayout, MarkBadLayout DEF UserStep
<1>3. CASE PowerFails
  BY <1>3, PowerFailsLayout
<1>4. CASE UNCHANGED vars
  BY <1>4, StutterLayout
<1> QED BY <1>1, <1>2, <1>3, <1>4 DEF Next, Retired

\* The invariant holds in every state that the hypotheses allow.
THEOREM LayoutInvariance == Spec /\ []WriteCountIdentifies /\ []TopIsGood => []LayInv
BY Invariance, LayInvInit, LayInvNext, PTL DEF Spec

\* Between operations the management area is main table, backup table, spare
\* blocks, remapped blocks, signature: whatever blocks fail and wherever the
\* power is cut, nmbm-core.c loses that order only in one of the two ways of
\* the hypotheses.
THEOREM LayoutKept == Spec /\ []WriteCountIdentifies /\ []TopIsGood => []Layout
<1>1. IndInv /\ LayInv => Layout
  <2> SUFFICES ASSUME IndInv, LayInv, pc = "idle", ~ni.protected
               PROVE  /\ Placed(ni) /\ ni.map_ba <= ni.top_ba /\ ni.top_ba < ni.sig_ba
                      /\ Above(ni.block_mapping, ni.top_ba) /\ Below(ni.block_mapping, ni.sig_ba)
    BY DEF Layout, Idle, Placed, Above, Below
  <2>1. pc \notin Starting /\ pc # "load_failed" /\ ~At("rb_main") /\ ~At("us_backup")
    BY DEF Starting, At
  <2>2. ni.sig_ba # 0 /\ ni \in Instance /\ Keeps(ni, loc)
    BY <2>1, Ready
  <2>3. ni.top_ba < ni.sig_ba
    BY <2>2, AreaNat DEF Keeps, SparesIn
  <2>4. Placed(ni) /\ ni.map_ba <= ni.top_ba
    BY <2>1 DEF LayInv, PlaceInv
  <2>5. Above(ni.block_mapping, ni.top_ba) /\ Below(ni.block_mapping, ni.sig_ba)
    BY <2>1, <2>2 DEF LayInv, MapInv
  <2> QED BY <2>3, <2>4, <2>5
<1> QED BY <1>1, Invariance, LayoutInvariance, PTL

\* No physical block serves two logic blocks: nmbm_build_mapping_table gives
\* each its own, nmbm_map_block takes one that no logic block has, and no
\* table that can ever be loaded maps two to one.
THEOREM NothingShared == Spec /\ []WriteCountIdentifies /\ []TopIsGood => []NoSharing
<1>1. LayInv => NoSharing
  BY DEF LayInv, MapInv, Apart, NoSharing
<1> QED BY <1>1, LayoutInvariance, PTL

-----------------------------------------------------------------------------
(***************************************************************************)
(* Second part: a block that an info table calls bad carries a bad mark on *)
(* the chip.  nmbm-core.c gives a block up for good only on a failure of   *)
(* its own, as long as bad marks can be written and the search for tables  *)
(* at attach meets no torn block without a mark ("Only mark bad in         *)
(* memory", 1850).                                                         *)
(***************************************************************************)

\* The blocks that nmbm_try_load_info_table reads are torn only if they
\* failed and were marked: no power cut has left one where the search passes.
TornSeen ==
  pc \in {"search1", "search2"} /\ SearchMore =>
    \A b \in TableRange(loc.ba) : cell[b] = Torn => b \in oob

\* What st says of a block comes from the block: a bad one has a mark in its
\* spare area, and one that must be replaced has failed.
Justified(st) ==
  \A b \in Blocks : /\ st[b] = BLOCK_ST_BAD => b \in oob
                    /\ st[b] = BLOCK_ST_NEED_REMAP => b \in Weak

\* The states in memory, in the cache of the table being written and in every
\* table on the chip; and a block is being replaced only if it is not good.
MarkInv ==
  /\ Justified(ni.block_state) /\ Justified(ni.cache.state)
  /\ \A b \in Blocks : cell[b].k = "table" => Justified(cell[b].t.state)
  /\ loc.mk = "er_mapped" => ~Good(loc.pb)

-----------------------------------------------------------------------------
(* Steps in general.                                                       *)

\* Marks are never removed, so it is enough that what is new is marked.
LEMMA MarkStep ==
  ASSUME MarkInv, oob \subseteq oob', Justified(ni.block_state)',
         ni'.cache = ni.cache \/ ni'.cache.state = ni'.block_state,
         \A b \in Blocks : cell'[b].k = "table" => cell'[b] = cell[b] \/ cell'[b].t = ni.cache,
         loc'.mk = "er_mapped" => ~Good(loc.pb)'
  PROVE  MarkInv'
<1>1. Justified(ni.cache.state)'
  BY DEF MarkInv, Justified
<1>2. \A b \in Blocks : cell'[b].k = "table" => Justified(cell[b].t.state)'
  BY DEF MarkInv, Justified
<1> QED BY <1>1, <1>2 DEF MarkInv

\* A step of the control: the chip and the block states stay.
LEMMA QuietStep ==
  ASSUME MarkInv, UNCHANGED chip, ni'.block_state = ni.block_state,
         ni'.cache = ni.cache \/ ni'.cache.state = ni'.block_state,
         loc'.mk # "er_mapped" \/ (loc'.mk = loc.mk /\ loc'.pb = loc.pb)
  PROVE  MarkInv'
<1>1. Justified(ni.block_state)' /\ oob' = oob /\ cell' = cell
  BY DEF MarkInv, Justified, chip
<1>2. loc'.mk = "er_mapped" => ~Good(loc.pb)'
  BY DEF MarkInv, Good
<1> QED BY <1>1, <1>2, MarkStep

\* The power is off: the memory is initial.
LEMMA PowerOffMarks ==
  ASSUME MarkInv, PowerOff, oob \subseteq oob',
         \A b \in Blocks : cell'[b].k = "table" => cell'[b] = cell[b]
  PROVE  MarkInv'
<1>1. ni'.block_state = AllGood /\ ni'.cache.state = AllGood /\ loc'.mk # "er_mapped"
  BY DEF PowerOff, nmbm_init_structure, L0
<1>2. Justified(AllGood)'
  BY DEF Justified, AllGood, BLOCK_ST_BAD, BLOCK_ST_GOOD, BLOCK_ST_NEED_REMAP
<1>3. Justified(ni.block_state)'
  BY <1>1, <1>2 DEF Justified
<1> QED BY <1>1, <1>3, MarkStep

\* Setting the blocks of a set with marks to bad.
LEMMA SetBadMarked ==
  ASSUME NEW n \in Instance, NEW S \in SUBSET oob', oob \subseteq oob',
         Justified(n.block_state),
         ni'.block_state = nmbm_set_block_state(n, S, BLOCK_ST_BAD).block_state
  PROVE  /\ Justified(ni.block_state)'
         /\ \A b \in Blocks : n.block_state[b] # BLOCK_ST_GOOD => ni'.block_state[b] # BLOCK_ST_GOOD
<1>1. \A b \in Blocks : ni'.block_state[b] = IF b \in S THEN BLOCK_ST_BAD ELSE n.block_state[b]
  BY DEF nmbm_set_block_state, Instance
<1> QED BY <1>1 DEF Justified, BLOCK_ST_BAD, BLOCK_ST_GOOD, BLOCK_ST_NEED_REMAP

\* nmbm_set_block_state leaves the cache.
LEMMA SetStateCache ==
  ASSUME NEW n \in Instance, NEW S, NEW st
  PROVE  nmbm_set_block_state(n, S, st).cache = n.cache
BY DEF nmbm_set_block_state, Instance

\* A failed block gets its mark, and no table appears.
LEMMA FailMarks ==
  ASSUME ~MarkMayFail, TypeOK, NEW b \in Blocks, NEW junk, FailBlock(b, junk)
  PROVE  /\ oob' = oob \cup {b}
         /\ \A a \in Blocks : cell'[a].k = "table" => cell'[a] = cell[a]
<1>1. cell' = [cell EXCEPT ![b] = Torn] /\ oob' = oob \cup {b} /\ cell \in [Blocks -> Content]
  BY DEF FailBlock, TypeOK
<1> QED BY <1>1 DEF Torn


-----------------------------------------------------------------------------
(* The control of the driver: the tables are moved and rewritten without a *)
(* change of a block state.                                                *)

\* nmbm_rebuild_info_table.
LEMMA RebuildQuiet ==
  ASSUME NEW n \in Instance, Rebuild(n)
  PROVE  ni'.block_state = n.block_state /\ ni'.cache = n.cache
BY DEF Rebuild, Instance

\* The label write_main_table, which may rebuild both tables.
LEMMA WriteMainQuiet ==
  ASSUME NEW n \in Instance, NEW limit, loc \in Locals, WriteMain(n, limit)
  PROVE  /\ ni'.block_state = n.block_state /\ ni'.cache = n.cache
         /\ loc'.mk = loc.mk /\ loc'.pb = loc.pb
<1>1. CASE n.main_ba = 0
  <2>1. Rebuild(n) /\ loc' = [loc EXCEPT !.rk = "update"]
    BY <1>1 DEF WriteMain
  <2> QED BY <2>1, RebuildQuiet DEF Locals
<1>2. CASE n.main_ba # 0
  BY <1>2 DEF WriteMain
<1> QED BY <1>1, <1>2

\* nmbm_generate_info_table_cache copies the block states.
LEMMA GenerateQuiet ==
  ASSUME NEW n \in Instance
  PROVE  /\ nmbm_generate_info_table_cache(n) \in Instance
         /\ nmbm_generate_info_table_cache(n).block_state = n.block_state
         /\ nmbm_generate_info_table_cache(n).cache.state = n.block_state
<1>1. nmbm_generate_info_table_cache(n) \in Instance
  BY GenerateCache
<1> QED BY <1>1 DEF nmbm_generate_info_table_cache, Instance

\* Rewriting, rebuilding and rescuing the tables of a running instance.
LEMMA TablesQuiet ==
  ASSUME TypeOK, MarkInv,
         WriteReturn \/ RebuildMain \/ RebuildBackup \/ nmbm_update_info_table \/ UpdateBackup
           \/ UpdateMain \/ RescueTmp \/ RescueMain
  PROVE  MarkInv'
<1>0. ni \in Instance /\ loc \in Locals
  BY DEF TypeOK
<1> DEFINE Quiet == /\ ni'.block_state = ni.block_state
                    /\ ni'.cache = ni.cache \/ ni'.cache.state = ni'.block_state
                    /\ loc'.mk = loc.mk /\ loc'.pb = loc.pb
<1>1. CASE WriteReturn
  BY <1>1, QuietStep DEF WriteReturn, chip
<1>2. CASE RebuildMain
  <2>1. Quiet
    BY <1>0, <1>2 DEF RebuildMain, nmbm_mark_tables_clean, Instance, Locals
  <2> QED BY <1>2, <2>1, QuietStep DEF RebuildMain
<1>3. CASE RebuildBackup
  <2>1. Quiet
    BY <1>0, <1>3 DEF RebuildBackup, Instance
  <2> QED BY <1>3, <2>1, QuietStep DEF RebuildBackup
<1>4. CASE nmbm_update_info_table
  <2> DEFINE n == nmbm_generate_info_table_cache(ni)
  <2>1. n \in Instance /\ n.block_state = ni.block_state /\ n.cache.state = ni.block_state
    BY <1>0, GenerateQuiet
  <2> HIDE DEF n
  <2>2. CASE ni' = ni /\ loc' = [loc EXCEPT !.ok = TRUE]
    BY <1>0, <1>4, <2>2, QuietStep DEF nmbm_update_info_table, Locals
  <2>3. CASE WriteMain(n, n.top_ba)
    <3>1. /\ ni'.block_state = n.block_state /\ ni'.cache = n.cache
          /\ loc'.mk = loc.mk /\ loc'.pb = loc.pb
      BY <1>0, <2>1, <2>3, WriteMainQuiet
    <3> QED BY <1>4, <2>1, <3>1, QuietStep DEF nmbm_update_info_table
  <2>4. CASE ni' = n /\ loc' = loc
    BY <1>4, <2>1, <2>4, QuietStep DEF nmbm_update_info_table
  <2> QED BY <1>4, <2>2, <2>3, <2>4 DEF nmbm_update_info_table, n
<1>5. CASE UpdateBackup
  <2>1. PICK n, limit : /\ n \in Instance /\ n.block_state = ni.block_state /\ n.cache = ni.cache
                        /\ WriteMain(n, limit)
    <3> DEFINE a == nmbm_mark_tables_clean(
                      [ni EXCEPT !.backup_ba = TableStart, !.map_ba = TableEnd])
               c == [ni EXCEPT !.map_ba = ni.backup_ba, !.backup_ba = 0]
    <3>1. TableStart \in Nat /\ TableEnd \in Nat
      BY DEF TypeOK, TableStart, TableEnd, Frame
    <3>2. /\ a \in Instance /\ a.block_state = ni.block_state /\ a.cache = ni.cache
          /\ c \in Instance /\ c.block_state = ni.block_state /\ c.cache = ni.cache
      BY <1>0, <3>1 DEF nmbm_mark_tables_clean, Instance
    <3>3. WriteMain(a, TableStart) \/ WriteMain(c, ni.top_ba)
      BY <1>5 DEF UpdateBackup
    <3> HIDE DEF a, c
    <3> QED BY <3>2, <3>3
  <2>2. /\ ni'.block_state = n.block_state /\ ni'.cache = n.cache
        /\ loc'.mk = loc.mk /\ loc'.pb = loc.pb
    BY <1>0, <2>1, WriteMainQuiet
  <2> QED BY <1>5, <2>1, <2>2, QuietStep DEF UpdateBackup
<1>6. CASE UpdateMain
  <2>1. Quiet
    BY <1>0, <1>6 DEF UpdateMain, Rebuild, nmbm_mark_tables_clean, BackupBecomesMain,
                      Instance, Locals
  <2> QED BY <1>6, <2>1, QuietStep DEF UpdateMain
<1>7. CASE RescueTmp
  <2>1. Quiet
    BY <1>0, <1>7 DEF RescueTmp, BackupBecomesMain, Instance, Locals
  <2> QED BY <1>7, <2>1, QuietStep DEF RescueTmp
<1>8. CASE RescueMain
  <2>1. Quiet
    BY <1>0, <1>8 DEF RescueMain, nmbm_mark_tables_clean, Instance
  <2> QED BY <1>8, <2>1, QuietStep DEF RescueMain
<1> QED BY <1>1, <1>2, <1>3, <1>4, <1>5, <1>6, <1>7, <1>8

\* Mapping spare blocks, creating the tables, repairing them at load.
LEMMA LoadQuiet ==
  ASSUME TypeOK, MarkInv,
         nmbm_map_block \/ MapFailed \/ CreateMap \/ CreateMapped \/ CreateDone
           \/ UpdateSingle \/ RescueFront \/ RescueNext \/ LoadDone
  PROVE  MarkInv'
<1>0. ni \in Instance /\ loc \in Locals
  BY DEF TypeOK
<1> DEFINE Quiet == /\ ni'.block_state = ni.block_state /\ ni'.cache = ni.cache
                    /\ loc'.mk # "er_mapped" \/ (loc'.mk = loc.mk /\ loc'.pb = loc.pb)
<1>1. CASE nmbm_map_block
  <2>1. \/ ni' = ni
        \/ \E pb : ni' = [ni EXCEPT !.block_mapping[loc.lb] = pb, !.top_ba = @ - 1, !.dirty = TRUE]
    BY <1>1, Zenon DEF nmbm_map_block
  <2>2. ni'.block_state = ni.block_state /\ ni'.cache = ni.cache
    BY <1>0, <2>1 DEF Instance
  <2>3. \/ loc' = [loc EXCEPT !.ok = FALSE] \/ loc' = [loc EXCEPT !.ok = TRUE]
        \/ loc' = [loc EXCEPT !.uk = "map_failed"]
    BY <1>1, Zenon DEF nmbm_map_block
  <2>4. loc'.mk = loc.mk /\ loc'.pb = loc.pb
    BY <1>0, <2>3 DEF Locals
  <2> QED BY <1>1, <2>2, <2>4, QuietStep DEF nmbm_map_block
<1>7. CASE MapFailed
  <2>1. Quiet
    BY <1>0, <1>7 DEF MapFailed, Instance, Locals
  <2> QED BY <1>7, <2>1, QuietStep DEF MapFailed
<1>2. CASE CreateMap \/ CreateMapped
  <2>1. Quiet
    BY <1>0, <1>2 DEF CreateMap, CreateMapped, Instance, Locals
  <2> QED BY <1>2, <2>1, QuietStep DEF CreateMap, CreateMapped
<1>3. CASE CreateDone
  <2>1. CASE PowerOff
    BY <1>3, <2>1, PowerOffMarks DEF CreateDone, chip
  <2> QED BY <1>3, <2>1, QuietStep DEF CreateDone
<1>4. CASE UpdateSingle
  <2>1. Quiet
    BY <1>0, <1>4 DEF UpdateSingle, nmbm_mark_tables_clean, BackupBecomesMain, Instance
  <2> QED BY <1>4, <2>1, QuietStep DEF UpdateSingle
<1>5. CASE RescueFront \/ RescueNext
  <2>1. Quiet
    BY <1>0, <1>5 DEF RescueFront, RescueNext, nmbm_mark_tables_clean, Instance, Locals
  <2> QED BY <1>5, <2>1, QuietStep DEF RescueFront, RescueNext
<1>6. CASE LoadDone
  <2>1. Quiet
    BY <1>0, <1>6 DEF LoadDone, Instance
  <2> QED BY <1>6, <2>1, QuietStep DEF LoadDone
<1> QED BY <1>1, <1>2, <1>3, <1>4, <1>5, <1>6, <1>7

\* nmbm_create_info_table and the end of the search write the states in memory.
LEMMA GeneratesQuiet ==
  ASSUME TypeOK, MarkInv, nmbm_create_info_table \/ nmbm_load_info_table
  PROVE  MarkInv'
<1>0. ni \in Instance /\ loc \in Locals
  BY DEF TypeOK
<1>1. CASE nmbm_create_info_table
  <2>1. CASE PowerOff
    BY <1>1, <2>1, PowerOffMarks DEF nmbm_create_info_table, chip
  <2>2. ASSUME NEW t \in nmbm_block_walk_desc(ni.block_state, ni.sig_ba, 1, MgmtStart),
               Rebuild(nmbm_generate_info_table_cache([ni EXCEPT !.top_ba = t])),
               loc' = [loc EXCEPT !.rk = "create_map"]
        PROVE  MarkInv'
    <3> DEFINE m == [ni EXCEPT !.top_ba = t]
               n == nmbm_generate_info_table_cache(m)
    <3>1. t \in Int
      BY GeometryAssumption DEF nmbm_block_walk_desc, GoodIn
    <3>2. m \in Instance /\ m.block_state = ni.block_state
      BY <1>0, <3>1 DEF Instance
    <3> HIDE DEF m
    <3>3. n \in Instance /\ n.block_state = m.block_state /\ n.cache.state = m.block_state
      BY <3>2, GenerateQuiet
    <3>4. Rebuild(n)
      BY <2>2 DEF m
    <3> HIDE DEF n
    <3>5. ni'.block_state = n.block_state /\ ni'.cache = n.cache
      BY <3>3, <3>4, RebuildQuiet
    <3>6. loc'.mk = loc.mk /\ loc'.pb = loc.pb
      BY <1>0, <2>2 DEF Locals
    <3> QED BY <1>1, <3>2, <3>3, <3>5, <3>6, QuietStep DEF nmbm_create_info_table
  <2> QED BY <1>1, <2>1, <2>2 DEF nmbm_create_info_table
<1>2. CASE nmbm_load_info_table
  <2> DEFINE newer == IF ni.backup_ba = 0 \/ loc.main_wc >= loc.backup_wc
                        THEN loc.main_top ELSE loc.backup_top
             m == [ni EXCEPT !.top_ba = newer, !.map_ba = loc.end,
                             !.data_count = DataBlockCount(ni.block_mapping)]
             n == nmbm_generate_info_table_cache(m)
  <2>1. newer \in Int /\ loc.end \in Nat
    BY <1>0 DEF Locals
  <2>2. DataBlockCount(ni.block_mapping) \in Nat
    BY <1>0, DataBlockCountType DEF Instance
  <2> HIDE DEF newer
  <2>3. m \in Instance /\ m.block_state = ni.block_state
    BY <1>0, <2>1, <2>2 DEF Instance
  <2> HIDE DEF m
  <2>4. n \in Instance /\ n.block_state = m.block_state /\ n.cache.state = m.block_state
    BY <2>3, GenerateQuiet
  <2>5. (ni' = n \/ ni' = [n EXCEPT !.dirty = TRUE]) /\ UNCHANGED <<chip, loc>>
    BY <1>2 DEF nmbm_load_info_table, n, m, newer
  <2> HIDE DEF n
  <2>6. ni'.block_state = n.block_state /\ ni'.cache = n.cache
    BY <2>4, <2>5 DEF Instance
  <2> QED BY <2>3, <2>4, <2>5, <2>6, QuietStep
<1> QED BY <1>1, <1>2

\* Calls, and their ends.
LEMMA CallsQuiet ==
  ASSUME TypeOK, MarkInv,
         EraseBegin \/ WriteBegin \/ BadDone \/ OperationDone \/ nmbm_detach \/ Detached
  PROVE  MarkInv'
<1>0. ni \in Instance /\ loc \in Locals
  BY DEF TypeOK
<1>1. CASE EraseBegin \/ WriteBegin \/ BadDone \/ nmbm_detach
  <2>1. ni' = ni /\ loc'.mk = loc.mk /\ loc'.pb = loc.pb
    BY <1>0, <1>1 DEF EraseBegin, WriteBegin, BadDone, nmbm_detach, Locals
  <2> QED BY <1>1, <2>1, QuietStep DEF EraseBegin, WriteBegin, BadDone, nmbm_detach
<1>2. CASE OperationDone
  <2>1. ni' = ni /\ loc'.mk # "er_mapped" /\ UNCHANGED chip
    BY <1>2 DEF OperationDone, L0
  <2> QED BY <2>1, QuietStep
<1>3. CASE Detached
  BY <1>3, PowerOffMarks DEF Detached, chip
<1> QED BY <1>1, <1>2, <1>3


-----------------------------------------------------------------------------
(* Steps that change a block state or the chip.                            *)

\* A step that gives up blocks which have their marks when it ends.
LEMMA BadStep ==
  ASSUME TypeOK, MarkInv, NEW S \in SUBSET oob', oob \subseteq oob',
         ni' = nmbm_set_block_state(ni, S, BLOCK_ST_BAD),
         \A b \in Blocks : cell'[b].k = "table" => cell'[b] = cell[b],
         loc'.mk # "er_mapped" \/ (loc'.mk = loc.mk /\ loc'.pb = loc.pb)
  PROVE  MarkInv'
<1>1. ni \in Instance /\ loc.pb \in Blocks
  BY DEF TypeOK, Locals
<1>2. /\ Justified(ni.block_state)'
      /\ \A b \in Blocks : ni.block_state[b] # BLOCK_ST_GOOD => ni'.block_state[b] # BLOCK_ST_GOOD
  BY <1>1, SetBadMarked DEF MarkInv
<1>3. loc'.mk = "er_mapped" => ~Good(loc.pb)'
  BY <1>1, <1>2 DEF MarkInv, Good
<1>4. ni'.cache = ni.cache
  BY <1>1, SetStateCache
<1> QED BY <1>2, <1>3, <1>4, MarkStep

\* Skipping a block of a loop, and a block that fails in it.
LEMMA LoopMarks ==
  ASSUME ~MarkMayFail, IndInv, MarkInv, pc \in {"write", "program", "erase"}, w.ba < w.limit,
         SkipBlock \/ EraseFails, loc' = loc
  PROVE  MarkInv'
<1>1. w.ba \in Blocks /\ TypeOK
  BY InLoop DEF IndInv
<1>2. CASE SkipBlock /\ ~Good(w.ba)
  BY <1>2, QuietStep DEF SkipBlock, chip
<1>3. CASE SkipBlock /\ Good(w.ba)
  <2>1. ni' = nmbm_set_block_state(ni, {w.ba}, BLOCK_ST_BAD) /\ w.ba \in oob /\ UNCHANGED <<cell, oob>>
    BY <1>3 DEF SkipBlock
  <2> QED BY <1>1, <2>1, BadStep
<1>4. CASE EraseFails
  <2>1. ni' = nmbm_set_block_state(ni, {w.ba}, BLOCK_ST_BAD) /\ FailBlock(w.ba, {Torn})
    BY <1>4 DEF EraseFails
  <2>2. /\ oob' = oob \cup {w.ba}
        /\ \A a \in Blocks : cell'[a].k = "table" => cell'[a] = cell[a]
    BY <1>1, <2>1, FailMarks
  <2> QED BY <1>1, <2>1, <2>2, BadStep
<1> QED BY <1>2, <1>3, <1>4

\* A step that puts something that is no table into one block.
LEMMA CellMarks ==
  ASSUME TypeOK, MarkInv, NEW b \in Blocks, NEW c, c.k # "table",
         cell' = [cell EXCEPT ![b] = c], oob' = oob, ni'.block_state = ni.block_state,
         ni'.cache = ni.cache, loc' = loc
  PROVE  MarkInv'
<1>1. \A a \in Blocks : cell'[a].k = "table" => cell'[a] = cell[a]
  BY DEF TypeOK
<1>2. Justified(ni.block_state)' /\ (loc'.mk = "er_mapped" => ~Good(loc.pb)')
  BY DEF MarkInv, Justified, Good
<1> QED BY <1>1, <1>2, MarkStep

\* nmbm_write_mgmt_range writes the cache.
LEMMA RangeMarks ==
  ASSUME ~MarkMayFail, IndInv, MarkInv, WriteErase \/ WriteProgram \/ nmbm_erase_range
  PROVE  MarkInv'
<1>0. TypeOK /\ pc \in {"write", "program", "erase"} /\ loc' = loc /\ w \in Frame
  BY DEF IndInv, TypeOK, WriteErase, WriteProgram, nmbm_erase_range
<1>1. CASE w.ba < w.limit /\ (SkipBlock \/ EraseFails)
  BY <1>0, <1>1, LoopMarks
<1>2. CASE w.ba < w.limit /\ cell' = [cell EXCEPT ![w.ba] = Blank] /\ ni' = ni /\ oob' = oob
  <2>1. w.ba \in Blocks /\ Blank.k # "table"
    BY <1>0, <1>2, InLoop DEF Blank
  <2> QED BY <1>0, <1>2, <2>1, CellMarks
<1>3. CASE /\ pc = "program" /\ cell' = [cell EXCEPT ![w.ba] = Chunk(w.i, ni.cache)]
           /\ ni' = ni /\ oob' = oob
  <2>1. \A a \in Blocks : cell'[a] = cell[a] \/ cell'[a] = Chunk(w.i, ni.cache)
    BY <1>0, <1>3 DEF TypeOK
  <2>2. Chunk(w.i, ni.cache).t = ni.cache
    BY DEF Chunk
  <2>3. Justified(ni.block_state)' /\ (loc'.mk = "er_mapped" => ~Good(loc.pb)')
    BY <1>0, <1>3 DEF MarkInv, Justified, Good
  <2> QED BY <1>3, <2>1, <2>2, <2>3, MarkStep
<1>4. CASE ni' = ni /\ UNCHANGED <<cell, oob>>
  BY <1>0, <1>4, QuietStep DEF chip
<1>5. w.ba \in Nat /\ w.limit \in Int
  BY <1>0 DEF Frame
<1>6. CASE WriteErase
  <2>1. w.ba < w.limit
    BY <1>5, <1>6 DEF WriteErase, WriteReturns
  <2> QED BY <1>1, <1>2, <1>6, <2>1 DEF WriteErase
<1>7. CASE WriteProgram
  <2>1. pc = "program" /\ w.ba < w.limit
    BY <1>7 DEF WriteProgram, IndInv, FrameInv, RangeUser
  <2> QED BY <1>1, <1>3, <1>7, <2>1 DEF WriteProgram
<1>8. CASE nmbm_erase_range
  BY <1>1, <1>2, <1>4, <1>8 DEF nmbm_erase_range
<1> QED BY <1>6, <1>7, <1>8

\* nmbm_erase_logic_block gives its block up only with a mark.
LEMMA EraseLogicMarks ==
  ASSUME ~MarkMayFail, IndInv, MarkInv, nmbm_erase_logic_block PROVE MarkInv'
<1> DEFINE pb == ni.block_mapping[loc.lb]
           bad == nmbm_set_block_state(ni, {pb}, BLOCK_ST_BAD)
<1>1. TypeOK /\ ni \in Instance /\ loc \in Locals /\ pc = "er_try"
  BY DEF IndInv, TypeOK, nmbm_erase_logic_block
<1>2. pb \in Blocks
  <2>1. ni.sig_ba # 0 /\ ni.block_mapping[loc.lb] # Unmapped
    BY <1>1 DEF IndInv, SigInv, MappedInv
  <2> QED BY <2>1, UserBlock
<1> HIDE DEF pb
<1>3. CASE ~Good(pb) /\ RemapLogicBlock(ni, pb) /\ UNCHANGED chip
  <2>1. ni' = ni /\ loc'.pb = pb
    BY <1>1, <1>3 DEF RemapLogicBlock, Locals
  <2>2. Justified(ni.block_state)' /\ ~Good(loc.pb)'
    BY <1>3, <2>1 DEF MarkInv, Justified, Good, chip
  <2> QED BY <1>3, <2>1, <2>2, MarkStep DEF chip
<1>4. ASSUME RemapLogicBlock(bad, pb), oob \subseteq oob', pb \in oob',
             \A b \in Blocks : cell'[b].k = "table" => cell'[b] = cell[b]
      PROVE  MarkInv'
  <2>1. ni' = bad /\ loc'.pb = pb
    BY <1>1, <1>4 DEF RemapLogicBlock, Locals
  <2>2. Justified(ni.block_state)'
    BY <1>1, <1>4, <2>1, SetBadMarked DEF MarkInv
  <2>3. ~Good(loc.pb)'
    BY <1>1, <1>2, <2>1 DEF Good, nmbm_set_block_state, Instance, BLOCK_ST_BAD, BLOCK_ST_GOOD
  <2>4. ni'.cache = ni.cache
    BY <1>1, <2>1, SetStateCache
  <2> QED BY <1>4, <2>2, <2>3, <2>4, MarkStep
<1>5. CASE pb \in oob /\ RemapLogicBlock(bad, pb) /\ UNCHANGED chip
  BY <1>4, <1>5 DEF chip
<1>6. CASE cell' = [cell EXCEPT ![pb] = Blank] /\ UNCHANGED <<oob, ni, loc>>
  <2>1. Blank.k # "table"
    BY DEF Blank
  <2> QED BY <1>1, <1>2, <1>6, <2>1, CellMarks
<1>7. CASE FailBlock(pb, {Torn}) /\ RemapLogicBlock(bad, pb)
  <2>1. oob' = oob \cup {pb} /\ \A a \in Blocks : cell'[a].k = "table" => cell'[a] = cell[a]
    BY <1>1, <1>2, <1>7, FailMarks
  <2> QED BY <1>4, <1>7, <2>1
<1> QED BY <1>3, <1>5, <1>6, <1>7 DEF nmbm_erase_logic_block, pb

\* The block that was replaced is bad already, or keeps its need-remap state.
LEMMA EraseMappedMarks ==
  ASSUME IndInv, MarkInv, EraseMapped PROVE MarkInv'
<1>1. ni \in Instance /\ loc \in Locals /\ loc.pb \in Blocks /\ loc.lb \in LBlocks
  BY DEF IndInv, TypeOK, Locals
<1>2. loc.mk = "er_mapped" /\ UNCHANGED chip
  BY DEF IndInv, ReturnInv, EraseMapped
<1>3. ni.block_state[loc.pb] \in BlockState /\ ni.block_state[loc.pb] # BLOCK_ST_GOOD
  BY <1>1, <1>2 DEF MarkInv, Good, Instance
<1> DEFINE n == IF ni.block_state[loc.pb] # BLOCK_ST_NEED_REMAP
                  THEN nmbm_set_block_state(ni, {loc.pb}, BLOCK_ST_BAD) ELSE ni
<1>4. n \in Instance /\ n.cache = ni.cache
  BY <1>1, SetBlockState, SetStateCache DEF BlockState
<1>5. \A b \in Blocks : n.block_state[b] = ni.block_state[b]
  BY <1>1, <1>3 DEF nmbm_set_block_state, Instance, BlockState
<1>6. ni' = n \/ ni' = [n EXCEPT !.block_mapping[loc.lb] = Unmapped]
  BY DEF EraseMapped
<1> HIDE DEF n
<1>7. ni'.block_state = n.block_state /\ ni'.cache = n.cache
  BY <1>4, <1>6 DEF Instance
<1>8. loc'.mk = loc.mk /\ loc'.pb = loc.pb
  BY <1>1 DEF EraseMapped, Locals
<1>9. Justified(ni.block_state)' /\ ~Good(loc.pb)'
  BY <1>1, <1>2, <1>3, <1>5, <1>7, <1>8 DEF MarkInv, Justified, Good, chip
<1> QED BY <1>2, <1>4, <1>7, <1>9, MarkStep DEF chip

\* A failed program notes that the block must be replaced, and gives no block up.
LEMMA WriteLogicMarks ==
  ASSUME IndInv, MarkInv, nmbm_write_logic_page PROVE MarkInv'
<1> DEFINE pb == ni.block_mapping[loc.lb]
<1>1. TypeOK /\ ni \in Instance /\ loc \in Locals /\ pc = "wr_program" /\ oob' = oob
  BY DEF IndInv, TypeOK, nmbm_write_logic_page
<1>2. pb \in Blocks
  <2>1. ni.sig_ba # 0 /\ ni.block_mapping[loc.lb] # Unmapped
    BY <1>1 DEF IndInv, SigInv, MappedInv
  <2> QED BY <2>1, UserBlock
<1> HIDE DEF pb
<1>3. CASE cell' = [cell EXCEPT ![pb] = Data(loc.lb)] /\ UNCHANGED <<ni, loc>>
  <2>1. Data(loc.lb).k # "table"
    BY DEF Data
  <2> QED BY <1>1, <1>2, <1>3, <2>1, CellMarks
<1>4. CASE /\ pb \in Weak /\ cell' \in {cell, [cell EXCEPT ![pb] = Torn]}
           /\ ni' = nmbm_set_block_state(ni, {pb}, BLOCK_ST_NEED_REMAP)
           /\ loc' = [loc EXCEPT !.uk = "done"]
  <2>1. \A a \in Blocks : cell'[a].k = "table" => cell'[a] = cell[a]
    BY <1>1, <1>2, <1>4 DEF TypeOK, Torn
  <2>2. \A b \in Blocks : ni'.block_state[b] =
                            IF b = pb THEN BLOCK_ST_NEED_REMAP ELSE ni.block_state[b]
    BY <1>1, <1>4 DEF nmbm_set_block_state, Instance
  <2>3. loc'.mk = loc.mk /\ loc'.pb = loc.pb /\ loc.pb \in Blocks
    BY <1>1, <1>4 DEF Locals
  <2>4. pb \in Weak
    BY <1>4
  <2>5. Justified(ni.block_state)'
    BY <1>1, <2>2, <2>4 DEF MarkInv, Justified, BLOCK_ST_BAD, BLOCK_ST_NEED_REMAP
  <2>6. loc'.mk = "er_mapped" => ~Good(loc.pb)'
    BY <2>2, <2>3 DEF MarkInv, Good, BLOCK_ST_GOOD, BLOCK_ST_NEED_REMAP
  <2>7. ni'.cache = ni.cache
    BY <1>1, <1>4, SetStateCache
  <2> QED BY <1>1, <2>1, <2>5, <2>6, <2>7, MarkStep
<1> QED BY <1>3, <1>4 DEF nmbm_write_logic_page, pb

\* nmbm_mark_bad_block writes the mark of the block it gives up.
LEMMA MarkBadMarks ==
  ASSUME ~MarkMayFail, IndInv, MarkInv, nmbm_mark_bad_block PROVE MarkInv'
<1>1. ni \in Instance /\ loc \in Locals
  BY DEF IndInv, TypeOK
<1>2. PICK lb \in Markable :
        /\ ni' = nmbm_set_block_state([ni EXCEPT !.block_mapping[lb] = Unmapped],
                                      {ni.block_mapping[lb]}, BLOCK_ST_BAD)
        /\ oob' = oob \cup {ni.block_mapping[lb]} /\ pc = "idle"
        /\ loc' = [loc EXCEPT !.lb = lb, !.uk = "bad_done"]
  BY DEF nmbm_mark_bad_block, Begin, Idle
<1> DEFINE n == [ni EXCEPT !.block_mapping[lb] = Unmapped]
<1>3. n \in Instance /\ n.block_state = ni.block_state /\ n.cache = ni.cache
  BY <1>1, EnvironmentAssumption DEF Instance, Mapping
<1> HIDE DEF n
<1>4. ni' = nmbm_set_block_state(n, {ni.block_mapping[lb]}, BLOCK_ST_BAD)
  BY <1>2 DEF n
<1>5. Justified(ni.block_state)'
  BY <1>2, <1>3, <1>4, SetBadMarked DEF MarkInv
<1>6. ni'.cache = ni.cache
  BY <1>3, <1>4, SetStateCache
<1>7. loc'.mk # "er_mapped"
  BY <1>1, <1>2 DEF IndInv, ReturnInv, L0, Locals
<1>8. cell' = cell
  BY DEF nmbm_mark_bad_block
<1> QED BY <1>2, <1>5, <1>6, <1>7, <1>8, MarkStep


\* nmbm_scan_badblocks records marks.
LEMMA ScanMarks ==
  ASSUME NEW n \in Instance, Justified(n.block_state), ni' = nmbm_scan_and_build(n), oob' = oob
  PROVE  Justified(ni.block_state)' /\ ni'.cache = n.cache
<1> DEFINE s == nmbm_set_block_state(n, oob, BLOCK_ST_BAD)
<1>1. s \in Instance /\ s.cache = n.cache
  BY SetBlockState, SetStateCache DEF BlockState
<1>2. ni' = [s EXCEPT !.block_mapping = nmbm_build_mapping_table(s.block_state),
                      !.data_count = Cardinality(Usable(s.block_state))]
  BY DEF nmbm_scan_and_build
<1>3. s.block_state = nmbm_set_block_state(n, oob, BLOCK_ST_BAD).block_state
  OBVIOUS
<1> HIDE DEF s
<1>4. ni'.block_state = s.block_state /\ ni'.cache = s.cache
  BY <1>1, <1>2 DEF Instance
<1>5. Justified(ni.block_state)'
  BY <1>3, <1>4, SetBadMarked
<1> QED BY <1>1, <1>4, <1>5

\* nmbm_attach starts with good states, or with the marks it scans.
LEMMA AttachMarks ==
  ASSUME IndInv, MarkInv, nmbm_attach PROVE MarkInv'
<1>0. UNCHANGED <<cell, oob>>
  BY DEF nmbm_attach, chip
<1>1. ASSUME NEW create \in BOOLEAN, NEW n, n = [nmbm_init_structure EXCEPT !.create = create]
      PROVE  /\ n \in Instance /\ n.block_state = AllGood /\ n.cache.state = AllGood
             /\ Justified(n.block_state)
  <2>1. nmbm_init_structure \in Instance
    BY InitInstance
  <2>2. n \in Instance /\ n.block_state = AllGood /\ n.cache.state = AllGood
    BY <1>1, <2>1 DEF Instance, nmbm_init_structure
  <2> QED BY <2>2 DEF Justified, AllGood, BLOCK_ST_BAD, BLOCK_ST_GOOD, BLOCK_ST_NEED_REMAP
<1>2. ASSUME ni'.cache.state = AllGood, Justified(ni.block_state)', loc'.mk # "er_mapped"
      PROVE  MarkInv'
  <2>1. Justified(ni.cache.state)'
    BY <1>2 DEF Justified, AllGood, BLOCK_ST_BAD, BLOCK_ST_GOOD, BLOCK_ST_NEED_REMAP
  <2>2. \A b \in Blocks : cell'[b].k = "table" => Justified(cell[b].t.state)'
    BY <1>0 DEF MarkInv, Justified
  <2> QED BY <1>2, <2>1, <2>2 DEF MarkInv
<1>3. PICK create \in BOOLEAN :
        LET n == [nmbm_init_structure EXCEPT !.create = create]
            found == nmbm_find_signature(cell, oob)
        IN  \/ /\ ni' = [n EXCEPT !.sig_ba = Max(found), !.data_count = MgmtStart,
                                  !.top_ba = Max(found) - 1]
               /\ loc' = [L0 EXCEPT !.ba = MgmtStart]
            \/ /\ ni' = nmbm_scan_and_build(n)
               /\ loc' = [L0 EXCEPT !.ba = BlockCount - 1]
            \/ UNCHANGED <<ni, loc>>
  BY EnvironmentAssumption DEF nmbm_attach
<1> DEFINE n == [nmbm_init_structure EXCEPT !.create = create]
           found == nmbm_find_signature(cell, oob)
<1>4. /\ n \in Instance /\ n.block_state = AllGood /\ n.cache.state = AllGood
      /\ Justified(n.block_state)
  BY <1>1
<1> HIDE DEF n, found
<1>5. CASE /\ ni' = [n EXCEPT !.sig_ba = Max(found), !.data_count = MgmtStart,
                              !.top_ba = Max(found) - 1]
           /\ loc' = [L0 EXCEPT !.ba = MgmtStart]
  <2>1. ni'.block_state = n.block_state /\ ni'.cache = n.cache
    BY <1>4, <1>5 DEF Instance
  <2>2. loc'.mk # "er_mapped"
    BY <1>5 DEF L0
  <2>3. Justified(ni.block_state)'
    BY <1>0, <1>4, <2>1 DEF Justified
  <2> QED BY <1>2, <1>4, <2>1, <2>2, <2>3
<1>6. CASE ni' = nmbm_scan_and_build(n) /\ loc' = [L0 EXCEPT !.ba = BlockCount - 1]
  <2>1. Justified(ni.block_state)' /\ ni'.cache = n.cache
    BY <1>0, <1>4, <1>6, ScanMarks
  <2>2. loc'.mk # "er_mapped"
    BY <1>6 DEF L0
  <2> QED BY <1>2, <1>4, <2>1, <2>2
<1>7. CASE UNCHANGED <<ni, loc>>
  BY <1>0, <1>7, QuietStep DEF chip
<1> QED BY <1>3, <1>5, <1>6, <1>7 DEF n, found

\* Looking for a block for the signature, and writing it.
LEMMA SignatureMarks ==
  ASSUME ~MarkMayFail, IndInv, MarkInv, nmbm_write_signature \/ SignatureProgram
  PROVE  MarkInv'
<1>1. /\ TypeOK /\ ni \in Instance /\ loc \in Locals /\ loc.ba \in Nat /\ loc.ba < BlockCount
      /\ loc.mk # "er_mapped"
  <2>1. pc \in {"sig_erase", "sig_program"}
    BY DEF nmbm_write_signature, SignatureProgram
  <2> QED BY <2>1, AtSignature
<1>2. loc.ba \in Blocks
  BY <1>1, GeometryAssumption DEF Blocks
<1>3. ASSUME NEW junk, SignatureFails(junk) PROVE MarkInv'
  <2>1. /\ oob' = oob \cup {loc.ba}
        /\ \A a \in Blocks : cell'[a].k = "table" => cell'[a] = cell[a]
    BY <1>1, <1>2, <1>3, FailMarks DEF SignatureFails
  <2>2. ni' = nmbm_set_block_state(ni, {loc.ba}, BLOCK_ST_BAD) /\ loc'.mk # "er_mapped"
    BY <1>1, <1>3 DEF SignatureFails, NextSignatureBlock, Locals
  <2> QED BY <1>1, <2>1, <2>2, BadStep
<1>4. CASE PowerOff /\ UNCHANGED chip
  BY <1>4, PowerOffMarks DEF chip
<1>5. CASE NextSignatureBlock /\ UNCHANGED <<chip, ni>>
  <2>1. loc'.mk # "er_mapped"
    BY <1>1, <1>5 DEF NextSignatureBlock, Locals
  <2> QED BY <1>5, <2>1, QuietStep
<1>6. CASE cell' = [cell EXCEPT ![loc.ba] = Blank] /\ UNCHANGED <<oob, ni, loc>>
  <2>1. Blank.k # "table"
    BY DEF Blank
  <2> QED BY <1>1, <1>2, <1>6, <2>1, CellMarks
<1>7. CASE /\ cell' = [cell EXCEPT ![loc.ba] = Signature] /\ UNCHANGED <<oob, loc>>
           /\ ni' = [ni EXCEPT !.sig_ba = loc.ba]
  <2>1. Signature.k # "table" /\ ni'.block_state = ni.block_state /\ ni'.cache = ni.cache
    BY <1>1, <1>7 DEF Signature, Instance
  <2> QED BY <1>1, <1>2, <1>7, <2>1, CellMarks
<1> QED BY <1>3, <1>4, <1>5, <1>6, <1>7 DEF nmbm_write_signature, SignatureProgram

\* nmbm_try_load_info_table where it fails: an ECC error is one of a block
\* that has its mark.
LEMMA TryLoadFailsMarks ==
  ASSUME IndInv, MarkInv, TornSeen, pc \in {"search1", "search2"}, SearchMore, TryLoadFails,
         UNCHANGED chip
  PROVE  MarkInv'
<1>1. TypeOK /\ loc \in Locals /\ loc.mk # "er_mapped"
  BY Searching DEF IndInv
<1>2. PICK ecc \in SUBSET {b \in TableRange(loc.ba) : cell[b] = Torn} :
        ni' = nmbm_set_block_state(ni, TryLoadMarks(loc.ba, ecc), BLOCK_ST_BAD)
  BY DEF TryLoadFails
<1>3. ecc \subseteq oob
  BY <1>2 DEF TornSeen
<1>4. TryLoadMarks(loc.ba, ecc) \subseteq oob
  BY <1>3 DEF TryLoadMarks
<1>5. loc'.mk # "er_mapped"
  BY <1>1 DEF TryLoadFails, Locals
<1> QED BY <1>1, <1>2, <1>4, <1>5, BadStep DEF chip

\* Adopting a table that was found on the chip.
LEMMA SearchMarks ==
  ASSUME IndInv, MarkInv, TornSeen, SearchFirst \/ SearchSecond PROVE MarkInv'
<1>1. pc \in {"search1", "search2"} /\ UNCHANGED chip
  BY DEF SearchFirst, SearchSecond
<1>2. /\ ni \in Instance /\ loc \in Locals /\ loc.mk # "er_mapped"
  BY <1>1, Searching
<1>3. CASE SearchMore /\ TryLoadFails
  BY <1>1, <1>3, TryLoadFailsMarks
<1>4. ASSUME SearchMore, TryLoad(loc.ba), NEW n \in Instance,
             n.block_state = ni.block_state, n.cache = ni.cache,
             ni' = Adopt(n, cell[loc.ba].t) \/ ni' = n, loc'.mk # "er_mapped"
      PROVE  MarkInv'
  <2>1. PICK t : t = cell[loc.ba].t
    OBVIOUS
  <2>2. Justified(t.state)
    <3>1. loc.ba < ni.sig_ba - TableBlocks /\ ni.sig_ba < BlockCount /\ loc.ba \in Nat
          /\ ni.sig_ba \in Nat
      BY <1>1, <1>4, Searching DEF SearchMore
    <3>2. loc.ba \in Blocks
      BY <3>1, GeometryAssumption DEF Blocks
    <3>3. cell[loc.ba].k = "table"
      BY <1>4 DEF TryLoad, IsHeader
    <3> QED BY <2>1, <3>2, <3>3 DEF MarkInv
  <2>3. ni'.cache = ni.cache /\ (ni'.block_state = t.state \/ ni'.block_state = ni.block_state)
    BY <1>4, <2>1 DEF Adopt, Instance
  <2>4. Justified(ni.block_state)'
    BY <1>1, <2>2, <2>3 DEF MarkInv, Justified, chip
  <2> QED BY <1>1, <1>4, <2>3, <2>4, MarkStep DEF chip
<1>5. CASE SearchFirst
  <2>1. CASE SearchMore /\ TryLoad(loc.ba) /\ ni' = Adopt([ni EXCEPT !.main_ba = loc.ba], cell[loc.ba].t)
             /\ loc'.mk # "er_mapped"
    <3> DEFINE n == [ni EXCEPT !.main_ba = loc.ba]
    <3>1. n \in Instance /\ n.block_state = ni.block_state /\ n.cache = ni.cache
      BY <1>2 DEF Instance, Locals
    <3> HIDE DEF n
    <3>2. ni' = Adopt(n, cell[loc.ba].t)
      BY <2>1 DEF n
    <3> QED BY <1>4, <2>1, <3>1, <3>2
  <2>2. CASE ni' = nmbm_scan_and_build(ni) /\ loc' = loc
    <3>1. Justified(ni.block_state)' /\ ni'.cache = ni.cache
      BY <1>1, <1>2, <2>2, ScanMarks DEF MarkInv, chip
    <3> QED BY <1>1, <1>2, <2>2, <3>1, MarkStep DEF chip
  <2>3. CASE PowerOff
    BY <1>1, <2>3, PowerOffMarks DEF chip
  <2> QED BY <1>2, <1>3, <1>5, <2>1, <2>2, <2>3 DEF SearchFirst, Locals
<1>6. CASE SearchSecond
  <2>1. CASE /\ SearchMore /\ TryLoad(loc.ba)
             /\ LET n == [ni EXCEPT !.backup_ba = loc.ba]
                IN  ni' = Adopt(n, cell[loc.ba].t) \/ ni' = n
             /\ loc'.mk # "er_mapped"
    <3> DEFINE n == [ni EXCEPT !.backup_ba = loc.ba]
    <3>1. n \in Instance /\ n.block_state = ni.block_state /\ n.cache = ni.cache
      BY <1>2 DEF Instance, Locals
    <3>2. ni' = Adopt(n, cell[loc.ba].t) \/ ni' = n
      BY <2>1
    <3> HIDE DEF n
    <3> QED BY <1>4, <2>1, <3>1, <3>2
  <2>2. CASE UNCHANGED <<ni, loc>>
    BY <1>1, <2>2, QuietStep
  <2> QED BY <1>2, <1>3, <1>6, <2>1, <2>2 DEF SearchSecond, Locals
<1> QED BY <1>5, <1>6

\* A power cut tears a block; it writes no table.
LEMMA PowerFailsMarks ==
  ASSUME IndInv, MarkInv, PowerFails PROVE MarkInv'
<1>1. PowerOff /\ oob' = oob /\ cell \in [Blocks -> Content]
  BY DEF PowerFails, IndInv, TypeOK
<1>2. CASE cell' = cell
  BY <1>1, <1>2, PowerOffMarks
<1>3. ASSUME NEW b \in InFlight, NEW c \in {Torn, Signature}, cell' = [cell EXCEPT ![b] = c]
      PROVE  MarkInv'
  <2>1. \A a \in Blocks : cell'[a].k = "table" => cell'[a] = cell[a]
    BY <1>1, <1>3 DEF InFlight, Torn, Signature
  <2> QED BY <1>1, <2>1, PowerOffMarks
<1> QED BY <1>2, <1>3 DEF PowerFails


-----------------------------------------------------------------------------
(* The theorems.                                                           *)

\* The invariant holds before the first attach.
LEMMA MarkInvInit == Init => MarkInv
<1> SUFFICES ASSUME Init PROVE MarkInv
  OBVIOUS
<1>1. /\ ni.block_state = AllGood /\ ni.cache.state = AllGood /\ loc.mk # "er_mapped"
      /\ \A b \in Blocks : cell[b].k # "table"
  BY DEF Init, nmbm_init_structure, Blank, L0
<1>2. Justified(AllGood)
  BY DEF Justified, AllGood, BLOCK_ST_BAD, BLOCK_ST_GOOD, BLOCK_ST_NEED_REMAP
<1> QED BY <1>1, <1>2 DEF MarkInv

\* Every step preserves it, where bad marks can be written and the search
\* meets no torn block without one.
LEMMA MarkInvNext ==
  ASSUME ~MarkMayFail
  PROVE  IndInv /\ MarkInv /\ TornSeen /\ [Next]_vars => MarkInv'
<1> SUFFICES ASSUME IndInv, MarkInv, TornSeen, [Next]_vars PROVE MarkInv'
  OBVIOUS
<1>0. TypeOK
  BY DEF IndInv
<1>1. CASE DriverStep
  BY <1>0, <1>1, TablesQuiet, LoadQuiet, GeneratesQuiet, CallsQuiet, RangeMarks, SignatureMarks,
     SearchMarks, EraseLogicMarks, EraseMappedMarks, WriteLogicMarks DEF DriverStep
<1>2. CASE UserStep
  BY <1>0, <1>2, AttachMarks, CallsQuiet, MarkBadMarks DEF UserStep
<1>3. CASE PowerFails
  BY <1>3, PowerFailsMarks
<1>4. CASE UNCHANGED vars
  BY <1>4, QuietStep DEF vars, chip
<1> QED BY <1>1, <1>2, <1>3, <1>4 DEF Next, Retired

\* A table that an attach would adopt lies on the chip.
LEMMA RecoveredOnChip ==
  ASSUME NEW t \in Recovered
  PROVE  \E b \in Blocks : cell[b].k = "table" /\ t = cell[b].t
<1> DEFINE S == LoadableAt(cell, oob)
           rest == {b \in S : Min(S) + TableBlocks <= b}
<1>1. S # {} /\ t = Adopted(cell, S)
  BY DEF Recovered, RecoveredFrom
<1>2. \A b \in S : b \in Blocks /\ b \in Nat /\ cell[b].k = "table"
  <2>1. S \subseteq {b \in MgmtStart .. BlockCount - 1 : IsHeader(cell[b])}
    BY DEF LoadableAt
  <2> QED BY <2>1, GeometryAssumption DEF IsHeader, Blocks
<1>3. t = cell[Min(S)].t \/ (rest # {} /\ t = cell[Min(rest)].t)
  BY <1>1 DEF Adopted
<1> HIDE DEF S
<1>4. S \subseteq Nat /\ Min(S) \in S
  BY <1>1, <1>2, MinNat
<1>5. rest # {} => Min(rest) \in S
  <2>1. rest \subseteq S
    OBVIOUS
  <2> HIDE DEF rest
  <2> QED BY <1>4, <2>1, MinNat
<1> QED BY <1>2, <1>3, <1>4, <1>5

\* A block that it calls bad has its mark.
LEMMA MarkInvBad == MarkInv => BadMeansMarked
BY RecoveredOnChip DEF MarkInv, BadMeansMarked, Justified

\* The invariant holds in every state, where the hypotheses do.
LEMMA MarkInvariance ==
  ASSUME ~MarkMayFail
  PROVE  Spec /\ []TornSeen => []MarkInv
BY Invariance, MarkInvInit, MarkInvNext, PTL DEF Spec

\* Where bad marks can be written, every block that an attach would believe
\* to be bad has a mark on the chip, whatever fails and wherever the power is
\* cut, unless the search of nmbm_load_info_table passes a torn block that
\* has none.
THEOREM GivenUpIsMarked ==
  ASSUME ~MarkMayFail
  PROVE  Spec /\ []TornSeen => []BadMeansMarked
BY MarkInvariance, MarkInvBad, PTL

-----------------------------------------------------------------------------
(* Chips on which data blocks alone wear out, with a supply that does not  *)
(* fail: there the hypotheses on the search and on the spare blocks hold.  *)

\* A torn block is one whose erase or program may fail, and so is one with a
\* mark, unless the factory or a user put the mark there.
WeakInv ==
  /\ \A b \in Blocks : cell[b] = Torn => b \in Weak
  /\ Markable = {} => oob \subseteq FactoryBad \cup Weak

\* A step that changes one block, and tears or marks it only if it is weak.
LEMMA WeakStep ==
  ASSUME TypeOK, WeakInv, NEW b, NEW c, cell' = [cell EXCEPT ![b] = c],
         c # Torn \/ b \in Weak, oob' \subseteq oob \cup Weak
  PROVE  WeakInv'
BY DEF TypeOK, WeakInv

\* The contents that are written are not torn.
LEMMA NotTorn ==
  /\ Blank # Torn /\ Signature # Torn
  /\ \A lb : Data(lb) # Torn
  /\ \A i, t : Chunk(i, t) # Torn
<1>1. Blank.k # Torn.k /\ Signature.k # Torn.k
  BY DEF Blank, Torn, Signature
<1>2. ASSUME NEW lb PROVE Data(lb) # Torn
  <2>1. Data(lb).k # Torn.k
    BY DEF Data, Torn
  <2> QED BY <2>1
<1>3. ASSUME NEW i, NEW t PROVE Chunk(i, t) # Torn
  <2>1. Chunk(i, t).k # Torn.k
    BY DEF Chunk, Torn
  <2> QED BY <2>1
<1> QED BY <1>1, <1>2, <1>3

\* Without power cuts every step preserves that what failed is weak.
LEMMA WeakInvNext ==
  ASSUME ~MarkMayFail, ~PowerCut
  PROVE  TypeOK /\ WeakInv /\ [Next]_vars => WeakInv'
<1> SUFFICES ASSUME TypeOK, WeakInv, [Next]_vars PROVE WeakInv'
  OBVIOUS
<1>0. CASE cell' = cell /\ oob' = oob
  BY <1>0 DEF WeakInv
<1>1. ASSUME NEW b, NEW junk, FailBlock(b, junk) PROVE WeakInv'
  <2>1. cell' = [cell EXCEPT ![b] = Torn] /\ b \in Weak /\ oob' = oob \cup {b}
    BY <1>1 DEF FailBlock
  <2> QED BY <2>1, WeakStep
<1>2. ASSUME NEW b, NEW c, c # Torn, cell' = [cell EXCEPT ![b] = c], oob' = oob PROVE WeakInv'
  BY <1>2, WeakStep
<1>3. CASE WriteErase \/ nmbm_erase_range
  BY <1>0, <1>1, <1>2, <1>3, NotTorn DEF WriteErase, nmbm_erase_range, SkipBlock, EraseFails
<1>4. CASE WriteProgram
  <2>1. CASE cell' = [cell EXCEPT ![w.ba] = Chunk(w.i, ni.cache)] /\ oob' = oob
    BY <1>2, <2>1, NotTorn
  <2> QED BY <1>1, <1>4, <2>1 DEF WriteProgram, EraseFails
<1>5. CASE nmbm_write_signature \/ SignatureProgram
  BY <1>0, <1>1, <1>2, <1>5, NotTorn DEF nmbm_write_signature, SignatureProgram, SignatureFails, chip
<1>6. CASE nmbm_erase_logic_block
  BY <1>0, <1>1, <1>2, <1>6, NotTorn DEF nmbm_erase_logic_block, chip
<1>7. CASE nmbm_write_logic_page
  <2> DEFINE pb == ni.block_mapping[loc.lb]
  <2>0. oob' = oob
    BY <1>7 DEF nmbm_write_logic_page
  <2>1. CASE cell' = [cell EXCEPT ![pb] = Data(loc.lb)]
    BY <1>2, <2>0, <2>1, NotTorn
  <2>2. CASE pb \in Weak /\ cell' = [cell EXCEPT ![pb] = Torn]
    BY <2>0, <2>2, WeakStep
  <2> QED BY <1>0, <1>7, <2>0, <2>1, <2>2 DEF nmbm_write_logic_page
<1>8. CASE WriteReturn \/ RebuildMain \/ RebuildBackup \/ nmbm_update_info_table \/ UpdateBackup
             \/ UpdateMain \/ RescueTmp \/ RescueMain \/ nmbm_map_block \/ MapFailed
  BY <1>0, <1>8 DEF WriteReturn, RebuildMain, RebuildBackup, nmbm_update_info_table, UpdateBackup,
                    UpdateMain, RescueTmp, RescueMain, nmbm_map_block, MapFailed, chip
<1>9. CASE nmbm_create_info_table \/ CreateMap \/ CreateMapped \/ CreateDone \/ SearchFirst
             \/ SearchSecond \/ nmbm_load_info_table
  BY <1>0, <1>9 DEF nmbm_create_info_table, CreateMap, CreateMapped, CreateDone, SearchFirst,
                    SearchSecond, nmbm_load_info_table, chip
<1>10. CASE UpdateSingle \/ RescueFront \/ RescueNext \/ LoadDone \/ EraseMapped \/ BadDone
              \/ OperationDone \/ Detached \/ nmbm_attach \/ EraseBegin \/ WriteBegin
              \/ nmbm_detach \/ UNCHANGED vars
  BY <1>0, <1>10 DEF UpdateSingle, RescueFront, RescueNext, LoadDone, EraseMapped, BadDone,
                     OperationDone, Detached, nmbm_attach, EraseBegin, WriteBegin,
                     nmbm_detach, vars, chip
<1>11. CASE nmbm_mark_bad_block
  <2>1. Markable # {} /\ cell' = cell
    BY <1>11 DEF nmbm_mark_bad_block
  <2> QED BY <2>1 DEF WeakInv
<1> QED BY <1>3, <1>4, <1>5, <1>6, <1>7, <1>8, <1>9, <1>10, <1>11
        DEF Next, DriverStep, UserStep, PowerFails, Retired

\* So it holds throughout.
LEMMA WeakAlways ==
  ASSUME ~MarkMayFail, ~PowerCut
  PROVE  Spec => []WeakInv
<1>1. Init => WeakInv
  BY NotTorn DEF Init, WeakInv
<1>2. IndInv => TypeOK
  BY DEF IndInv
<1> QED BY <1>1, <1>2, Invariance, WeakInvNext, PTL DEF Spec

\* The search begins at the management area and so meets no torn block.
LEMMA SearchAboveData ==
  ASSUME Weak \subseteq LBlocks
  PROVE  IndInv /\ WeakInv => TornSeen
<1> SUFFICES ASSUME IndInv, WeakInv, pc \in {"search1", "search2"}, SearchMore,
                    NEW b \in TableRange(loc.ba), cell[b] = Torn
             PROVE  FALSE
  BY DEF TornSeen
<1>1. /\ MgmtStart <= loc.ba /\ loc.ba \in Nat /\ ni.sig_ba \in Nat /\ ni.sig_ba < BlockCount
      /\ loc.ba < ni.sig_ba - TableBlocks
  BY Searching DEF SearchMore
<1>2. b \in Int /\ loc.ba <= b /\ b <= loc.ba + TableBlocks - 1
  BY <1>1, GeometryAssumption DEF TableRange
<1>3. b \in Blocks /\ b \notin LBlocks
  BY <1>1, <1>2, GeometryAssumption DEF Blocks, LBlocks
<1> QED BY <1>3 DEF WeakInv

\* A spare block is good: what is not good has a mark or has failed.
LEMMA SparesAreGood ==
  ASSUME Markable = {}, FactoryBad \cup Weak \subseteq LBlocks
  PROVE  IndInv /\ MarkInv /\ WeakInv => TopIsGood
<1> SUFFICES ASSUME IndInv, MarkInv, WeakInv, pc = "map" PROVE Good(ni.top_ba)
  BY DEF TopIsGood
<1>1. pc \notin Starting
  BY DEF Starting
<1>2. ni.sig_ba # 0 /\ ni \in Instance /\ Keeps(ni, loc)
  BY <1>1, Ready
<1>3. ni.top_ba \in MgmtStart .. ni.sig_ba - 1 /\ ni.sig_ba \in Blocks
  BY <1>2 DEF Keeps, SparesIn, Area, Instance
<1>4. ni.top_ba \in Blocks /\ ni.top_ba \notin LBlocks
  BY <1>3, GeometryAssumption DEF Blocks, LBlocks
<1>5. ni.block_state[ni.top_ba] \in BlockState
  BY <1>2, <1>4 DEF Instance
<1>6. ni.top_ba \notin oob /\ ni.top_ba \notin Weak
  BY <1>4 DEF WeakInv
<1> QED BY <1>4, <1>5, <1>6 DEF MarkInv, Justified, Good, BlockState

\* A chip of which only data blocks wear out, with a supply that does not
\* fail, gives no block up but those that failed or were marked: for every
\* geometry, every number of boots and every order of calls.
THEOREM GivenUpWithoutCuts ==
  ASSUME ~MarkMayFail, ~PowerCut, Weak \subseteq LBlocks
  PROVE  Spec => []BadMeansMarked
<1>1. Spec => []TornSeen
  BY Invariance, WeakAlways, SearchAboveData, PTL
<1> QED BY <1>1, GivenUpIsMarked, PTL

\* On such a chip, where the factory marked no block of the management area
\* and no user gives blocks up, the walk of nmbm_map_block never passes a bad
\* block, so that the way it lowers mapping_blocks_top_ba (1612) does no harm:
\* no two logic blocks share a physical block and the areas stay apart.
THEOREM WornDataIsHarmless ==
  ASSUME ~MarkMayFail, ~PowerCut, Markable = {}, FactoryBad \cup Weak \subseteq LBlocks
  PROVE  Spec /\ []WriteCountIdentifies => [](NoSharing /\ Layout)
<1>1. Weak \subseteq LBlocks
  OBVIOUS
<1>2. Spec => []TornSeen
  BY <1>1, Invariance, WeakAlways, SearchAboveData, PTL
<1>3. Spec => []TopIsGood
  BY <1>2, Invariance, MarkInvariance, WeakAlways, SparesAreGood, PTL
<1> QED BY <1>3, LayoutKept, NothingShared, PTL
=============================================================================
