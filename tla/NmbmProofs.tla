---------------------------- MODULE NmbmProofs ----------------------------
(***************************************************************************)
(* Theorems about Nmbm for every chip geometry, every set of bad and weak  *)
(* blocks and any number of power cuts: type correctness, and that the     *)
(* management writes stay inside the management area and the signature     *)
(* block is never touched.                                                 *)
(***************************************************************************)
EXTENDS Nmbm, WellFoundedInduction, FiniteSetTheorems, TLAPS

-----------------------------------------------------------------------------
(* The inductive invariant.                                                *)

\* The management area below the signature block.
Area(n) == MgmtStart .. n.sig_ba - 1

\* The instance has not been given its tables yet.
Starting == {"off", "sig_erase", "sig_program", "create", "search1", "search2", "loaded"}

\* The points at which the frame w is in use.
RangeUser == {"write", "program", "erase", "rb_main", "rb_backup", "u_backup",
              "u_main", "rm_tmp", "rm_main", "us_main", "us_backup",
              "rs_front", "rs_next", "rs_erased"}

\* Where the signature is, on the chip and in the instance, and that no
\* logic block is mapped to it.
SigInv ==
  /\ \A b \in Blocks : cell[b] = Signature => MgmtStart < b
  /\ ni.sig_ba = 0 => pc \in {"off", "sig_erase", "sig_program"}
  /\ ni.sig_ba # 0 => MgmtStart < ni.sig_ba
  /\ ni.sig_ba # 0 => \A lb \in LBlocks : ni.block_mapping[lb] # ni.sig_ba
  /\ pc \in {"sig_erase", "sig_program"} =>
       /\ ni.sig_ba = 0 /\ ni.main_ba = 0 /\ ni.backup_ba = 0
       /\ loc.ba < BlockCount /\ loc.start = 0
       /\ \A lb \in LBlocks : ni.block_mapping[lb] < MgmtStart
  /\ pc = "sig_program" => MgmtStart < loc.ba

\* The tables and the spare blocks of an instance lie in the management area.
TablesIn(n) == n.main_ba \in Area(n) \cup {0} /\ n.backup_ba \in Area(n) \cup {0}
SparesIn(n) == n.map_ba \in Area(n) /\ n.top_ba \in Area(n)

TableInv ==
  /\ ni.sig_ba # 0 => TablesIn(ni) /\ loc.start \in Area(ni) \cup {0}
  /\ pc \notin Starting => SparesIn(ni)

\* The search for tables at load time.
SearchInv ==
  /\ pc \in {"search1", "search2", "loaded"} => MgmtStart <= loc.ba
  /\ pc = "search1" => ni.backup_ba = 0
  /\ pc \in {"search2", "loaded"} =>
       /\ ni.main_ba # 0 /\ loc.main_top \in Area(ni) /\ loc.end \in Area(ni)
       /\ ni.backup_ba # 0 => loc.backup_top \in Area(ni)

\* The frame of the loops over management blocks.
FrameInv ==
  pc \in RangeUser =>
    /\ MgmtStart <= w.ba /\ w.limit < ni.sig_ba
    /\ w.i > 1 => w.start \in Area(ni) /\ w.ba <= w.limit
    /\ pc \in {"write", "program", "erase"} \/ w.k = pc
    /\ w.k \in {"u_backup", "us_backup"} => ni.backup_ba # 0
    /\ w.k \in {"rb_backup", "rs_erased"} => loc.end \in Area(ni)
    /\ pc = "program" => w.ba < w.limit /\ w.i <= TableBlocks

\* A logic block that is being erased or written is mapped.
MappedInv ==
  (pc \in {"er_try", "wr_program"} \/ loc.uk = "er_try" \/ (pc = "er_mapped" /\ loc.ok))
  => ni.block_mapping[loc.lb] # Unmapped

\* The return points of an erase and those of nmbm_create_new are apart.
ReturnInv ==
  /\ pc = "idle" => loc = L0 /\ w = W0
  /\ loc.uk = "er_try" \/ pc = "er_mapped" => loc.mk = "er_mapped"
  /\ loc.mk = "er_mapped" \/ pc = "er_try" =>
       /\ loc.rk # "create_map" /\ w.k # "create_map"
       /\ pc \notin {"sig_erase", "sig_program", "search1", "search2", "loaded",
                     "create", "create_map", "create_mapped"}

IndInv ==
  TypeOK /\ SigInv /\ TableInv /\ SearchInv /\ FrameInv /\ MappedInv /\ ReturnInv

-----------------------------------------------------------------------------
(* Lemmas about the operators the model is built from.                     *)

\* A nonempty set of naturals has a minimum.
LEMMA MinNat ==
  ASSUME NEW S \in SUBSET Nat, S # {}
  PROVE  Min(S) \in S /\ \A y \in S : Min(S) <= y
<1> DEFINE R == {ss \in Nat \X Nat : ss[1] < ss[2]}
<1>0. IsWellFoundedOn(R, Nat)
  BY NatLessThanWellFounded DEF OpToRel
<1>1. PICK x \in S : \A y \in S : ~(<<y, x>> \in R)
  BY <1>0, WFMin
<1>2. ASSUME NEW y \in S PROVE x <= y
  <2>1. x \in Nat /\ y \in Nat
    OBVIOUS
  <2>2. ~(y < x)
    BY <1>1, <2>1
  <2> QED BY <2>1, <2>2
<1> QED BY <1>2 DEF Min

\* A nonempty bounded set of naturals has a maximum.
LEMMA MaxNat ==
  ASSUME NEW N \in Nat, NEW S \in SUBSET (0 .. N), S # {}
  PROVE  Max(S) \in S /\ \A y \in S : y <= Max(S)
<1> DEFINE D == {d \in Nat : \E x \in S : d = N - x}
<1>1. D \in SUBSET Nat /\ D # {}
  <2>1. PICK x : x \in S
    OBVIOUS
  <2>2. N - x \in Nat
    BY <2>1
  <2> QED BY <2>1, <2>2
<1>2. PICK d \in D : \A y \in D : d <= y
  <2> HIDE DEF D
  <2> QED BY <1>1, MinNat
<1>3. PICK x \in S : d = N - x
  BY <1>2
<1>4. ASSUME NEW y \in S PROVE x >= y
  <2>1. y \in 0 .. N /\ x \in 0 .. N /\ N - y \in Nat
    OBVIOUS
  <2>2. N - y \in D
    BY <2>1
  <2>3. N - x <= N - y
    BY <1>2, <1>3, <2>2
  <2> QED BY <2>1, <2>3
<1>5. Max(S) \in S /\ \A y \in S : Max(S) >= y
  BY <1>4 DEF Max
<1>6. Max(S) \in 0 .. N /\ \A y \in S : y \in 0 .. N
  BY <1>5
<1> QED BY <1>5, <1>6

\* The initial mapping maps logic blocks into the data area.
LEMMA BuildMapping ==
  ASSUME NEW bs
  PROVE  /\ nmbm_build_mapping_table(bs) \in Mapping
         /\ \A lb \in LBlocks : nmbm_build_mapping_table(bs)[lb] < MgmtStart
<1> DEFINE nth(lb) == {pb \in Usable(bs) : Cardinality({b \in Usable(bs) : b < pb}) = lb}
           m == nmbm_build_mapping_table(bs)
<1>1. LBlocks \subseteq Blocks /\ Usable(bs) \subseteq LBlocks
  BY GeometryAssumption DEF LBlocks, Blocks, Usable
<1>2. ASSUME NEW lb \in LBlocks
      PROVE  m[lb] \in LBlocks \cup {Unmapped}
  <2>1. m[lb] = IF nth(lb) = {} THEN Unmapped ELSE CHOOSE pb \in nth(lb) : TRUE
    BY DEF nmbm_build_mapping_table
  <2>2. nth(lb) # {} => (CHOOSE pb \in nth(lb) : TRUE) \in nth(lb)
    OBVIOUS
  <2>3. nth(lb) \subseteq LBlocks
    BY <1>1
  <2> HIDE DEF m, nth
  <2> QED BY <2>1, <2>2, <2>3
<1>3. m = [lb \in LBlocks |-> m[lb]]
  BY DEF nmbm_build_mapping_table
<1> HIDE DEF m
<1>4. m \in Mapping
  BY <1>1, <1>2, <1>3 DEF Mapping
<1>5. \A lb \in LBlocks : m[lb] < MgmtStart
  BY <1>2, GeometryAssumption DEF LBlocks, Unmapped
<1> QED BY <1>4, <1>5 DEF m

\* The number of usable data blocks is a number.
LEMMA UsableCount ==
  ASSUME NEW bs PROVE Cardinality(Usable(bs)) \in Nat
<1>1. IsFiniteSet(LBlocks)
  BY FS_Interval, GeometryAssumption DEF LBlocks
<1>2. Usable(bs) \in SUBSET LBlocks
  BY DEF Usable
<1> QED BY <1>1, <1>2, FS_Subset, FS_CardinalityType

\* The data block count of a loaded table is a number.
LEMMA DataBlockCountType ==
  ASSUME NEW map \in Mapping PROVE DataBlockCount(map) \in Nat
<1> DEFINE mapped == {lb \in LBlocks : map[lb] >= 0}
<1>1. MgmtStart - 1 \in Nat /\ mapped \in SUBSET (0 .. MgmtStart - 1)
  BY GeometryAssumption DEF LBlocks
<1>2. DataBlockCount(map) = IF mapped = {} THEN MgmtStart ELSE Max(mapped) + 1
  BY DEF DataBlockCount
<1> HIDE DEF mapped
<1>3. mapped # {} => Max(mapped) \in 0 .. MgmtStart - 1
  BY <1>1, MaxNat
<1> QED BY <1>2, <1>3, GeometryAssumption

\* The top of the spare blocks that nmbm_check_info_table reports lies
\* between the table and the signature.
LEMMA MappingTopRange ==
  ASSUME NEW t \in InfoTable, NEW ba \in Nat, NEW sig \in Nat,
         MgmtStart <= ba, ba < sig - TableBlocks
  PROVE  MappingTop(t, ba, sig) \in MgmtStart .. sig - 1
<1> DEFINE S == {sig} \cup {p \in {t.map[lb] : lb \in LBlocks} :
                              ba + TableBlocks <= p /\ p < sig}
<1>1. \A lb \in LBlocks : t.map[lb] \in Int
  BY GeometryAssumption DEF InfoTable, Mapping, Blocks, Unmapped
<1>2. \A x \in S : x \in Nat /\ ba + TableBlocks <= x /\ x <= sig
  BY <1>1, GeometryAssumption
<1>3. S \in SUBSET Nat /\ S # {}
  BY <1>2
<1>4. MappingTop(t, ba, sig) = Min(S) - 1
  BY DEF MappingTop
<1> HIDE DEF S
<1>5. Min(S) \in S
  BY <1>3, MinNat
<1> QED BY <1>2, <1>4, <1>5, GeometryAssumption

\* What the walks return lies in the range walked.
LEMMA WalkRange ==
  ASSUME NEW bs, NEW count, NEW ba, NEW limit
  PROVE  /\ nmbm_block_walk_asc(bs, ba, count, limit) \subseteq ba .. limit - 1
         /\ nmbm_block_walk_desc(bs, ba, count, limit) \subseteq limit + 1 .. ba
         /\ nmbm_try_reserve_blocks(bs, ba, limit) \subseteq ba .. limit - 1
BY DEF nmbm_block_walk_asc, nmbm_block_walk_desc, nmbm_try_reserve_blocks, GoodIn

\* A block that starts with a table header holds a table.
LEMMA HeaderTable ==
  ASSUME NEW c \in Content, IsHeader(c) PROVE c.t \in InfoTable
BY DEF Content, IsHeader, Blank, Torn, Signature

\* What the driver writes to blocks is block content.
LEMMA ContentValues ==
  /\ Blank \in Content /\ Torn \in Content /\ Signature \in Content
  /\ \A lb \in LBlocks : Data(lb) \in Content
  /\ \A i \in 1 .. TableBlocks, t \in InfoTable : Chunk(i, t) \in Content
  /\ Blank # Signature /\ Torn # Signature
  /\ \A lb \in LBlocks : Data(lb) # Signature
  /\ \A i, t : Chunk(i, t) # Signature
BY DEF Content, Blank, Torn, Signature, Data, Chunk

\* nmbm_set_block_state changes the block states and the dirty flag only.
LEMMA SetBlockState ==
  ASSUME NEW n \in Instance, NEW S, NEW state \in BlockState,
         NEW m, m = nmbm_set_block_state(n, S, state)
  PROVE  /\ m \in Instance
         /\ m.sig_ba = n.sig_ba /\ m.block_mapping = n.block_mapping
         /\ m.main_ba = n.main_ba /\ m.backup_ba = n.backup_ba
         /\ m.map_ba = n.map_ba /\ m.top_ba = n.top_ba
BY DEF nmbm_set_block_state, Instance

\* nmbm_generate_info_table_cache changes the write count and the cache only.
LEMMA GenerateCache ==
  ASSUME NEW n \in Instance, NEW m, m = nmbm_generate_info_table_cache(n)
  PROVE  /\ m \in Instance
         /\ m.sig_ba = n.sig_ba /\ m.block_mapping = n.block_mapping
         /\ m.main_ba = n.main_ba /\ m.backup_ba = n.backup_ba
         /\ m.map_ba = n.map_ba /\ m.top_ba = n.top_ba
         /\ m.data_count = n.data_count
<1> DEFINE wc == IF n.dirty THEN n.write_count + 1 ELSE n.write_count
<1>1. wc \in Nat
  BY DEF Instance
<1>2. [write_count |-> wc, state |-> n.block_state, map |-> n.block_mapping] \in InfoTable
  BY <1>1 DEF InfoTable, Instance
<1> QED BY <1>1, <1>2 DEF nmbm_generate_info_table_cache, Instance

\* A scan for bad blocks and the initial mapping.
LEMMA ScanAndBuild ==
  ASSUME NEW n \in Instance, NEW m, m = nmbm_scan_and_build(n)
  PROVE  /\ m \in Instance
         /\ m.sig_ba = n.sig_ba
         /\ \A lb \in LBlocks : m.block_mapping[lb] < MgmtStart
         /\ m.main_ba = n.main_ba /\ m.backup_ba = n.backup_ba
         /\ m.map_ba = n.map_ba /\ m.top_ba = n.top_ba
<1> DEFINE s == nmbm_set_block_state(n, oob, BLOCK_ST_BAD)
<1>1. s \in Instance /\ s.sig_ba = n.sig_ba /\ s.main_ba = n.main_ba
      /\ s.backup_ba = n.backup_ba /\ s.map_ba = n.map_ba /\ s.top_ba = n.top_ba
  BY SetBlockState DEF BlockState
<1>2. m = [s EXCEPT !.block_mapping = nmbm_build_mapping_table(s.block_state),
                    !.data_count = Cardinality(Usable(s.block_state))]
  BY DEF nmbm_scan_and_build
<1>3. PICK bm : /\ bm = nmbm_build_mapping_table(s.block_state)
                /\ bm \in Mapping /\ \A lb \in LBlocks : bm[lb] < MgmtStart
  BY BuildMapping
<1>4. PICK count \in Nat : count = Cardinality(Usable(s.block_state))
  BY UsableCount
<1> HIDE DEF s
<1>5. m = [s EXCEPT !.block_mapping = bm, !.data_count = count]
  BY <1>2, <1>3, <1>4
<1> QED BY <1>1, <1>3, <1>5 DEF Instance

\* A freshly initialised instance.
LEMMA InitInstance ==
  /\ nmbm_init_structure \in Instance /\ nmbm_init_structure.sig_ba = 0
  /\ W0 \in Frame /\ L0 \in Locals
<1>1. AllGood \in [Blocks -> BlockState] /\ NoMapping \in Mapping /\ 0 \in Blocks /\ 0 \in LBlocks
  BY GeometryAssumption DEF AllGood, NoMapping, BlockState, Mapping, Blocks, LBlocks
<1>2. [write_count |-> 0, state |-> AllGood, map |-> NoMapping] \in InfoTable
  BY <1>1 DEF InfoTable
<1> QED BY <1>1, <1>2 DEF nmbm_init_structure, Instance, W0, Frame, L0, Locals,
             RangeReturn, RebuildReturn, UpdateReturn, MapReturn

-----------------------------------------------------------------------------
(* The invariant is inductive.                                             *)

\* The invariant holds before the first attach.
LEMMA IndInvInit == Init => IndInv
<1> SUFFICES ASSUME Init PROVE IndInv
  OBVIOUS
<1> USE DEF Init
<1>1. TypeOK
  BY InitInstance, ContentValues, EnvironmentAssumption DEF TypeOK, Label, NoExpectation, Expected
<1>2. SigInv /\ TableInv /\ SearchInv /\ FrameInv
  BY InitInstance, ContentValues DEF SigInv, TableInv, SearchInv, FrameInv, Starting, RangeUser
<1>3. MappedInv /\ ReturnInv
  BY DEF MappedInv, ReturnInv, L0, W0
<1> QED BY <1>1, <1>2, <1>3 DEF IndInv

-----------------------------------------------------------------------------
(* Two lemmas shared by the steps of an instance that knows its signature. *)

\* What such a step must keep of the instance.
Keeps(n, l) ==
  /\ n \in Instance /\ l \in Locals
  /\ n.sig_ba = ni.sig_ba /\ n.block_mapping = ni.block_mapping
  /\ TablesIn(n) /\ SparesIn(n) /\ l.start \in Area(n) \cup {0}

\* Addresses in the management area are numbers below the signature.
LEMMA AreaNat ==
  ASSUME NEW n \in Instance, NEW x \in Area(n)
  PROVE  x \in Nat /\ x \in Int /\ MgmtStart <= x /\ x < n.sig_ba
BY GeometryAssumption DEF Area, Instance, Blocks

\* The frame of a call.
LEMMA NewFrame ==
  ASSUME NEW a \in Nat, NEW l \in Int, NEW k \in RangeReturn, NEW f,
         f = [ba |-> a, limit |-> l, i |-> 1, start |-> 0, k |-> k]
  PROVE  f \in Frame /\ f.ba = a /\ f.limit = l /\ f.i = 1 /\ f.k = k
BY DEF Frame

\* A step that calls a loop over management blocks preserves the invariant
\* if it hands over a range of the management area.
LEMMA CallAnyStep ==
  ASSUME IndInv, ni.sig_ba # 0, UNCHANGED <<cell, oob, boots>>,
         expect' \in [LBlocks -> Expected],
         pc' \in {"write", "erase"}, Keeps(ni', loc'),
         w' \in Frame, w'.i = 1, MgmtStart <= w'.ba, w'.limit < ni.sig_ba,
         w'.k \in {"u_backup", "us_backup"} => ni'.backup_ba # 0,
         w'.k \in {"rb_backup", "rs_erased"} => loc'.end \in Area(ni'),
         loc'.lb = loc.lb, loc'.uk = loc.uk, loc'.mk = loc.mk,
         loc'.rk = "create_map" \/ w'.k = "create_map" => loc.mk # "er_mapped"
  PROVE  IndInv'
<1>2. TypeOK'
  BY DEF IndInv, TypeOK, Label, Keeps
<1>3. SigInv'
  BY DEF IndInv, SigInv, Keeps
<1>4. TableInv' /\ SearchInv'
  BY DEF TableInv, SearchInv, Keeps
<1>5. FrameInv'
  BY DEF FrameInv, Keeps
<1>6. MappedInv' /\ ReturnInv'
  BY DEF IndInv, MappedInv, ReturnInv, Keeps
<1> QED BY <1>2, <1>3, <1>4, <1>5, <1>6 DEF IndInv

\* ... in particular one that tells nobody anything new.
LEMMA CallStep ==
  ASSUME IndInv, ni.sig_ba # 0, UNCHANGED <<cell, oob, expect, boots>>,
         pc' \in {"write", "erase"}, Keeps(ni', loc'),
         w' \in Frame, w'.i = 1, MgmtStart <= w'.ba, w'.limit < ni.sig_ba,
         w'.k \in {"u_backup", "us_backup"} => ni'.backup_ba # 0,
         w'.k \in {"rb_backup", "rs_erased"} => loc'.end \in Area(ni'),
         loc'.lb = loc.lb, loc'.uk = loc.uk, loc'.mk = loc.mk,
         loc'.rk = "create_map" \/ w'.k = "create_map" => loc.mk # "er_mapped"
  PROVE  IndInv'
<1>1. expect' \in [LBlocks -> Expected]
  BY DEF IndInv, TypeOK
<1> QED BY <1>1, CallAnyStep

\* A step that goes on elsewhere preserves the invariant if it keeps the
\* instance and the promises about logic blocks.
LEMMA JumpStep ==
  ASSUME IndInv, ni.sig_ba # 0, UNCHANGED <<cell, oob, w, boots>>,
         expect' \in [LBlocks -> Expected], Keeps(ni', loc'), pc' \in Label,
         pc' \notin RangeUser, pc' \notin Starting \ {"off"}, pc' # "idle",
         MappedInv', ReturnInv'
  PROVE  IndInv'
<1>1. TypeOK'
  BY DEF IndInv, TypeOK, Keeps
<1>2. SigInv'
  BY DEF IndInv, SigInv, Keeps, Starting
<1>3. TableInv' /\ SearchInv'
  BY DEF TableInv, SearchInv, Keeps, Starting
<1>4. FrameInv'
  BY DEF FrameInv
<1> QED BY <1>1, <1>2, <1>3, <1>4 DEF IndInv

\* An instance past the start of an attach knows its signature and its area.
LEMMA Ready ==
  ASSUME IndInv, pc \notin Starting
  PROVE  /\ ni \in Instance /\ w \in Frame /\ loc \in Locals
         /\ ni.sig_ba # 0 /\ Keeps(ni, loc)
BY DEF IndInv, TypeOK, SigInv, TableInv, Keeps, Starting

\* A table that was written lies in the management area.
LEMMA WrittenRange ==
  ASSUME IndInv, pc \in RangeUser, Written
  PROVE  w.start \in Area(ni) /\ w.ba \in Area(ni)
<1>1. ni \in Instance /\ w \in Frame
  BY DEF IndInv, TypeOK
<1> QED BY <1>1, GeometryAssumption
        DEF IndInv, FrameInv, Written, Frame, Instance, Area, Blocks

\* The return points keep what is promised about logic blocks.
LEMMA ReturnUpdate ==
  ASSUME IndInv, pc' = loc.uk, loc'.uk = loc.uk, loc'.mk = loc.mk, loc'.rk = loc.rk,
         loc'.lb = loc.lb, ni'.block_mapping = ni.block_mapping, w'.k = w.k
  PROVE  /\ pc' \in Label /\ pc' \notin RangeUser /\ pc' \notin Starting \ {"off"} /\ pc' # "idle"
         /\ MappedInv' /\ ReturnInv'
<1>1. loc.uk \in UpdateReturn
  BY DEF IndInv, TypeOK, Locals
<1>2. MappedInv' /\ ReturnInv'
  BY <1>1 DEF IndInv, MappedInv, ReturnInv, UpdateReturn
<1> QED BY <1>1, <1>2 DEF UpdateReturn, Label, RangeUser, Starting

\* The same for the return of nmbm_rebuild_info_table.
LEMMA ReturnRebuild ==
  ASSUME IndInv, pc' = loc.rk, loc'.uk = loc.uk, loc'.mk = loc.mk, loc'.rk = loc.rk,
         loc'.lb = loc.lb, ni'.block_mapping = ni.block_mapping, w'.k = w.k
  PROVE  /\ pc' \in Label /\ pc' \notin RangeUser /\ pc' \notin Starting \ {"off"} /\ pc' # "idle"
         /\ MappedInv' /\ ReturnInv'
<1>1. loc.rk \in RebuildReturn
  BY DEF IndInv, TypeOK, Locals
<1>2. MappedInv' /\ ReturnInv'
  BY <1>1 DEF IndInv, MappedInv, ReturnInv, RebuildReturn
<1> QED BY <1>1, <1>2 DEF RebuildReturn, Label, RangeUser, Starting

\* Going on with nmbm_update_info_table or at another point that promises
\* nothing about logic blocks.
LEMMA ReturnPlain ==
  ASSUME IndInv, pc' \in {"update", "load_ok", "load_failed", "done"},
         loc'.uk = loc.uk, loc'.mk = loc.mk, loc'.rk = loc.rk,
         loc'.lb = loc.lb, ni'.block_mapping = ni.block_mapping, w'.k = w.k
  PROVE  /\ pc' \in Label /\ pc' \notin RangeUser /\ pc' \notin Starting \ {"off"} /\ pc' # "idle"
         /\ MappedInv' /\ ReturnInv'
<1>2. MappedInv' /\ ReturnInv'
  BY DEF IndInv, MappedInv, ReturnInv
<1> QED BY <1>2 DEF Label, RangeUser, Starting

-----------------------------------------------------------------------------
(* One lemma per action.                                                   *)

\* The return of nmbm_write_mgmt_range.
LEMMA WriteReturnStep == IndInv /\ WriteReturn => IndInv'
<1> SUFFICES ASSUME IndInv, WriteReturn PROVE IndInv'
  OBVIOUS
<1>1. pc = "write" /\ pc' = w.k /\ UNCHANGED <<cell, oob, ni, w, loc, expect, boots>>
  BY DEF WriteReturn, hist
<1>2. w.k \in RangeReturn
  BY DEF IndInv, TypeOK, Frame
<1>3. TypeOK'
  BY <1>1, <1>2 DEF IndInv, TypeOK, RangeReturn, Label
<1>4. SigInv' /\ TableInv' /\ SearchInv'
  BY <1>1, <1>2 DEF IndInv, SigInv, TableInv, SearchInv, RangeReturn, Starting
<1>5. FrameInv'
  BY <1>1, <1>2 DEF IndInv, FrameInv, RangeUser, RangeReturn
<1>6. MappedInv' /\ ReturnInv'
  BY <1>1, <1>2 DEF IndInv, MappedInv, ReturnInv, RangeReturn
<1> QED BY <1>3, <1>4, <1>5, <1>6 DEF IndInv

\* nmbm_rebuild_info_table after its main table.
LEMMA RebuildMainStep == IndInv /\ RebuildMain => IndInv'
<1> SUFFICES ASSUME IndInv, RebuildMain PROVE IndInv'
  OBVIOUS
<1>0. pc = "rb_main" /\ UNCHANGED <<cell, oob, expect, boots>>
  BY DEF RebuildMain, chip, hist
<1>1. pc \in RangeUser /\ pc \notin Starting
  BY <1>0 DEF RangeUser, Starting
<1>2. /\ ni \in Instance /\ w \in Frame /\ loc \in Locals
      /\ ni.sig_ba # 0 /\ Keeps(ni, loc)
  BY <1>1, Ready
<1>3. CASE ~Written
  <2>1. /\ ni' = [ni EXCEPT !.protected = TRUE] /\ loc' = [loc EXCEPT !.ok = FALSE]
        /\ pc' = (IF loc.rk = "create_map" THEN "create_done" ELSE loc.uk) /\ w' = w
    BY <1>3 DEF RebuildMain
  <2>2. Keeps(ni', loc')
    BY <1>2, <2>1 DEF Keeps, Instance, Locals, TablesIn, SparesIn, Area
  <2>3. /\ loc'.uk = loc.uk /\ loc'.mk = loc.mk /\ loc'.rk = loc.rk
        /\ loc'.lb = loc.lb /\ ni'.block_mapping = ni.block_mapping
    BY <1>2, <2>1 DEF Instance, Locals
  <2>4. expect' \in [LBlocks -> Expected]
    BY <1>0 DEF IndInv, TypeOK
  <2>5. CASE pc' = loc.uk
    BY <1>0, <1>2, <2>1, <2>2, <2>3, <2>4, <2>5, ReturnUpdate, JumpStep
  <2>6. CASE pc' = "create_done"
    <3>1. MappedInv' /\ ReturnInv'
      BY <2>1, <2>3, <2>6 DEF IndInv, MappedInv, ReturnInv
    <3> QED BY <1>0, <1>2, <2>1, <2>2, <2>4, <2>6, <3>1, JumpStep DEF Label, RangeUser, Starting
  <2> QED BY <2>1, <2>5, <2>6
<1>4. CASE Written
  <2>1. ni' = [ni EXCEPT !.main_ba = w.start, !.map_ba = w.ba, !.dirty = FALSE]
    BY <1>2, <1>4 DEF RebuildMain, nmbm_mark_tables_clean, TableStart, TableEnd, Instance
  <2>2. w.start \in Area(ni) /\ w.ba \in Area(ni)
    BY <1>1, <1>4, WrittenRange
  <2>3. Keeps(ni', loc)
    BY <1>2, <2>1, <2>2, AreaNat DEF Keeps, Instance, TablesIn, SparesIn, Area
  <2>4. CASE pc' = loc.rk /\ UNCHANGED <<w, loc>>
    <3>1. ni'.block_mapping = ni.block_mapping
      BY <1>2, <2>1 DEF Instance
    <3>2. expect' \in [LBlocks -> Expected]
      BY <1>0 DEF IndInv, TypeOK
    <3> QED BY <1>0, <1>2, <2>3, <2>4, <3>1, <3>2, ReturnRebuild, JumpStep
  <2>5. ASSUME NEW next \in Reserve(ni, TableEnd), CallWrite(next, ni.top_ba, "rb_backup"),
               loc' = [loc EXCEPT !.end = TableEnd]
        PROVE  IndInv'
    <3>1. next \in Nat /\ MgmtStart <= next
      <4>1. next \in w.ba .. ni.top_ba - TableBlocks - 1
        BY WalkRange DEF Reserve, TableEnd
      <4> QED BY <4>1, <1>2, <2>2, AreaNat, GeometryAssumption DEF Instance
    <3>2. ni.top_ba \in Area(ni)
      BY <1>2 DEF Keeps, SparesIn
    <3>3. /\ w' \in Frame /\ w'.i = 1 /\ MgmtStart <= w'.ba /\ w'.limit < ni.sig_ba
          /\ w'.k = "rb_backup" /\ pc' = "write"
      BY <1>2, <2>5, <3>1, <3>2, AreaNat, NewFrame DEF CallWrite, RangeReturn
    <3>4. /\ loc'.lb = loc.lb /\ loc'.uk = loc.uk /\ loc'.mk = loc.mk /\ loc'.rk = loc.rk
          /\ loc'.start = loc.start /\ loc'.end = w.ba /\ loc' \in Locals
      BY <1>2, <2>2, <2>5, AreaNat DEF Locals, TableEnd
    <3>5. Keeps(ni', loc') /\ loc'.end \in Area(ni')
      BY <2>2, <2>3, <3>4 DEF Keeps, Area
    <3>6. loc'.rk = "create_map" => loc.mk # "er_mapped"
      BY <3>4 DEF IndInv, ReturnInv
    <3> QED BY <1>0, <1>2, <3>3, <3>4, <3>5, <3>6, CallStep
  <2> QED BY <1>4, <2>4, <2>5 DEF RebuildMain
<1> QED BY <1>3, <1>4

\* nmbm_rebuild_info_table after its backup table.
LEMMA RebuildBackupStep == IndInv /\ RebuildBackup => IndInv'
<1> SUFFICES ASSUME IndInv, RebuildBackup PROVE IndInv'
  OBVIOUS
<1>0. pc = "rb_backup" /\ UNCHANGED <<cell, oob, loc, expect, boots>>
  BY DEF RebuildBackup, chip, hist
<1>1. pc \in RangeUser /\ pc \notin Starting
  BY <1>0 DEF RangeUser, Starting
<1>2. /\ ni \in Instance /\ w \in Frame /\ loc \in Locals
      /\ ni.sig_ba # 0 /\ Keeps(ni, loc)
  BY <1>1, Ready
<1>3. CASE ~Written
  <2>1. pc' = loc.rk /\ UNCHANGED <<ni, w>>
    BY <1>3 DEF RebuildBackup
  <2>2. expect' \in [LBlocks -> Expected]
    BY <1>0 DEF IndInv, TypeOK
  <2> QED BY <1>0, <1>2, <2>1, <2>2, ReturnRebuild, JumpStep
<1>4. CASE Written
  <2>1. /\ ni' = [ni EXCEPT !.backup_ba = w.start, !.map_ba = w.ba]
        /\ CallErase(loc.end, w.start, loc.rk)
    BY <1>4 DEF RebuildBackup, TableStart, TableEnd
  <2>2. w.start \in Area(ni) /\ w.ba \in Area(ni)
    BY <1>1, <1>4, WrittenRange
  <2>3. loc.end \in Area(ni)
    BY <1>0, <1>1 DEF IndInv, FrameInv
  <2>4. Keeps(ni', loc')
    BY <1>0, <1>2, <2>1, <2>2, AreaNat DEF Keeps, Instance, TablesIn, SparesIn, Area
  <2>5. loc.rk \in RangeReturn /\ loc.rk \notin {"u_backup", "us_backup", "rb_backup", "rs_erased"}
    BY <1>2 DEF Locals, RebuildReturn, RangeReturn
  <2>6. /\ w' \in Frame /\ w'.i = 1 /\ MgmtStart <= w'.ba /\ w'.limit < ni.sig_ba
        /\ w'.k = loc.rk /\ pc' = "erase"
    BY <1>2, <2>1, <2>2, <2>3, <2>5, AreaNat, NewFrame DEF CallErase
  <2>7. loc.rk = "create_map" => loc.mk # "er_mapped"
    BY DEF IndInv, ReturnInv
  <2> QED BY <1>0, <1>2, <2>4, <2>5, <2>6, <2>7, CallStep
<1> QED BY <1>3, <1>4

\* Starting nmbm_rebuild_info_table preserves the invariant.
LEMMA RebuildCall ==
  ASSUME IndInv, ni.sig_ba # 0, NEW n, n \in Instance,
         n.sig_ba = ni.sig_ba, n.block_mapping = ni.block_mapping, n.top_ba \in Area(n),
         Rebuild(n), UNCHANGED <<cell, oob, expect, boots>>,
         loc' \in Locals, loc'.start \in Area(n) \cup {0},
         loc'.lb = loc.lb, loc'.uk = loc.uk, loc'.mk = loc.mk,
         loc'.rk = "create_map" => loc.mk # "er_mapped"
  PROVE  IndInv'
<1>1. /\ ni' = [n EXCEPT !.main_ba = 0, !.backup_ba = 0, !.map_ba = n.top_ba]
      /\ CallWrite(MgmtStart, n.top_ba, "rb_main")
  BY DEF Rebuild
<1>2. Keeps(ni', loc')
  BY <1>1, AreaNat DEF Keeps, Instance, TablesIn, SparesIn, Area
<1>3. /\ w' \in Frame /\ w'.i = 1 /\ MgmtStart <= w'.ba /\ w'.limit < ni.sig_ba
      /\ w'.k = "rb_main" /\ pc' = "write"
  BY <1>1, AreaNat, NewFrame, GeometryAssumption DEF CallWrite, RangeReturn
<1> QED BY <1>2, <1>3, CallStep

\* Writing the main table, or rebuilding both, preserves the invariant.
LEMMA WriteMainCall ==
  ASSUME IndInv, ni.sig_ba # 0, NEW n, Keeps(n, loc), NEW limit, limit \in Area(n),
         WriteMain(n, limit), UNCHANGED <<cell, oob, expect, boots>>, loc \in Locals
  PROVE  IndInv'
<1>1. CASE n.main_ba = 0
  <2>1. Rebuild(n) /\ loc' = [loc EXCEPT !.rk = "update"]
    BY <1>1 DEF WriteMain
  <2>2. /\ loc' \in Locals /\ loc'.start = loc.start /\ loc'.rk = "update"
        /\ loc'.lb = loc.lb /\ loc'.uk = loc.uk /\ loc'.mk = loc.mk
    BY <2>1 DEF Locals, RebuildReturn
  <2> QED BY <2>1, <2>2, RebuildCall DEF Keeps, SparesIn
<1>2. CASE n.main_ba # 0
  <2>1. ni' = n /\ CallWrite(n.main_ba, limit, "u_main") /\ loc' = loc
    BY <1>2 DEF WriteMain
  <2>2. n \in Instance /\ n.main_ba \in Area(n) /\ n.sig_ba = ni.sig_ba /\ Keeps(ni', loc')
    BY <1>2, <2>1 DEF Keeps, TablesIn
  <2>3. /\ w' \in Frame /\ w'.i = 1 /\ MgmtStart <= w'.ba /\ w'.limit < ni.sig_ba
        /\ w'.k = "u_main" /\ pc' = "write"
    BY <2>1, <2>2, AreaNat, NewFrame DEF CallWrite, RangeReturn
  <2>4. loc'.rk = "create_map" => loc.mk # "er_mapped"
    BY <2>1 DEF IndInv, ReturnInv
  <2> QED BY <2>1, <2>2, <2>3, <2>4, CallStep
<1> QED BY <1>1, <1>2

\* nmbm_update_info_table starts with the backup table or the main one.
LEMMA UpdateStep == IndInv /\ nmbm_update_info_table => IndInv'
<1> SUFFICES ASSUME IndInv, nmbm_update_info_table PROVE IndInv'
  OBVIOUS
<1>0. pc = "update" /\ UNCHANGED <<cell, oob, expect, boots>>
  BY DEF nmbm_update_info_table, chip, hist
<1>1. pc \notin Starting
  BY <1>0 DEF Starting
<1>2. /\ ni \in Instance /\ w \in Frame /\ loc \in Locals
      /\ ni.sig_ba # 0 /\ Keeps(ni, loc)
  BY <1>1, Ready
<1>3. CASE ni.protected \/ ~ni.dirty
  <2>1. pc' = loc.uk /\ loc' = [loc EXCEPT !.ok = TRUE] /\ UNCHANGED <<ni, w>>
    BY <1>3 DEF nmbm_update_info_table
  <2>2. /\ loc' \in Locals /\ loc'.start = loc.start /\ loc'.rk = loc.rk
        /\ loc'.lb = loc.lb /\ loc'.uk = loc.uk /\ loc'.mk = loc.mk
    BY <1>2, <2>1 DEF Locals
  <2>3. Keeps(ni', loc')
    BY <1>2, <2>1, <2>2 DEF Keeps
  <2>4. expect' \in [LBlocks -> Expected]
    BY <1>0 DEF IndInv, TypeOK
  <2> QED BY <1>0, <1>2, <2>1, <2>2, <2>3, <2>4, ReturnUpdate, JumpStep
<1>4. CASE ~(ni.protected \/ ~ni.dirty)
  <2> DEFINE n == nmbm_generate_info_table_cache(ni)
  <2>1. IF n.backup_ba = 0
          THEN WriteMain(n, n.top_ba)
          ELSE /\ ni' = n
               /\ CallWrite(n.backup_ba, n.top_ba, "u_backup")
               /\ UNCHANGED loc
    BY <1>4 DEF nmbm_update_info_table
  <2>2. Keeps(n, loc)
    BY <1>2, GenerateCache DEF Keeps, TablesIn, SparesIn, Area
  <2> HIDE DEF n
  <2>3. n \in Instance /\ n.top_ba \in Area(n) /\ n.sig_ba = ni.sig_ba
    BY <2>2 DEF Keeps, SparesIn
  <2>4. CASE n.backup_ba = 0
    BY <1>0, <1>2, <2>1, <2>2, <2>3, <2>4, WriteMainCall
  <2>5. CASE n.backup_ba # 0
    <3>1. ni' = n /\ CallWrite(n.backup_ba, n.top_ba, "u_backup") /\ loc' = loc
      BY <2>1, <2>5
    <3>2. n.backup_ba \in Area(n)
      BY <2>2, <2>5 DEF Keeps, TablesIn
    <3>3. /\ w' \in Frame /\ w'.i = 1 /\ MgmtStart <= w'.ba /\ w'.limit < ni.sig_ba
          /\ w'.k = "u_backup" /\ pc' = "write"
      BY <2>3, <3>1, <3>2, AreaNat, NewFrame DEF CallWrite, RangeReturn
    <3>4. loc'.rk = "create_map" => loc.mk # "er_mapped"
      BY <3>1 DEF IndInv, ReturnInv
    <3> QED BY <1>0, <1>2, <2>2, <2>5, <3>1, <3>3, <3>4, CallStep
  <2> QED BY <2>4, <2>5
<1> QED BY <1>3, <1>4

\* nmbm_update_info_table_once after its backup table.
LEMMA UpdateBackupStep == IndInv /\ UpdateBackup => IndInv'
<1> SUFFICES ASSUME IndInv, UpdateBackup PROVE IndInv'
  OBVIOUS
<1>0. pc = "u_backup" /\ UNCHANGED <<cell, oob, expect, boots>>
  BY DEF UpdateBackup, chip, hist
<1>1. pc \in RangeUser /\ pc \notin Starting
  BY <1>0 DEF RangeUser, Starting
<1>2. /\ ni \in Instance /\ w \in Frame /\ loc \in Locals
      /\ ni.sig_ba # 0 /\ Keeps(ni, loc)
  BY <1>1, Ready
<1>3. CASE Written
  <2>1. PICK n : /\ n = [ni EXCEPT !.backup_ba = w.start, !.map_ba = w.ba, !.dirty = FALSE]
                 /\ WriteMain(n, w.start)
    BY <1>2, <1>3 DEF UpdateBackup, nmbm_mark_tables_clean, TableStart, TableEnd, Instance
  <2>2. w.start \in Area(ni) /\ w.ba \in Area(ni)
    BY <1>1, <1>3, WrittenRange
  <2>3. Keeps(n, loc) /\ w.start \in Area(n)
    BY <1>2, <2>1, <2>2, AreaNat DEF Keeps, Instance, TablesIn, SparesIn, Area
  <2> QED BY <1>0, <1>2, <2>1, <2>3, WriteMainCall
<1>4. CASE ~Written
  <2>1. PICK n : /\ n = [ni EXCEPT !.map_ba = ni.backup_ba, !.backup_ba = 0]
                 /\ WriteMain(n, ni.top_ba)
    BY <1>4 DEF UpdateBackup
  <2>2. ni.backup_ba \in Area(ni) /\ ni.top_ba \in Area(ni)
    BY <1>0, <1>1, <1>2 DEF IndInv, FrameInv, Keeps, TablesIn, SparesIn
  <2>3. Keeps(n, loc) /\ ni.top_ba \in Area(n)
    BY <1>2, <2>1, <2>2, AreaNat DEF Keeps, Instance, TablesIn, SparesIn, Area
  <2> QED BY <1>0, <1>2, <2>1, <2>3, WriteMainCall
<1> QED BY <1>3, <1>4

\* nmbm_update_info_table_once after its main table.
LEMMA UpdateMainStep == IndInv /\ UpdateMain => IndInv'
<1> SUFFICES ASSUME IndInv, UpdateMain PROVE IndInv'
  OBVIOUS
<1>0. pc = "u_main" /\ UNCHANGED <<cell, oob, expect, boots>>
  BY DEF UpdateMain, chip, hist
<1>1. pc \in RangeUser /\ pc \notin Starting
  BY <1>0 DEF RangeUser, Starting
<1>2. /\ ni \in Instance /\ w \in Frame /\ loc \in Locals
      /\ ni.sig_ba # 0 /\ Keeps(ni, loc)
  BY <1>1, Ready
<1>3. expect' \in [LBlocks -> Expected]
  BY <1>0 DEF IndInv, TypeOK
<1>4. CASE Written
  <2>1. /\ ni' = [ni EXCEPT !.main_ba = w.start, !.dirty = FALSE,
                            !.map_ba = IF ni.backup_ba = 0 THEN w.ba ELSE ni.map_ba]
        /\ pc' = "update" /\ UNCHANGED <<w, loc>>
    BY <1>2, <1>4 DEF UpdateMain, nmbm_mark_tables_clean, TableStart, TableEnd, Instance
  <2>2. w.start \in Area(ni) /\ w.ba \in Area(ni)
    BY <1>1, <1>4, WrittenRange
  <2>3. Keeps(ni', loc') /\ ni'.block_mapping = ni.block_mapping
    BY <1>2, <2>1, <2>2, AreaNat DEF Keeps, Instance, TablesIn, SparesIn, Area
  <2> QED BY <1>0, <1>2, <1>3, <2>1, <2>3, ReturnPlain, JumpStep
<1>5. CASE ~Written /\ ni.backup_ba = 0
  <2>1. Rebuild(ni) /\ loc' = [loc EXCEPT !.rk = "update"]
    BY <1>5 DEF UpdateMain
  <2>2. /\ loc' \in Locals /\ loc'.start = loc.start /\ loc'.rk = "update"
        /\ loc'.lb = loc.lb /\ loc'.uk = loc.uk /\ loc'.mk = loc.mk
    BY <1>2, <2>1 DEF Locals, RebuildReturn
  <2> QED BY <1>0, <1>2, <2>1, <2>2, RebuildCall DEF Keeps, SparesIn
<1>6. ASSUME ni' = BackupBecomesMain(ni), pc' = "update", UNCHANGED <<w, loc>>
      PROVE  IndInv'
  <2>1. Keeps(ni', loc') /\ ni'.block_mapping = ni.block_mapping
    BY <1>2, <1>6 DEF Keeps, BackupBecomesMain, Instance, TablesIn, SparesIn, Area
  <2> QED BY <1>0, <1>2, <1>3, <1>6, <2>1, ReturnPlain, JumpStep
<1>7. ASSUME NEW write_ba \in Reserve(ni, ni.map_ba), CallWrite(write_ba, ni.top_ba, "rm_tmp"),
             loc' = [loc EXCEPT !.ba = write_ba], ni' = ni
      PROVE  IndInv'
  <2>1. ni.map_ba \in Area(ni) /\ ni.top_ba \in Area(ni)
    BY <1>2 DEF Keeps, SparesIn
  <2>2. write_ba \in Nat /\ MgmtStart <= write_ba
    <3>1. write_ba \in ni.map_ba .. ni.top_ba - TableBlocks - 1
      BY WalkRange DEF Reserve
    <3> QED BY <1>2, <2>1, <3>1, AreaNat, GeometryAssumption
  <2>3. /\ w' \in Frame /\ w'.i = 1 /\ MgmtStart <= w'.ba /\ w'.limit < ni.sig_ba
        /\ w'.k = "rm_tmp" /\ pc' = "write"
    BY <1>2, <1>7, <2>1, <2>2, AreaNat, NewFrame DEF CallWrite, RangeReturn
  <2>4. /\ loc'.lb = loc.lb /\ loc'.uk = loc.uk /\ loc'.mk = loc.mk /\ loc'.rk = loc.rk
        /\ loc'.start = loc.start /\ loc' \in Locals
    BY <1>2, <1>7, <2>2 DEF Locals
  <2>5. Keeps(ni', loc')
    BY <1>2, <1>7, <2>4 DEF Keeps
  <2>6. loc'.rk = "create_map" => loc.mk # "er_mapped"
    BY <2>4 DEF IndInv, ReturnInv
  <2> QED BY <1>0, <1>2, <2>3, <2>4, <2>5, <2>6, CallStep
<1> QED BY <1>4, <1>5, <1>6, <1>7 DEF UpdateMain

\* nmbm_rescue_main_info_table after its temporary table.
LEMMA RescueTmpStep == IndInv /\ RescueTmp => IndInv'
<1> SUFFICES ASSUME IndInv, RescueTmp PROVE IndInv'
  OBVIOUS
<1>0. pc = "rm_tmp" /\ UNCHANGED <<cell, oob, expect, boots>>
  BY DEF RescueTmp, chip, hist
<1>1. pc \in RangeUser /\ pc \notin Starting
  BY <1>0 DEF RangeUser, Starting
<1>2. /\ ni \in Instance /\ w \in Frame /\ loc \in Locals
      /\ ni.sig_ba # 0 /\ Keeps(ni, loc)
  BY <1>1, Ready
<1>3. loc.rk = "create_map" => loc.mk # "er_mapped"
  BY DEF IndInv, ReturnInv
<1>4. CASE Written
  <2>1. /\ ni' = [ni EXCEPT !.map_ba = w.ba] /\ loc' = [loc EXCEPT !.start = w.start]
        /\ CallWrite(MgmtStart, w.start, "rm_main")
    BY <1>4 DEF RescueTmp, TableStart, TableEnd
  <2>2. w.start \in Area(ni) /\ w.ba \in Area(ni)
    BY <1>1, <1>4, WrittenRange
  <2>3. /\ loc'.lb = loc.lb /\ loc'.uk = loc.uk /\ loc'.mk = loc.mk /\ loc'.rk = loc.rk
        /\ loc'.start = w.start /\ loc' \in Locals
    BY <1>2, <2>1, <2>2, AreaNat DEF Locals
  <2>4. Keeps(ni', loc')
    BY <1>2, <2>1, <2>2, <2>3, AreaNat DEF Keeps, Instance, TablesIn, SparesIn, Area
  <2>5. /\ w' \in Frame /\ w'.i = 1 /\ MgmtStart <= w'.ba /\ w'.limit < ni.sig_ba
        /\ w'.k = "rm_main" /\ pc' = "write"
    BY <1>2, <2>1, <2>2, AreaNat, NewFrame, GeometryAssumption DEF CallWrite, RangeReturn
  <2> QED BY <1>0, <1>2, <1>3, <2>3, <2>4, <2>5, CallStep
<1>5. CASE ~Written /\ loc.ba > ni.map_ba
  <2>1. /\ ni' = ni /\ loc' = [loc EXCEPT !.ba = loc.ba - 1]
        /\ CallWrite(loc.ba - 1, ni.top_ba, "rm_tmp")
    BY <1>2, <1>5 DEF RescueTmp, Locals, Instance
  <2>2. ni.map_ba \in Area(ni) /\ ni.top_ba \in Area(ni)
    BY <1>2 DEF Keeps, SparesIn
  <2>3. loc.ba - 1 \in Nat /\ MgmtStart <= loc.ba - 1
    BY <1>2, <1>5, <2>2, AreaNat, GeometryAssumption DEF Locals
  <2>4. /\ loc'.lb = loc.lb /\ loc'.uk = loc.uk /\ loc'.mk = loc.mk /\ loc'.rk = loc.rk
        /\ loc'.start = loc.start /\ loc' \in Locals
    BY <1>2, <2>1, <2>3 DEF Locals
  <2>5. Keeps(ni', loc')
    BY <1>2, <2>1, <2>4 DEF Keeps
  <2>6. /\ w' \in Frame /\ w'.i = 1 /\ MgmtStart <= w'.ba /\ w'.limit < ni.sig_ba
        /\ w'.k = "rm_tmp" /\ pc' = "write"
    BY <1>2, <2>1, <2>2, <2>3, AreaNat, NewFrame DEF CallWrite, RangeReturn
  <2> QED BY <1>0, <1>2, <1>3, <2>4, <2>5, <2>6, CallStep
<1>6. CASE ~Written /\ loc.ba <= ni.map_ba
  <2>1. ni' = BackupBecomesMain(ni) /\ pc' = "update" /\ UNCHANGED <<w, loc>>
    BY <1>2, <1>6 DEF RescueTmp, Locals, Instance
  <2>2. Keeps(ni', loc') /\ ni'.block_mapping = ni.block_mapping
    BY <1>2, <2>1 DEF Keeps, BackupBecomesMain, Instance, TablesIn, SparesIn, Area
  <2>3. expect' \in [LBlocks -> Expected]
    BY <1>0 DEF IndInv, TypeOK
  <2> QED BY <1>0, <1>2, <2>1, <2>2, <2>3, ReturnPlain, JumpStep
<1> QED BY <1>4, <1>5, <1>6 DEF RescueTmp

\* nmbm_rescue_main_info_table after its main table.
LEMMA RescueMainStep == IndInv /\ RescueMain => IndInv'
<1> SUFFICES ASSUME IndInv, RescueMain PROVE IndInv'
  OBVIOUS
<1>0. pc = "rm_main" /\ pc' = "update" /\ UNCHANGED <<cell, oob, w, loc, expect, boots>>
  BY DEF RescueMain, chip, hist
<1>1. pc \in RangeUser /\ pc \notin Starting
  BY <1>0 DEF RangeUser, Starting
<1>2. /\ ni \in Instance /\ w \in Frame /\ loc \in Locals
      /\ ni.sig_ba # 0 /\ Keeps(ni, loc)
  BY <1>1, Ready
<1>3. Keeps(ni', loc') /\ ni'.block_mapping = ni.block_mapping
  <2>1. CASE Written
    <3>1. ni' = [ni EXCEPT !.main_ba = w.start, !.backup_ba = loc.start, !.dirty = FALSE]
      BY <1>2, <2>1 DEF RescueMain, nmbm_mark_tables_clean, TableStart, Instance
    <3>2. w.start \in Area(ni)
      BY <1>1, <2>1, WrittenRange
    <3> QED BY <1>0, <1>2, <3>1, <3>2, AreaNat DEF Keeps, Instance, Locals, TablesIn, SparesIn, Area
  <2>2. CASE ~Written
    <3>1. ni' = [ni EXCEPT !.main_ba = loc.start, !.backup_ba = 0, !.dirty = FALSE]
      BY <1>2, <2>2 DEF RescueMain, nmbm_mark_tables_clean, Instance
    <3> QED BY <1>0, <1>2, <3>1 DEF Keeps, Instance, Locals, TablesIn, SparesIn, Area
  <2> QED BY <2>1, <2>2
<1>4. expect' \in [LBlocks -> Expected]
  BY <1>0 DEF IndInv, TypeOK
<1> QED BY <1>0, <1>2, <1>3, <1>4, ReturnPlain, JumpStep

\* Losing power, or failing to attach, preserves the invariant.
LEMMA PowerOffStep ==
  ASSUME IndInv, PowerOff, cell' \in [Blocks -> Content], oob' \subseteq Blocks,
         \A b \in Blocks : cell'[b] = Signature => MgmtStart < b,
         expect' \in [LBlocks -> Expected], boots' \in Nat
  PROVE  IndInv'
<1>1. TypeOK'
  BY InitInstance DEF PowerOff, TypeOK, Label
<1>2. SigInv' /\ TableInv' /\ SearchInv' /\ FrameInv'
  BY InitInstance DEF PowerOff, SigInv, TableInv, SearchInv, FrameInv, Starting, RangeUser
<1>3. MappedInv' /\ ReturnInv'
  BY DEF PowerOff, MappedInv, ReturnInv, L0, W0
<1> QED BY <1>1, <1>2, <1>3 DEF IndInv

\* nmbm_map_block takes a spare block below the signature.
LEMMA MapBlockStep == IndInv /\ nmbm_map_block => IndInv'
<1> SUFFICES ASSUME IndInv, nmbm_map_block PROVE IndInv'
  OBVIOUS
<1>0. pc = "map" /\ UNCHANGED <<cell, oob, w, expect, boots>>
  BY DEF nmbm_map_block, chip, hist
<1>1. pc \notin Starting
  BY <1>0 DEF Starting
<1>2. /\ ni \in Instance /\ w \in Frame /\ loc \in Locals
      /\ ni.sig_ba # 0 /\ Keeps(ni, loc)
  BY <1>1, Ready
<1>3. expect' \in [LBlocks -> Expected]
  BY <1>0 DEF IndInv, TypeOK
<1>4. ASSUME ni' = ni, loc' = [loc EXCEPT !.ok = FALSE], pc' = loc.mk
      PROVE  IndInv'
  <2>1. /\ loc' \in Locals /\ loc'.start = loc.start /\ loc'.rk = loc.rk /\ ~loc'.ok
        /\ loc'.lb = loc.lb /\ loc'.uk = loc.uk /\ loc'.mk = loc.mk /\ loc.mk \in MapReturn
    BY <1>2, <1>4 DEF Locals
  <2>2. Keeps(ni', loc')
    BY <1>2, <1>4, <2>1 DEF Keeps
  <2>3. MappedInv' /\ ReturnInv'
    BY <1>0, <1>4, <2>1 DEF IndInv, MappedInv, ReturnInv, MapReturn
  <2> QED BY <1>0, <1>2, <1>3, <1>4, <2>1, <2>2, <2>3, JumpStep
          DEF MapReturn, Label, RangeUser, Starting
<1>5. ASSUME ni' = ni, loc' = [loc EXCEPT !.uk = "map_failed"], pc' = "update"
      PROVE  IndInv'
  <2>1. /\ loc' \in Locals /\ loc'.start = loc.start /\ loc'.rk = loc.rk
        /\ loc'.lb = loc.lb /\ loc'.uk = "map_failed" /\ loc'.mk = loc.mk
    BY <1>2, <1>5 DEF Locals, UpdateReturn
  <2>2. Keeps(ni', loc')
    BY <1>2, <1>5, <2>1 DEF Keeps
  <2>3. MappedInv' /\ ReturnInv'
    BY <1>0, <1>5, <2>1 DEF IndInv, MappedInv, ReturnInv
  <2> QED BY <1>0, <1>2, <1>3, <1>5, <2>1, <2>2, <2>3, JumpStep
          DEF Label, RangeUser, Starting
<1>6. ASSUME NEW pb \in nmbm_block_walk_desc(ni.block_state, ni.top_ba, 0, ni.map_ba),
             ni' = [ni EXCEPT !.block_mapping[loc.lb] = pb,
                              !.top_ba = ni.top_ba - 1, !.dirty = TRUE],
             loc' = [loc EXCEPT !.ok = TRUE], pc' = loc.mk
      PROVE  IndInv'
  <2>1. pb \in ni.map_ba + 1 .. ni.top_ba
    BY WalkRange
  <2>2. ni.map_ba \in Area(ni) /\ ni.top_ba \in Area(ni)
    BY <1>2 DEF Keeps, SparesIn
  <2>3. /\ ni.top_ba - 1 \in Area(ni) /\ pb \in Blocks /\ pb < ni.sig_ba /\ pb # Unmapped
    BY <1>2, <2>1, <2>2, GeometryAssumption DEF Area, Instance, Blocks, Unmapped
  <2>4. loc.lb \in LBlocks /\ ni.block_mapping \in Mapping
    BY <1>2 DEF Locals, Instance
  <2>5. [ni.block_mapping EXCEPT ![loc.lb] = pb] \in Mapping
    BY <2>3, <2>4 DEF Mapping
  <2>6. /\ ni' \in Instance /\ ni'.sig_ba = ni.sig_ba
        /\ ni'.block_mapping = [ni.block_mapping EXCEPT ![loc.lb] = pb]
        /\ ni'.main_ba = ni.main_ba /\ ni'.backup_ba = ni.backup_ba
        /\ ni'.map_ba = ni.map_ba /\ ni'.top_ba = ni.top_ba - 1
    <3>1. PICK bm \in Mapping : bm = [ni.block_mapping EXCEPT ![loc.lb] = pb]
      BY <2>5
    <3>2. ni' = [ni EXCEPT !.block_mapping = bm, !.top_ba = ni.top_ba - 1, !.dirty = TRUE]
      BY <1>6, <3>1
    <3>3. ni.top_ba - 1 \in Int
      BY <1>2 DEF Instance
    <3>4. ni' \in Instance
      BY <1>2, <3>2, <3>3 DEF Instance
    <3> QED BY <1>2, <3>1, <3>2, <3>4 DEF Instance
  <2>7. /\ loc' \in Locals /\ loc'.start = loc.start /\ loc'.rk = loc.rk
        /\ loc'.lb = loc.lb /\ loc'.uk = loc.uk /\ loc'.mk = loc.mk /\ loc.mk \in MapReturn
    BY <1>2, <1>6 DEF Locals
  <2>8. TypeOK'
    BY <1>0, <1>3, <1>6, <2>6, <2>7 DEF IndInv, TypeOK, MapReturn, Label
  <2>9. \A lb \in LBlocks : ni'.block_mapping[lb] # ni.sig_ba
    <3>1. \A lb \in LBlocks : ni.block_mapping[lb] # ni.sig_ba
      BY <1>2 DEF IndInv, SigInv
    <3>2. pb # ni.sig_ba
      BY <1>2, <2>3 DEF Instance, Blocks
    <3> QED BY <2>4, <2>6, <3>1, <3>2 DEF Mapping
  <2>10. ni'.block_mapping[loc'.lb] # Unmapped
    BY <2>3, <2>4, <2>6, <2>7 DEF Mapping
  <2>11. SigInv'
    BY <1>0, <1>2, <1>6, <2>6, <2>7, <2>9 DEF IndInv, SigInv, MapReturn
  <2>12. TableInv' /\ SearchInv' /\ FrameInv'
    BY <1>2, <1>6, <2>2, <2>3, <2>6, <2>7
       DEF Keeps, TableInv, SearchInv, FrameInv, TablesIn, SparesIn, Area, MapReturn, RangeUser, Starting
  <2>13. MappedInv' /\ ReturnInv'
    BY <1>0, <1>6, <2>7, <2>10 DEF IndInv, MappedInv, ReturnInv, MapReturn
  <2> QED BY <2>8, <2>11, <2>12, <2>13 DEF IndInv
<1> QED BY <1>2, <1>4, <1>5, <1>6 DEF nmbm_map_block

\* nmbm_map_block without a spare block.
LEMMA MapFailedStep == IndInv /\ MapFailed => IndInv'
<1> SUFFICES ASSUME IndInv, MapFailed PROVE IndInv'
  OBVIOUS
<1>0. /\ pc = "map_failed" /\ pc' = loc.mk /\ UNCHANGED <<cell, oob, w, expect, boots>>
      /\ ni' = [ni EXCEPT !.top_ba = ni.map_ba] /\ loc' = [loc EXCEPT !.ok = FALSE]
  BY DEF MapFailed, chip, hist
<1>1. pc \notin Starting
  BY <1>0 DEF Starting
<1>2. /\ ni \in Instance /\ w \in Frame /\ loc \in Locals
      /\ ni.sig_ba # 0 /\ Keeps(ni, loc)
  BY <1>1, Ready
<1>3. expect' \in [LBlocks -> Expected]
  BY <1>0 DEF IndInv, TypeOK
<1>4. /\ loc' \in Locals /\ loc'.start = loc.start /\ loc'.rk = loc.rk /\ ~loc'.ok
      /\ loc'.lb = loc.lb /\ loc'.uk = loc.uk /\ loc'.mk = loc.mk /\ loc.mk \in MapReturn
  BY <1>0, <1>2 DEF Locals
<1>5. Keeps(ni', loc') /\ ni'.block_mapping = ni.block_mapping
  BY <1>0, <1>2, <1>4 DEF Keeps, Instance, TablesIn, SparesIn, Area
<1>6. MappedInv' /\ ReturnInv'
  BY <1>0, <1>4, <1>5 DEF IndInv, MappedInv, ReturnInv, MapReturn
<1> QED BY <1>0, <1>2, <1>3, <1>4, <1>5, <1>6, JumpStep DEF MapReturn, Label, RangeUser, Starting

\* nmbm_create_new asks for the logic blocks the data area cannot hold.
LEMMA CreateMapStep == IndInv /\ CreateMap => IndInv'
<1> SUFFICES ASSUME IndInv, CreateMap PROVE IndInv'
  OBVIOUS
<1>0. pc = "create_map" /\ UNCHANGED <<cell, oob, ni, w, expect, boots>>
  BY DEF CreateMap, chip, hist
<1>1. pc \notin Starting
  BY <1>0 DEF Starting
<1>2. /\ ni \in Instance /\ w \in Frame /\ loc \in Locals
      /\ ni.sig_ba # 0 /\ Keeps(ni, loc)
  BY <1>1, Ready
<1>3. expect' \in [LBlocks -> Expected]
  BY <1>0 DEF IndInv, TypeOK
<1>4. loc.mk # "er_mapped" /\ loc.uk # "er_try"
  BY <1>0 DEF IndInv, ReturnInv
<1>5. CASE ni.data_count < MgmtStart
  <2>1. loc' = [loc EXCEPT !.lb = ni.data_count, !.mk = "create_mapped"] /\ pc' = "map"
    BY <1>2, <1>5, GeometryAssumption DEF CreateMap, Instance
  <2>2. ni.data_count \in LBlocks
    BY <1>2, <1>5, GeometryAssumption DEF Instance, LBlocks
  <2>3. /\ loc' \in Locals /\ loc'.start = loc.start /\ loc'.rk = loc.rk
        /\ loc'.uk = loc.uk /\ loc'.mk = "create_mapped"
    BY <1>2, <2>1, <2>2 DEF Locals, MapReturn
  <2>4. Keeps(ni', loc')
    BY <1>0, <1>2, <2>3 DEF Keeps
  <2>5. MappedInv' /\ ReturnInv'
    BY <1>0, <1>4, <2>1, <2>3 DEF IndInv, MappedInv, ReturnInv
  <2> QED BY <1>0, <1>2, <1>3, <2>1, <2>4, <2>5, JumpStep DEF Label, RangeUser, Starting
<1>6. CASE ni.data_count >= MgmtStart
  <2>1. loc' = [loc EXCEPT !.uk = "create_done"] /\ pc' = "update"
    BY <1>2, <1>6, GeometryAssumption DEF CreateMap, Instance
  <2>3. /\ loc' \in Locals /\ loc'.start = loc.start /\ loc'.rk = loc.rk
        /\ loc'.uk = "create_done" /\ loc'.mk = loc.mk
    BY <1>2, <2>1 DEF Locals, UpdateReturn
  <2>4. Keeps(ni', loc')
    BY <1>0, <1>2, <2>3 DEF Keeps
  <2>5. MappedInv' /\ ReturnInv'
    BY <1>0, <1>4, <2>1, <2>3 DEF IndInv, MappedInv, ReturnInv
  <2> QED BY <1>0, <1>2, <1>3, <2>1, <2>4, <2>5, JumpStep DEF Label, RangeUser, Starting
<1> QED BY <1>5, <1>6 DEF CreateMap

\* ... and counts the ones it got.
LEMMA CreateMappedStep == IndInv /\ CreateMapped => IndInv'
<1> SUFFICES ASSUME IndInv, CreateMapped PROVE IndInv'
  OBVIOUS
<1>0. pc = "create_mapped" /\ UNCHANGED <<cell, oob, w, expect, boots>>
  BY DEF CreateMapped, chip, hist
<1>1. pc \notin Starting
  BY <1>0 DEF Starting
<1>2. /\ ni \in Instance /\ w \in Frame /\ loc \in Locals
      /\ ni.sig_ba # 0 /\ Keeps(ni, loc)
  BY <1>1, Ready
<1>3. expect' \in [LBlocks -> Expected]
  BY <1>0 DEF IndInv, TypeOK
<1>4. loc.mk # "er_mapped" /\ loc.uk # "er_try"
  BY <1>0 DEF IndInv, ReturnInv
<1>5. CASE loc.ok
  <2>1. ni' = [ni EXCEPT !.data_count = ni.data_count + 1] /\ pc' = "create_map" /\ loc' = loc
    BY <1>2, <1>5 DEF CreateMapped, Instance
  <2>2. Keeps(ni', loc')
    BY <1>2, <2>1 DEF Keeps, Instance, TablesIn, SparesIn, Area
  <2>3. MappedInv' /\ ReturnInv'
    BY <1>0, <1>4, <2>1 DEF IndInv, MappedInv, ReturnInv
  <2> QED BY <1>0, <1>2, <1>3, <2>1, <2>2, <2>3, JumpStep DEF Label, RangeUser, Starting
<1>6. CASE ~loc.ok
  <2>1. loc' = [loc EXCEPT !.uk = "create_done"] /\ pc' = "update" /\ ni' = ni
    BY <1>6 DEF CreateMapped
  <2>2. /\ loc' \in Locals /\ loc'.start = loc.start /\ loc'.rk = loc.rk
        /\ loc'.uk = "create_done" /\ loc'.mk = loc.mk
    BY <1>2, <2>1 DEF Locals, UpdateReturn
  <2>3. Keeps(ni', loc')
    BY <1>2, <2>1, <2>2 DEF Keeps
  <2>4. MappedInv' /\ ReturnInv'
    BY <1>0, <1>4, <2>1, <2>2 DEF IndInv, MappedInv, ReturnInv
  <2> QED BY <1>0, <1>2, <1>3, <2>1, <2>3, <2>4, JumpStep DEF Label, RangeUser, Starting
<1> QED BY <1>5, <1>6

\* The end of nmbm_create_new.
LEMMA CreateDoneStep == IndInv /\ CreateDone => IndInv'
<1> SUFFICES ASSUME IndInv, CreateDone PROVE IndInv'
  OBVIOUS
<1>0. pc = "create_done" /\ UNCHANGED <<cell, oob, expect, boots>>
  BY DEF CreateDone, chip, hist
<1>1. pc \notin Starting
  BY <1>0 DEF Starting
<1>2. /\ ni \in Instance /\ w \in Frame /\ loc \in Locals
      /\ ni.sig_ba # 0 /\ Keeps(ni, loc)
  BY <1>1, Ready
<1>3. expect' \in [LBlocks -> Expected] /\ boots' \in Nat /\ cell' \in [Blocks -> Content] /\ oob' \subseteq Blocks
  BY <1>0 DEF IndInv, TypeOK
<1>4. CASE loc.ok
  <2>1. pc' = "done" /\ UNCHANGED <<ni, w, loc>>
    BY <1>4 DEF CreateDone
  <2> QED BY <1>0, <1>2, <1>3, <2>1, ReturnPlain, JumpStep
<1>5. CASE ~loc.ok
  <2>1. PowerOff
    BY <1>5 DEF CreateDone
  <2>2. \A b \in Blocks : cell'[b] = Signature => MgmtStart < b
    BY <1>0 DEF IndInv, SigInv
  <2> QED BY <1>3, <2>1, <2>2, PowerOffStep
<1> QED BY <1>4, <1>5

\* nmbm_update_single_info_table after its write.
LEMMA UpdateSingleStep == IndInv /\ UpdateSingle => IndInv'
<1> SUFFICES ASSUME IndInv, UpdateSingle PROVE IndInv'
  OBVIOUS
<1>0. pc \in {"us_main", "us_backup"} /\ UNCHANGED <<cell, oob, loc, expect, boots>>
  BY DEF UpdateSingle, chip, hist
<1>1. pc \in RangeUser /\ pc \notin Starting
  BY <1>0 DEF RangeUser, Starting
<1>2. /\ ni \in Instance /\ w \in Frame /\ loc \in Locals
      /\ ni.sig_ba # 0 /\ Keeps(ni, loc)
  BY <1>1, Ready
<1>3. expect' \in [LBlocks -> Expected]
  BY <1>0 DEF IndInv, TypeOK
<1>4. CASE pc = "us_main" /\ Written
  <2>1. /\ ni' = [ni EXCEPT !.main_ba = w.start, !.dirty = FALSE]
        /\ pc' = "load_ok" /\ w' = w
    BY <1>2, <1>4 DEF UpdateSingle, nmbm_mark_tables_clean, TableStart, Instance
  <2>2. w.start \in Area(ni)
    BY <1>1, <1>4, WrittenRange
  <2>3. Keeps(ni', loc') /\ ni'.block_mapping = ni.block_mapping
    BY <1>0, <1>2, <2>1, <2>2, AreaNat DEF Keeps, Instance, TablesIn, SparesIn, Area
  <2> QED BY <1>0, <1>2, <1>3, <2>1, <2>3, ReturnPlain, JumpStep
<1>5. CASE pc = "us_main" /\ ~Written
  <2>1. ni' = BackupBecomesMain(ni) /\ CallWrite(MgmtStart, ni.backup_ba, "rs_front")
    BY <1>5 DEF UpdateSingle
  <2>2. Keeps(ni', loc')
    BY <1>0, <1>2, <2>1 DEF Keeps, BackupBecomesMain, Instance, TablesIn, SparesIn, Area
  <2>3. /\ ni.backup_ba \in Int /\ ni.backup_ba < ni.sig_ba
    BY <1>2, GeometryAssumption DEF Keeps, TablesIn, Area, Instance, Blocks
  <2>4. /\ w' \in Frame /\ w'.i = 1 /\ MgmtStart <= w'.ba /\ w'.limit < ni.sig_ba
        /\ w'.k = "rs_front" /\ pc' = "write"
    BY <2>1, <2>3, NewFrame, GeometryAssumption DEF CallWrite, RangeReturn
  <2>5. loc'.rk = "create_map" => loc.mk # "er_mapped"
    BY <1>0 DEF IndInv, ReturnInv
  <2> QED BY <1>0, <1>2, <2>2, <2>4, <2>5, CallStep
<1>6. CASE pc = "us_backup" /\ Written
  <2>1. /\ ni' = [ni EXCEPT !.backup_ba = w.start, !.map_ba = w.ba, !.dirty = FALSE]
        /\ pc' = "load_ok" /\ w' = w
    BY <1>2, <1>6 DEF UpdateSingle, nmbm_mark_tables_clean, TableStart, TableEnd, Instance
  <2>2. w.start \in Area(ni) /\ w.ba \in Area(ni)
    BY <1>1, <1>6, WrittenRange
  <2>3. Keeps(ni', loc') /\ ni'.block_mapping = ni.block_mapping
    BY <1>0, <1>2, <2>1, <2>2, AreaNat DEF Keeps, Instance, TablesIn, SparesIn, Area
  <2> QED BY <1>0, <1>2, <1>3, <2>1, <2>3, ReturnPlain, JumpStep
<1>7. CASE pc = "us_backup" /\ ~Written
  <2>1. /\ ni' = [ni EXCEPT !.map_ba = ni.backup_ba, !.backup_ba = 0]
        /\ pc' = "load_failed" /\ w' = w
    BY <1>7 DEF UpdateSingle
  <2>2. ni.backup_ba \in Area(ni)
    BY <1>1, <1>2, <1>7 DEF IndInv, FrameInv, Keeps, TablesIn
  <2>3. Keeps(ni', loc') /\ ni'.block_mapping = ni.block_mapping
    BY <1>0, <1>2, <2>1, <2>2, AreaNat DEF Keeps, Instance, TablesIn, SparesIn, Area
  <2> QED BY <1>0, <1>2, <1>3, <2>1, <2>3, ReturnPlain, JumpStep
<1> QED BY <1>4, <1>5, <1>6, <1>7 DEF UpdateSingle

\* nmbm_rescue_single_info_table in front of the only table.
LEMMA RescueFrontStep == IndInv /\ RescueFront => IndInv'
<1> SUFFICES ASSUME IndInv, RescueFront PROVE IndInv'
  OBVIOUS
<1>0. pc = "rs_front" /\ UNCHANGED <<cell, oob, expect, boots>>
  BY DEF RescueFront, chip, hist
<1>1. pc \in RangeUser /\ pc \notin Starting
  BY <1>0 DEF RangeUser, Starting
<1>2. /\ ni \in Instance /\ w \in Frame /\ loc \in Locals
      /\ ni.sig_ba # 0 /\ Keeps(ni, loc)
  BY <1>1, Ready
<1>3. loc.rk = "create_map" => loc.mk # "er_mapped"
  BY DEF IndInv, ReturnInv
<1>4. CASE Written
  <2>1. /\ ni' = [ni EXCEPT !.backup_ba = ni.main_ba, !.main_ba = w.start, !.dirty = FALSE]
        /\ CallErase(w.ba, ni.main_ba, "load_ok") /\ loc' = loc
    BY <1>2, <1>4 DEF RescueFront, nmbm_mark_tables_clean, TableStart, TableEnd, Instance
  <2>2. w.start \in Area(ni) /\ w.ba \in Area(ni)
    BY <1>1, <1>4, WrittenRange
  <2>3. Keeps(ni', loc')
    BY <1>2, <2>1, <2>2, AreaNat DEF Keeps, Instance, TablesIn, SparesIn, Area
  <2>4. ni.main_ba \in Int /\ ni.main_ba < ni.sig_ba
    BY <1>2, GeometryAssumption DEF Keeps, TablesIn, Area, Instance, Blocks
  <2>5. /\ w' \in Frame /\ w'.i = 1 /\ MgmtStart <= w'.ba /\ w'.limit < ni.sig_ba
        /\ w'.k = "load_ok" /\ pc' = "erase"
    BY <1>2, <2>1, <2>2, <2>4, AreaNat, NewFrame DEF CallErase, RangeReturn
  <2> QED BY <1>0, <1>2, <1>3, <2>1, <2>3, <2>5, CallStep
<1>5. ASSUME pc' = "load_failed", UNCHANGED <<ni, w, loc>>
      PROVE  IndInv'
  <2>1. expect' \in [LBlocks -> Expected]
    BY <1>0 DEF IndInv, TypeOK
  <2> QED BY <1>0, <1>2, <1>5, <2>1, ReturnPlain, JumpStep
<1>6. ASSUME NEW write_ba \in Reserve(ni, ni.map_ba), CallWrite(write_ba, ni.top_ba, "rs_next"),
             loc' = [loc EXCEPT !.ba = write_ba], ni' = ni
      PROVE  IndInv'
  <2>1. ni.map_ba \in Area(ni) /\ ni.top_ba \in Area(ni)
    BY <1>2 DEF Keeps, SparesIn
  <2>2. write_ba \in Nat /\ MgmtStart <= write_ba
    <3>1. write_ba \in ni.map_ba .. ni.top_ba - TableBlocks - 1
      BY WalkRange DEF Reserve
    <3> QED BY <1>2, <2>1, <3>1, AreaNat, GeometryAssumption
  <2>3. /\ w' \in Frame /\ w'.i = 1 /\ MgmtStart <= w'.ba /\ w'.limit < ni.sig_ba
        /\ w'.k = "rs_next" /\ pc' = "write"
    BY <1>2, <1>6, <2>1, <2>2, AreaNat, NewFrame DEF CallWrite, RangeReturn
  <2>4. /\ loc'.lb = loc.lb /\ loc'.uk = loc.uk /\ loc'.mk = loc.mk /\ loc'.rk = loc.rk
        /\ loc'.start = loc.start /\ loc' \in Locals
    BY <1>2, <1>6, <2>2 DEF Locals
  <2>5. Keeps(ni', loc')
    BY <1>2, <1>6, <2>4 DEF Keeps
  <2> QED BY <1>0, <1>2, <1>3, <2>3, <2>4, <2>5, CallStep
<1> QED BY <1>4, <1>5, <1>6 DEF RescueFront

\* nmbm_rescue_single_info_table behind the only table.
LEMMA RescueNextStep == IndInv /\ RescueNext => IndInv'
<1> SUFFICES ASSUME IndInv, RescueNext PROVE IndInv'
  OBVIOUS
<1>0. pc \in {"rs_next", "rs_erased"} /\ UNCHANGED <<cell, oob, expect, boots>>
  BY DEF RescueNext, chip, hist
<1>1. pc \in RangeUser /\ pc \notin Starting
  BY <1>0 DEF RangeUser, Starting
<1>2. /\ ni \in Instance /\ w \in Frame /\ loc \in Locals
      /\ ni.sig_ba # 0 /\ Keeps(ni, loc)
  BY <1>1, Ready
<1>3. loc.rk = "create_map" => loc.mk # "er_mapped"
  BY DEF IndInv, ReturnInv
<1>4. ni.map_ba \in Area(ni) /\ ni.top_ba \in Area(ni)
  BY <1>2 DEF Keeps, SparesIn
<1>5. expect' \in [LBlocks -> Expected]
  BY <1>0 DEF IndInv, TypeOK
<1>6. CASE pc = "rs_next" /\ Written
  <2>1. /\ loc' = [loc EXCEPT !.start = w.start, !.end = w.ba] /\ ni' = ni
        /\ CallErase(ni.map_ba, w.start, "rs_erased")
    BY <1>6 DEF RescueNext, TableStart, TableEnd
  <2>2. w.start \in Area(ni) /\ w.ba \in Area(ni)
    BY <1>1, <1>6, WrittenRange
  <2>3. /\ loc'.lb = loc.lb /\ loc'.uk = loc.uk /\ loc'.mk = loc.mk /\ loc'.rk = loc.rk
        /\ loc'.start = w.start /\ loc'.end = w.ba /\ loc' \in Locals
    BY <1>2, <2>1, <2>2, AreaNat DEF Locals
  <2>4. Keeps(ni', loc') /\ loc'.end \in Area(ni')
    BY <1>2, <2>1, <2>2, <2>3 DEF Keeps
  <2>5. /\ w' \in Frame /\ w'.i = 1 /\ MgmtStart <= w'.ba /\ w'.limit < ni.sig_ba
        /\ w'.k = "rs_erased" /\ pc' = "erase"
    BY <1>2, <1>4, <2>1, <2>2, AreaNat, NewFrame DEF CallErase, RangeReturn
  <2> QED BY <1>0, <1>2, <1>3, <2>3, <2>4, <2>5, CallStep
<1>7. CASE pc = "rs_next" /\ ~Written /\ loc.ba > ni.map_ba
  <2>1. /\ ni' = ni /\ loc' = [loc EXCEPT !.ba = loc.ba - 1]
        /\ CallWrite(loc.ba - 1, ni.top_ba, "rs_next")
    BY <1>2, <1>7 DEF RescueNext, Locals, Instance
  <2>2. loc.ba - 1 \in Nat /\ MgmtStart <= loc.ba - 1
    BY <1>2, <1>4, <1>7, AreaNat, GeometryAssumption DEF Locals
  <2>3. /\ loc'.lb = loc.lb /\ loc'.uk = loc.uk /\ loc'.mk = loc.mk /\ loc'.rk = loc.rk
        /\ loc'.start = loc.start /\ loc' \in Locals
    BY <1>2, <2>1, <2>2 DEF Locals
  <2>4. Keeps(ni', loc')
    BY <1>2, <2>1, <2>3 DEF Keeps
  <2>5. /\ w' \in Frame /\ w'.i = 1 /\ MgmtStart <= w'.ba /\ w'.limit < ni.sig_ba
        /\ w'.k = "rs_next" /\ pc' = "write"
    BY <1>2, <1>4, <2>1, <2>2, AreaNat, NewFrame DEF CallWrite, RangeReturn
  <2> QED BY <1>0, <1>2, <1>3, <2>3, <2>4, <2>5, CallStep
<1>8. CASE pc = "rs_next" /\ ~Written /\ loc.ba <= ni.map_ba
  <2>1. pc' = "load_failed" /\ UNCHANGED <<ni, w, loc>>
    BY <1>2, <1>8 DEF RescueNext, Locals, Instance
  <2> QED BY <1>0, <1>2, <1>5, <2>1, ReturnPlain, JumpStep
<1>9. CASE pc = "rs_erased"
  <2>1. /\ ni' = [ni EXCEPT !.backup_ba = loc.start, !.map_ba = loc.end, !.dirty = FALSE]
        /\ pc' = "load_ok" /\ UNCHANGED <<w, loc>>
    BY <1>2, <1>9 DEF RescueNext, nmbm_mark_tables_clean, Instance
  <2>2. loc.end \in Area(ni)
    BY <1>1, <1>9 DEF IndInv, FrameInv
  <2>3. Keeps(ni', loc') /\ ni'.block_mapping = ni.block_mapping
    BY <1>2, <2>1, <2>2, AreaNat DEF Keeps, Instance, Locals, TablesIn, SparesIn, Area
  <2> QED BY <1>0, <1>2, <1>5, <2>1, <2>3, ReturnPlain, JumpStep
<1> QED BY <1>6, <1>7, <1>8, <1>9 DEF RescueNext

\* The end of nmbm_load_info_table.
LEMMA LoadDoneStep == IndInv /\ LoadDone => IndInv'
<1> SUFFICES ASSUME IndInv, LoadDone PROVE IndInv'
  OBVIOUS
<1>0. /\ pc \in {"load_ok", "load_failed"} /\ pc' = "done"
      /\ UNCHANGED <<cell, oob, w, loc, expect, boots>>
      /\ ni' = [ni EXCEPT !.protected = @ \/ ni.map_ba = ni.top_ba \/ pc = "load_failed"]
  BY DEF LoadDone, chip, hist
<1>1. pc \notin Starting
  BY <1>0 DEF Starting
<1>2. /\ ni \in Instance /\ w \in Frame /\ loc \in Locals
      /\ ni.sig_ba # 0 /\ Keeps(ni, loc)
  BY <1>1, Ready
<1>3. PICK p \in BOOLEAN : ni' = [ni EXCEPT !.protected = p]
  BY <1>0, <1>2 DEF Instance
<1>4. Keeps(ni', loc') /\ ni'.block_mapping = ni.block_mapping
  BY <1>0, <1>2, <1>3 DEF Keeps, Instance, TablesIn, SparesIn, Area
<1>5. expect' \in [LBlocks -> Expected]
  BY <1>0 DEF IndInv, TypeOK
<1> QED BY <1>0, <1>2, <1>4, <1>5, ReturnPlain, JumpStep

\* A failed erase or program touches its own block only.
LEMMA FailBlockEffect ==
  ASSUME TypeOK, NEW b \in Blocks, NEW junk \in SUBSET Content, FailBlock(b, junk)
  PROVE  /\ cell' \in [Blocks -> Content] /\ oob' \subseteq Blocks
         /\ \A c \in Blocks : c # b => cell'[c] = cell[c]
         /\ cell'[b] \in {cell[b], Torn} \cup junk
<1>1. cell \in [Blocks -> Content] /\ oob \subseteq Blocks /\ Torn \in Content
  BY ContentValues DEF TypeOK
<1>2. CASE cell' = [cell EXCEPT ![b] = Torn] /\ oob' = oob \cup {b}
  BY <1>1, <1>2
<1>3. CASE cell' \in {cell} \cup {[cell EXCEPT ![b] = c] : c \in junk} /\ UNCHANGED oob
  <2>1. CASE cell' = cell
    BY <1>1, <1>3, <2>1
  <2>2. ASSUME NEW c \in junk, cell' = [cell EXCEPT ![b] = c]
        PROVE  /\ cell' \in [Blocks -> Content]
               /\ \A d \in Blocks : d # b => cell'[d] = cell[d]
               /\ cell'[b] = c
    BY <1>1, <2>2
  <2> QED BY <1>1, <1>3, <2>1, <2>2
<1> QED BY <1>2, <1>3 DEF FailBlock

\* A step of a loop over management blocks preserves the invariant if it
\* stays in its range.
LEMMA LoopStep ==
  ASSUME IndInv, pc \in {"write", "program", "erase"}, pc' \in {"write", "program", "erase"},
         UNCHANGED <<loc, expect, boots>>, cell' \in [Blocks -> Content], oob' \subseteq Blocks,
         \A b \in Blocks : cell'[b] = Signature => cell[b] = Signature,
         Keeps(ni', loc), ni'.backup_ba = ni.backup_ba,
         w' \in Frame, MgmtStart <= w'.ba, w'.limit = w.limit, w'.k = w.k,
         w'.i > 1 => w'.start \in Area(ni) /\ w'.ba <= w'.limit,
         pc' = "program" => w'.ba < w'.limit /\ w'.i <= TableBlocks
  PROVE  IndInv'
<1>1. TypeOK'
  BY DEF IndInv, TypeOK, Label, Keeps
<1>2. SigInv'
  BY DEF IndInv, SigInv, Keeps
<1>3. TableInv' /\ SearchInv'
  BY DEF TableInv, SearchInv, Keeps
<1>4. FrameInv'
  BY DEF IndInv, FrameInv, Keeps, RangeUser, Area
<1>5. MappedInv' /\ ReturnInv'
  BY DEF IndInv, MappedInv, ReturnInv, Keeps
<1> QED BY <1>1, <1>2, <1>3, <1>4, <1>5 DEF IndInv

\* What the frame says inside the loops.
LEMMA InLoop ==
  ASSUME IndInv, pc \in {"write", "program", "erase"}
  PROVE  /\ ni \in Instance /\ w \in Frame /\ ni.sig_ba # 0 /\ Keeps(ni, loc)
         /\ MgmtStart <= w.ba /\ w.limit < ni.sig_ba
         /\ w.ba < w.limit => w.ba \in Blocks /\ w.ba # ni.sig_ba
         /\ w.i > 1 => w.start \in Area(ni) /\ w.ba <= w.limit
<1>1. pc \in RangeUser /\ pc \notin Starting
  BY DEF RangeUser, Starting
<1>2. ni \in Instance /\ w \in Frame /\ ni.sig_ba # 0 /\ Keeps(ni, loc)
  BY <1>1, Ready
<1>3. /\ MgmtStart <= w.ba /\ w.limit < ni.sig_ba
      /\ w.i > 1 => w.start \in Area(ni) /\ w.ba <= w.limit
  BY <1>1 DEF IndInv, FrameInv
<1>4. w.ba < w.limit => w.ba \in Blocks /\ w.ba # ni.sig_ba
  BY <1>2, <1>3, GeometryAssumption DEF Frame, Instance, Blocks
<1> QED BY <1>2, <1>3, <1>4

\* Moving on to the next block of the range.
LEMMA NextBlockStep ==
  ASSUME IndInv, pc \in {"write", "program", "erase"}, pc' \in {"write", "erase"},
         UNCHANGED <<loc, expect, boots>>, cell' \in [Blocks -> Content], oob' \subseteq Blocks,
         \A b \in Blocks : cell'[b] = Signature => cell[b] = Signature,
         w.ba < w.limit, NextBlock,
         ni' \in {ni, nmbm_set_block_state(ni, {w.ba}, BLOCK_ST_BAD)}
  PROVE  IndInv'
<1>1. /\ ni \in Instance /\ w \in Frame /\ Keeps(ni, loc) /\ MgmtStart <= w.ba
      /\ w.i > 1 => w.start \in Area(ni) /\ w.ba <= w.limit
  BY InLoop
<1>2. w' = [w EXCEPT !.ba = w.ba + 1]
  BY <1>1 DEF NextBlock, Frame
<1>3. /\ w' \in Frame /\ w'.ba = w.ba + 1 /\ w'.limit = w.limit /\ w'.k = w.k
      /\ w'.i = w.i /\ w'.start = w.start
  BY <1>1, <1>2 DEF Frame
<1>4. MgmtStart <= w'.ba /\ w'.ba <= w'.limit
  BY <1>1, <1>3, GeometryAssumption DEF Frame
<1>5. BLOCK_ST_BAD \in BlockState
  BY DEF BlockState
<1>6. Keeps(ni', loc) /\ ni'.backup_ba = ni.backup_ba
  BY <1>1, <1>5, SetBlockState DEF Keeps, TablesIn, SparesIn, Area
<1> QED BY <1>1, <1>3, <1>4, <1>6, LoopStep

\* Skipping a bad block preserves the invariant.
LEMMA SkipBlockStep ==
  ASSUME IndInv, pc \in {"write", "erase"}, w.ba < w.limit, SkipBlock,
         UNCHANGED <<loc, expect, boots>>
  PROVE  IndInv'
<1>1. /\ NextBlock /\ UNCHANGED <<cell, oob, pc>>
      /\ ni' \in {ni, nmbm_set_block_state(ni, {w.ba}, BLOCK_ST_BAD)}
  BY DEF SkipBlock
<1>2. cell \in [Blocks -> Content] /\ oob \subseteq Blocks
  BY DEF IndInv, TypeOK
<1> QED BY <1>1, <1>2, NextBlockStep

\* A block of the range that fails is marked and left behind.
LEMMA EraseFailsStep ==
  ASSUME IndInv, pc \in {"write", "program", "erase"}, pc' \in {"write", "erase"},
         w.ba < w.limit, EraseFails, UNCHANGED <<loc, expect, boots>>
  PROVE  IndInv'
<1>1. /\ FailBlock(w.ba, {Torn}) /\ NextBlock
      /\ ni' = nmbm_set_block_state(ni, {w.ba}, BLOCK_ST_BAD)
  BY DEF EraseFails
<1>2. w.ba \in Blocks /\ TypeOK
  BY InLoop DEF IndInv
<1>3. Torn # Signature /\ {Torn} \in SUBSET Content
  BY ContentValues
<1>4. /\ cell' \in [Blocks -> Content] /\ oob' \subseteq Blocks
      /\ \A c \in Blocks : c # w.ba => cell'[c] = cell[c]
      /\ cell'[w.ba] \in {cell[w.ba], Torn}
  BY <1>1, <1>2, <1>3, FailBlockEffect
<1>5. \A b \in Blocks : cell'[b] = Signature => cell[b] = Signature
  BY <1>3, <1>4
<1> QED BY <1>1, <1>4, <1>5, NextBlockStep

\* nmbm_write_mgmt_range erases a block of its range.
LEMMA WriteEraseStep == IndInv /\ WriteErase => IndInv'
<1> SUFFICES ASSUME IndInv, WriteErase PROVE IndInv'
  OBVIOUS
<1>0. pc = "write" /\ UNCHANGED <<loc, expect, boots>>
  BY DEF WriteErase, hist
<1>1. /\ ni \in Instance /\ w \in Frame /\ Keeps(ni, loc) /\ MgmtStart <= w.ba
      /\ w.i > 1 => w.start \in Area(ni) /\ w.ba <= w.limit
  BY <1>0, InLoop
<1>2. w.ba < w.limit /\ w.i <= TableBlocks
  BY <1>1, GeometryAssumption DEF WriteErase, WriteReturns, Written, Frame
<1>3. CASE SkipBlock
  BY <1>0, <1>2, <1>3, SkipBlockStep
<1>4. CASE cell' = [cell EXCEPT ![w.ba] = Blank] /\ pc' = "program" /\ UNCHANGED <<oob, ni, w>>
  <2>1. cell \in [Blocks -> Content] /\ oob \subseteq Blocks
    BY DEF IndInv, TypeOK
  <2>2. /\ cell' \in [Blocks -> Content]
        /\ \A b \in Blocks : cell'[b] = Signature => cell[b] = Signature
    BY <1>4, <2>1, ContentValues
  <2> QED BY <1>0, <1>1, <1>2, <1>4, <2>1, <2>2, LoopStep
<1>5. CASE EraseFails /\ pc' = pc
  BY <1>0, <1>2, <1>5, EraseFailsStep
<1> QED BY <1>3, <1>4, <1>5 DEF WriteErase

\* nmbm_write_mgmt_range programs the block it erased.
LEMMA WriteProgramStep == IndInv /\ WriteProgram => IndInv'
<1> SUFFICES ASSUME IndInv, WriteProgram PROVE IndInv'
  OBVIOUS
<1>0. pc = "program" /\ pc' = "write" /\ UNCHANGED <<loc, expect, boots>>
  BY DEF WriteProgram, hist
<1>1. /\ ni \in Instance /\ w \in Frame /\ Keeps(ni, loc) /\ MgmtStart <= w.ba
      /\ w.limit < ni.sig_ba
      /\ w.i > 1 => w.start \in Area(ni) /\ w.ba <= w.limit
  BY <1>0, InLoop
<1>2. w.ba < w.limit /\ w.i <= TableBlocks
  BY <1>0 DEF IndInv, FrameInv, RangeUser
<1>3. ASSUME cell' = [cell EXCEPT ![w.ba] = Chunk(w.i, ni.cache)],
             w' = [w EXCEPT !.start = IF w.i = 1 THEN w.ba ELSE @,
                            !.i = @ + 1, !.ba = @ + 1],
             UNCHANGED <<oob, ni>>
      PROVE  IndInv'
  <2>1. cell \in [Blocks -> Content] /\ oob \subseteq Blocks
    BY DEF IndInv, TypeOK
  <2>2. Chunk(w.i, ni.cache) \in Content /\ Chunk(w.i, ni.cache) # Signature
    <3>1. w.i \in 1 .. TableBlocks /\ ni.cache \in InfoTable
      BY <1>1, <1>2, GeometryAssumption DEF Frame, Instance
    <3> QED BY <3>1, ContentValues
  <2>3. /\ cell' \in [Blocks -> Content]
        /\ \A b \in Blocks : cell'[b] = Signature => cell[b] = Signature
    BY <1>3, <2>1, <2>2
  <2>4. /\ w' \in Frame /\ w'.ba = w.ba + 1 /\ w'.limit = w.limit /\ w'.k = w.k
        /\ w'.start = IF w.i = 1 THEN w.ba ELSE w.start
    <3>1. PICK s \in Nat : s = IF w.i = 1 THEN w.ba ELSE w.start
      BY <1>1 DEF Frame
    <3>2. w' = [w EXCEPT !.start = s, !.i = w.i + 1, !.ba = w.ba + 1]
      BY <1>1, <1>3, <3>1 DEF Frame
    <3>3. w.i + 1 \in Nat \ {0} /\ w.ba + 1 \in Nat
      BY <1>1 DEF Frame
    <3> QED BY <1>1, <3>1, <3>2, <3>3 DEF Frame
  <2>5. MgmtStart <= w'.ba /\ w'.ba <= w'.limit
    BY <1>1, <1>2, <2>4, GeometryAssumption DEF Frame
  <2>6. w.ba \in Area(ni)
    BY <1>1, <1>2, GeometryAssumption DEF Frame, Area, Instance, Blocks
  <2>7. w'.start \in Area(ni)
    <3>1. w.i = 1 \/ w.i > 1
      BY <1>1 DEF Frame
    <3> QED BY <1>1, <2>4, <2>6, <3>1
  <2> QED BY <1>0, <1>1, <1>3, <2>1, <2>3, <2>4, <2>5, <2>7, LoopStep
<1>4. CASE EraseFails
  BY <1>0, <1>2, <1>4, EraseFailsStep
<1> QED BY <1>3, <1>4 DEF WriteProgram

\* nmbm_erase_range stays in its range.
LEMMA EraseRangeStep == IndInv /\ nmbm_erase_range => IndInv'
<1> SUFFICES ASSUME IndInv, nmbm_erase_range PROVE IndInv'
  OBVIOUS
<1>0. pc = "erase" /\ UNCHANGED <<loc, expect, boots>>
  BY DEF nmbm_erase_range, hist
<1>1. CASE w.ba >= w.limit /\ pc' = w.k /\ UNCHANGED <<cell, oob, ni, w>>
  <2>1. w.k \in RangeReturn
    BY DEF IndInv, TypeOK, Frame
  <2>2. TypeOK'
    BY <1>0, <1>1, <2>1 DEF IndInv, TypeOK, RangeReturn, Label
  <2>3. SigInv' /\ TableInv' /\ SearchInv'
    BY <1>0, <1>1, <2>1 DEF IndInv, SigInv, TableInv, SearchInv, RangeReturn, Starting
  <2>4. FrameInv'
    BY <1>0, <1>1, <2>1 DEF IndInv, FrameInv, RangeUser, RangeReturn
  <2>5. MappedInv' /\ ReturnInv'
    BY <1>0, <1>1, <2>1 DEF IndInv, MappedInv, ReturnInv, RangeReturn
  <2> QED BY <2>2, <2>3, <2>4, <2>5 DEF IndInv
<1>2. CASE w.ba < w.limit /\ SkipBlock
  BY <1>0, <1>2, SkipBlockStep
<1>3. CASE /\ w.ba < w.limit /\ cell' = [cell EXCEPT ![w.ba] = Blank] /\ NextBlock
           /\ UNCHANGED <<oob, ni, pc>>
  <2>1. cell \in [Blocks -> Content] /\ oob \subseteq Blocks
    BY DEF IndInv, TypeOK
  <2>2. /\ cell' \in [Blocks -> Content]
        /\ \A b \in Blocks : cell'[b] = Signature => cell[b] = Signature
    BY <1>3, <2>1, ContentValues
  <2> QED BY <1>0, <1>3, <2>1, <2>2, NextBlockStep
<1>4. CASE w.ba < w.limit /\ EraseFails /\ pc' = pc
  BY <1>0, <1>4, EraseFailsStep
<1> QED BY <1>1, <1>2, <1>3, <1>4 DEF nmbm_erase_range

\* As JumpStep, for a step that also changes blocks of the chip or the mapping.
LEMMA ChipStep ==
  ASSUME IndInv, ni.sig_ba # 0, w' = w, boots' = boots,
         cell' \in [Blocks -> Content], oob' \subseteq Blocks,
         \A b \in Blocks : cell'[b] = Signature => cell[b] = Signature,
         expect' \in [LBlocks -> Expected],
         ni' \in Instance, loc' \in Locals, ni'.sig_ba = ni.sig_ba,
         \A lb \in LBlocks : ni'.block_mapping[lb] # ni.sig_ba,
         TablesIn(ni'), SparesIn(ni'), loc'.start \in Area(ni') \cup {0},
         pc' \in Label, pc' \notin RangeUser, pc' \notin Starting, pc' # "idle",
         MappedInv', ReturnInv'
  PROVE  IndInv'
<1>1. TypeOK'
  BY DEF IndInv, TypeOK
<1>2. SigInv'
  BY DEF IndInv, SigInv, Starting
<1>3. TableInv' /\ SearchInv'
  BY DEF TableInv, SearchInv, Starting
<1>4. FrameInv'
  BY DEF FrameInv
<1> QED BY <1>1, <1>2, <1>3, <1>4 DEF IndInv

\* Between operations nothing is under way.
LEMMA AtIdle ==
  ASSUME IndInv, pc = "idle"
  PROVE  /\ ni \in Instance /\ w \in Frame /\ ni.sig_ba # 0 /\ Keeps(ni, loc)
         /\ loc = L0 /\ w = W0 /\ loc \in Locals
         /\ loc.uk = "off" /\ loc.mk = "off" /\ loc.rk = "off" /\ w.k = "off" /\ loc.start = 0
<1>1. pc \notin Starting
  BY DEF Starting
<1>2. loc = L0 /\ w = W0
  BY DEF IndInv, ReturnInv
<1> QED BY <1>1, <1>2, Ready DEF L0, W0

\* A logic block reported unusable.
LEMMA BadDoneStep == IndInv /\ BadDone => IndInv'
<1> SUFFICES ASSUME IndInv, BadDone PROVE IndInv'
  OBVIOUS
<1>0. /\ pc = "bad_done" /\ pc' = "done" /\ UNCHANGED <<cell, oob, ni, w, loc, boots>>
      /\ expect' = [expect EXCEPT ![loc.lb] = "bad"]
  BY DEF BadDone, chip
<1>1. pc \notin Starting
  BY <1>0 DEF Starting
<1>2. expect' \in [LBlocks -> Expected]
  BY <1>0 DEF IndInv, TypeOK, Expected
<1> QED BY <1>0, <1>1, <1>2, Ready, ReturnPlain, JumpStep

\* The end of an operation.
LEMMA OperationDoneStep == IndInv /\ OperationDone => IndInv'
<1> SUFFICES ASSUME IndInv, OperationDone PROVE IndInv'
  OBVIOUS
<1>0. /\ pc = "done" /\ pc' = "idle" /\ w' = W0 /\ loc' = L0
      /\ UNCHANGED <<cell, oob, ni, expect, boots>>
  BY DEF OperationDone, chip, hist
<1>1. TypeOK'
  BY <1>0, InitInstance DEF IndInv, TypeOK, Label
<1>2. SigInv' /\ SearchInv' /\ FrameInv'
  BY <1>0 DEF IndInv, SigInv, SearchInv, FrameInv, RangeUser
<1>3. TableInv'
  BY <1>0 DEF IndInv, TableInv, Starting, L0
<1>4. MappedInv' /\ ReturnInv'
  BY <1>0 DEF MappedInv, ReturnInv, L0, W0
<1> QED BY <1>1, <1>2, <1>3, <1>4 DEF IndInv

\* nmbm_detach writes the info table back.
LEMMA DetachStep == IndInv /\ nmbm_detach => IndInv'
<1> SUFFICES ASSUME IndInv, nmbm_detach PROVE IndInv'
  OBVIOUS
<1>0. /\ pc = "idle" /\ pc' = "update" /\ loc' = [loc EXCEPT !.uk = "detached"]
      /\ UNCHANGED <<cell, oob, ni, w, expect, boots>>
  BY DEF nmbm_detach, chip, hist
<1>1. /\ ni \in Instance /\ ni.sig_ba # 0 /\ Keeps(ni, loc) /\ loc \in Locals
      /\ loc.uk = "off" /\ loc.mk = "off" /\ loc.rk = "off" /\ w.k = "off"
  BY <1>0, AtIdle
<1>2. /\ loc' \in Locals /\ loc'.uk = "detached" /\ loc'.mk = "off" /\ loc'.start = loc.start
  BY <1>0, <1>1 DEF Locals, UpdateReturn
<1>3. Keeps(ni', loc')
  BY <1>0, <1>1, <1>2 DEF Keeps
<1>4. MappedInv' /\ ReturnInv'
  BY <1>0, <1>2 DEF MappedInv, ReturnInv
<1>5. expect' \in [LBlocks -> Expected]
  BY <1>0 DEF IndInv, TypeOK
<1> QED BY <1>0, <1>1, <1>3, <1>4, <1>5, JumpStep DEF Label, RangeUser, Starting

\* nmbm_detach frees the instance.
LEMMA DetachedStep == IndInv /\ Detached => IndInv'
<1> SUFFICES ASSUME IndInv, Detached PROVE IndInv'
  OBVIOUS
<1>1. PowerOff /\ UNCHANGED <<cell, oob, expect, boots>>
  BY DEF Detached, chip, hist
<1>2. /\ expect' \in [LBlocks -> Expected] /\ boots' \in Nat
      /\ cell' \in [Blocks -> Content] /\ oob' \subseteq Blocks
  BY <1>1 DEF IndInv, TypeOK
<1>3. \A b \in Blocks : cell'[b] = Signature => MgmtStart < b
  BY <1>1 DEF IndInv, SigInv
<1> QED BY <1>1, <1>2, <1>3, PowerOffStep

\* The start of an erase or a write preserves the invariant.
LEMMA BeginStep == IndInv /\ (EraseBegin \/ WriteBegin) => IndInv'
<1> SUFFICES ASSUME IndInv, EraseBegin \/ WriteBegin PROVE IndInv'
  OBVIOUS
<1>1. PICK lb \in LBlocks :
        /\ Begin(lb) /\ loc' = [loc EXCEPT !.lb = lb] /\ pc' \in {"er_try", "wr_program"}
        /\ UNCHANGED <<cell, oob, ni, w, boots>>
  BY DEF EraseBegin, WriteBegin, chip
<1>2. /\ pc = "idle" /\ ni.block_mapping[lb] # Unmapped
      /\ expect' = [expect EXCEPT ![lb] = "any"]
  BY <1>1 DEF Begin, Idle
<1>3. /\ ni \in Instance /\ ni.sig_ba # 0 /\ Keeps(ni, loc) /\ loc \in Locals
      /\ loc.uk = "off" /\ loc.mk = "off" /\ loc.rk = "off" /\ w.k = "off"
  BY <1>2, AtIdle
<1>4. /\ loc' \in Locals /\ loc'.uk = "off" /\ loc'.mk = "off" /\ loc'.rk = "off"
      /\ loc'.start = loc.start /\ loc'.lb = lb
  BY <1>1, <1>3 DEF Locals
<1>5. Keeps(ni', loc')
  BY <1>1, <1>3, <1>4 DEF Keeps
<1>6. MappedInv' /\ ReturnInv'
  BY <1>1, <1>2, <1>3, <1>4 DEF MappedInv, ReturnInv
<1>7. expect' \in [LBlocks -> Expected]
  BY <1>2 DEF IndInv, TypeOK, Expected
<1> QED BY <1>1, <1>3, <1>5, <1>6, <1>7, JumpStep DEF Label, RangeUser, Starting

\* A write to the block behind a logic block spares the signature.
LEMMA UserBlock ==
  ASSUME IndInv, ni.sig_ba # 0, ni.block_mapping[loc.lb] # Unmapped
  PROVE  ni.block_mapping[loc.lb] \in Blocks /\ ni.block_mapping[loc.lb] # ni.sig_ba
<1>1. loc.lb \in LBlocks /\ ni.block_mapping \in Mapping
  BY DEF IndInv, TypeOK, Locals, Instance
<1> QED BY <1>1 DEF IndInv, SigInv, Mapping

\* nmbm_erase_logic_block erases a mapped block or asks for another.
LEMMA EraseLogicBlockStep == IndInv /\ nmbm_erase_logic_block => IndInv'
<1> SUFFICES ASSUME IndInv, nmbm_erase_logic_block PROVE IndInv'
  OBVIOUS
<1> DEFINE pb == ni.block_mapping[loc.lb]
           bad == nmbm_set_block_state(ni, {pb}, BLOCK_ST_BAD)
<1>0. pc = "er_try" /\ UNCHANGED <<w, boots>>
  BY DEF nmbm_erase_logic_block
<1>1. /\ ni \in Instance /\ w \in Frame /\ loc \in Locals
      /\ ni.sig_ba # 0 /\ Keeps(ni, loc)
  BY <1>0, Ready DEF Starting
<1>2. pb # Unmapped /\ pb \in Blocks /\ pb # ni.sig_ba
  BY <1>0, <1>1, UserBlock DEF IndInv, MappedInv
<1>3. \A lb \in LBlocks : ni.block_mapping[lb] # ni.sig_ba
  BY <1>1 DEF IndInv, SigInv
<1>4. TypeOK /\ cell \in [Blocks -> Content] /\ oob \subseteq Blocks
      /\ expect \in [LBlocks -> Expected]
  BY DEF IndInv, TypeOK
<1>5. Keeps(bad, loc)
  BY <1>1, SetBlockState DEF Keeps, TablesIn, SparesIn, Area, BlockState
<1>6. loc.rk # "create_map" /\ w.k # "create_map"
  BY <1>0 DEF IndInv, ReturnInv
<1>7. ASSUME NEW n \in {ni, bad}, RemapLogicBlock(n, pb), expect' = expect,
             cell' \in [Blocks -> Content], oob' \subseteq Blocks,
             \A b \in Blocks : cell'[b] = Signature => cell[b] = Signature
      PROVE  IndInv'
  <2>1. ni' = n /\ loc' = [loc EXCEPT !.pb = pb, !.mk = "er_mapped"] /\ pc' = "map"
    BY <1>7 DEF RemapLogicBlock
  <2>2. /\ loc' \in Locals /\ loc'.uk = loc.uk /\ loc'.mk = "er_mapped" /\ loc'.rk = loc.rk
        /\ loc'.start = loc.start /\ loc'.lb = loc.lb
    BY <1>1, <1>2, <2>1 DEF Locals, MapReturn
  <2>3. Keeps(n, loc)
    BY <1>1, <1>5
  <2>4. /\ ni' \in Instance /\ ni'.sig_ba = ni.sig_ba /\ ni'.block_mapping = ni.block_mapping
        /\ TablesIn(ni') /\ SparesIn(ni') /\ loc'.start \in Area(ni') \cup {0}
    BY <2>1, <2>2, <2>3 DEF Keeps
  <2>5. MappedInv' /\ ReturnInv'
    BY <1>0, <1>2, <1>6, <2>1, <2>2, <2>4 DEF MappedInv, ReturnInv
  <2> QED BY <1>0, <1>1, <1>3, <1>4, <1>7, <2>1, <2>2, <2>4, <2>5, ChipStep
          DEF Label, RangeUser, Starting
<1>8. ASSUME cell' = [cell EXCEPT ![pb] = Blank], pc' = "done",
             expect' = [expect EXCEPT ![loc.lb] = "blank"], UNCHANGED <<oob, ni, loc>>
      PROVE  IndInv'
  <2>1. /\ cell' \in [Blocks -> Content] /\ oob' \subseteq Blocks
        /\ \A b \in Blocks : cell'[b] = Signature => cell[b] = Signature
    BY <1>4, <1>8, ContentValues
  <2>2. expect' \in [LBlocks -> Expected]
    BY <1>4, <1>8 DEF Expected
  <2>3. MappedInv' /\ ReturnInv' /\ pc' \in Label /\ pc' \notin RangeUser
        /\ pc' \notin Starting /\ pc' # "idle"
    BY <1>0, <1>8, ReturnPlain DEF Starting
  <2>4. TablesIn(ni') /\ SparesIn(ni') /\ loc'.start \in Area(ni') \cup {0}
    BY <1>1, <1>8 DEF Keeps
  <2> QED BY <1>0, <1>1, <1>3, <1>8, <2>1, <2>2, <2>3, <2>4, ChipStep
<1>9. ASSUME FailBlock(pb, {Torn})
      PROVE  /\ cell' \in [Blocks -> Content] /\ oob' \subseteq Blocks
             /\ \A b \in Blocks : cell'[b] = Signature => cell[b] = Signature
  <2>1. Torn # Signature /\ {Torn} \in SUBSET Content
    BY ContentValues
  <2>2. /\ cell' \in [Blocks -> Content] /\ oob' \subseteq Blocks
        /\ \A c \in Blocks : c # pb => cell'[c] = cell[c]
        /\ cell'[pb] \in {cell[pb], Torn}
    BY <1>2, <1>4, <1>9, <2>1, FailBlockEffect
  <2> QED BY <2>1, <2>2
<1> HIDE DEF bad
<1>10. \/ RemapLogicBlock(ni, pb) /\ UNCHANGED <<cell, oob, expect>>
       \/ RemapLogicBlock(bad, pb) /\ UNCHANGED <<cell, oob, expect>>
       \/ /\ cell' = [cell EXCEPT ![pb] = Blank] /\ pc' = "done"
          /\ expect' = [expect EXCEPT ![loc.lb] = "blank"] /\ UNCHANGED <<oob, ni, loc>>
       \/ FailBlock(pb, {Torn}) /\ RemapLogicBlock(bad, pb) /\ UNCHANGED expect
  BY DEF nmbm_erase_logic_block, bad, chip
<1> QED BY <1>4, <1>7, <1>8, <1>9, <1>10

\* nmbm_erase_logic_block after nmbm_map_block.
LEMMA EraseMappedStep == IndInv /\ EraseMapped => IndInv'
<1> SUFFICES ASSUME IndInv, EraseMapped PROVE IndInv'
  OBVIOUS
<1> DEFINE n == IF ni.block_state[loc.pb] # BLOCK_ST_NEED_REMAP
                  THEN nmbm_set_block_state(ni, {loc.pb}, BLOCK_ST_BAD) ELSE ni
<1>0. pc = "er_mapped" /\ pc' = "update" /\ UNCHANGED <<cell, oob, w, expect, boots>>
  BY DEF EraseMapped, chip, hist
<1>1. /\ ni \in Instance /\ w \in Frame /\ loc \in Locals
      /\ ni.sig_ba # 0 /\ Keeps(ni, loc)
  BY <1>0, Ready DEF Starting
<1>2. Keeps(n, loc)
  BY <1>1, SetBlockState DEF Keeps, TablesIn, SparesIn, Area, BlockState
<1>3. /\ loc.mk = "er_mapped" /\ loc.rk # "create_map" /\ w.k # "create_map"
      /\ loc.ok => ni.block_mapping[loc.lb] # Unmapped
  BY <1>0 DEF IndInv, ReturnInv, MappedInv
<1>4. expect' \in [LBlocks -> Expected] /\ cell' \in [Blocks -> Content] /\ oob' \subseteq Blocks
  BY <1>0 DEF IndInv, TypeOK
<1>5. \/ loc.ok /\ ni' = n /\ loc' = [loc EXCEPT !.uk = "er_try"]
      \/ /\ ni' = [n EXCEPT !.block_mapping[loc.lb] = Unmapped]
         /\ loc' = [loc EXCEPT !.uk = "bad_done"]
  BY DEF EraseMapped
<1> HIDE DEF n
<1>6. ASSUME loc.ok, ni' = n, loc' = [loc EXCEPT !.uk = "er_try"]
      PROVE  IndInv'
  <2>1. /\ loc' \in Locals /\ loc'.uk = "er_try" /\ loc'.mk = loc.mk /\ loc'.rk = loc.rk
        /\ loc'.start = loc.start /\ loc'.lb = loc.lb
    BY <1>1, <1>6 DEF Locals, UpdateReturn
  <2>2. Keeps(ni', loc') /\ ni'.block_mapping = ni.block_mapping
    BY <1>2, <1>6, <2>1 DEF Keeps
  <2>3. MappedInv' /\ ReturnInv'
    BY <1>0, <1>3, <1>6, <2>1, <2>2 DEF MappedInv, ReturnInv
  <2> QED BY <1>0, <1>1, <1>4, <2>2, <2>3, JumpStep DEF Label, RangeUser, Starting
<1>7. ASSUME ni' = [n EXCEPT !.block_mapping[loc.lb] = Unmapped],
             loc' = [loc EXCEPT !.uk = "bad_done"]
      PROVE  IndInv'
  <2>1. /\ loc' \in Locals /\ loc'.uk = "bad_done" /\ loc'.mk = loc.mk /\ loc'.rk = loc.rk
        /\ loc'.start = loc.start /\ loc'.lb = loc.lb /\ loc.lb \in LBlocks
    BY <1>1, <1>7 DEF Locals, UpdateReturn
  <2>2. n \in Instance /\ n.block_mapping = ni.block_mapping /\ n.sig_ba = ni.sig_ba
        /\ ni.block_mapping \in Mapping
    BY <1>1, <1>2 DEF Keeps, Instance
  <2>3. PICK bm \in Mapping : bm = [n.block_mapping EXCEPT ![loc.lb] = Unmapped]
    BY <2>1, <2>2 DEF Mapping
  <2>4. ni' = [n EXCEPT !.block_mapping = bm]
    BY <1>7, <2>3
  <2>5. /\ ni' \in Instance /\ ni'.sig_ba = ni.sig_ba /\ ni'.block_mapping = bm
        /\ ni'.main_ba = n.main_ba /\ ni'.backup_ba = n.backup_ba
        /\ ni'.map_ba = n.map_ba /\ ni'.top_ba = n.top_ba
    BY <2>2, <2>4 DEF Instance
  <2>6. TablesIn(ni') /\ SparesIn(ni') /\ loc'.start \in Area(ni') \cup {0}
    BY <1>2, <2>1, <2>2, <2>5 DEF Keeps, TablesIn, SparesIn, Area
  <2>7. \A lb \in LBlocks : ni'.block_mapping[lb] # ni.sig_ba
    <3>1. \A lb \in LBlocks : ni.block_mapping[lb] # ni.sig_ba
      BY <1>1 DEF IndInv, SigInv
    <3>2. ni.sig_ba # Unmapped
      BY <1>1, GeometryAssumption DEF Instance, Blocks, Unmapped
    <3> QED BY <2>1, <2>2, <2>3, <2>5, <3>1, <3>2 DEF Mapping
  <2>8. MappedInv' /\ ReturnInv'
    BY <1>0, <1>3, <2>1 DEF MappedInv, ReturnInv
  <2> QED BY <1>0, <1>1, <1>4, <2>1, <2>5, <2>6, <2>7, <2>8, ChipStep
          DEF Label, RangeUser, Starting
<1> QED BY <1>5, <1>6, <1>7

\* nmbm_write_logic_page programs a mapped block.
LEMMA WriteLogicPageStep == IndInv /\ nmbm_write_logic_page => IndInv'
<1> SUFFICES ASSUME IndInv, nmbm_write_logic_page PROVE IndInv'
  OBVIOUS
<1> DEFINE pb == ni.block_mapping[loc.lb]
           n == nmbm_set_block_state(ni, {pb}, BLOCK_ST_NEED_REMAP)
<1>0. pc = "wr_program" /\ UNCHANGED <<oob, w, boots>>
  BY DEF nmbm_write_logic_page
<1>1. /\ ni \in Instance /\ w \in Frame /\ loc \in Locals
      /\ ni.sig_ba # 0 /\ Keeps(ni, loc)
  BY <1>0, Ready DEF Starting
<1>2. pb # Unmapped /\ pb \in Blocks /\ pb # ni.sig_ba
  BY <1>0, <1>1, UserBlock DEF IndInv, MappedInv
<1>3. \A lb \in LBlocks : ni.block_mapping[lb] # ni.sig_ba
  BY <1>1 DEF IndInv, SigInv
<1>4. cell \in [Blocks -> Content] /\ oob \subseteq Blocks
      /\ expect \in [LBlocks -> Expected] /\ loc.lb \in LBlocks
  BY <1>1 DEF IndInv, TypeOK, Locals
<1>5. Keeps(n, loc)
  BY <1>1, SetBlockState DEF Keeps, TablesIn, SparesIn, Area, BlockState
<1>6. \/ /\ cell' = [cell EXCEPT ![pb] = Data(loc.lb)] /\ pc' = "done"
         /\ expect' = [expect EXCEPT ![loc.lb] = "data"] /\ UNCHANGED <<ni, loc>>
      \/ /\ cell' \in {cell, [cell EXCEPT ![pb] = Torn]} /\ ni' = n
         /\ loc' = [loc EXCEPT !.uk = "done"] /\ pc' = "update" /\ UNCHANGED expect
  BY DEF nmbm_write_logic_page
<1> HIDE DEF n
<1>7. ASSUME cell' = [cell EXCEPT ![pb] = Data(loc.lb)], pc' = "done",
             expect' = [expect EXCEPT ![loc.lb] = "data"], UNCHANGED <<ni, loc>>
      PROVE  IndInv'
  <2>1. /\ cell' \in [Blocks -> Content] /\ oob' \subseteq Blocks
        /\ \A b \in Blocks : cell'[b] = Signature => cell[b] = Signature
    <3>1. Data(loc.lb) \in Content /\ Data(loc.lb) # Signature
      BY <1>4, ContentValues
    <3> QED BY <1>0, <1>4, <1>7, <3>1
  <2>2. expect' \in [LBlocks -> Expected]
    BY <1>4, <1>7 DEF Expected
  <2>3. MappedInv' /\ ReturnInv' /\ pc' \in Label /\ pc' \notin RangeUser
        /\ pc' \notin Starting /\ pc' # "idle"
    BY <1>0, <1>7, ReturnPlain DEF Starting
  <2>4. TablesIn(ni') /\ SparesIn(ni') /\ loc'.start \in Area(ni') \cup {0}
    BY <1>1, <1>7 DEF Keeps
  <2> QED BY <1>0, <1>1, <1>3, <1>7, <2>1, <2>2, <2>3, <2>4, ChipStep
<1>8. ASSUME cell' \in {cell, [cell EXCEPT ![pb] = Torn]}, ni' = n,
             loc' = [loc EXCEPT !.uk = "done"], pc' = "update", UNCHANGED expect
      PROVE  IndInv'
  <2>1. /\ cell' \in [Blocks -> Content] /\ oob' \subseteq Blocks
        /\ \A b \in Blocks : cell'[b] = Signature => cell[b] = Signature
    BY <1>0, <1>4, <1>8, ContentValues
  <2>2. /\ loc' \in Locals /\ loc'.uk = "done" /\ loc'.mk = loc.mk /\ loc'.rk = loc.rk
        /\ loc'.start = loc.start /\ loc'.lb = loc.lb
    BY <1>1, <1>8 DEF Locals, UpdateReturn
  <2>3. /\ ni' \in Instance /\ ni'.sig_ba = ni.sig_ba /\ ni'.block_mapping = ni.block_mapping
        /\ TablesIn(ni') /\ SparesIn(ni') /\ loc'.start \in Area(ni') \cup {0}
    BY <1>5, <1>8, <2>2 DEF Keeps
  <2>4. MappedInv' /\ ReturnInv'
    BY <1>0, <1>8, <2>2 DEF IndInv, MappedInv, ReturnInv
  <2> QED BY <1>0, <1>1, <1>3, <1>4, <1>8, <2>1, <2>2, <2>3, <2>4, ChipStep
          DEF Label, RangeUser, Starting
<1> QED BY <1>6, <1>7, <1>8

\* nmbm_mark_bad_block unmaps a logic block.
LEMMA MarkBadStep == IndInv /\ nmbm_mark_bad_block => IndInv'
<1> SUFFICES ASSUME IndInv, nmbm_mark_bad_block PROVE IndInv'
  OBVIOUS
<1>1. PICK lb \in Markable :
        /\ Begin(lb)
        /\ ni' = nmbm_set_block_state([ni EXCEPT !.block_mapping[lb] = Unmapped],
                                      {ni.block_mapping[lb]}, BLOCK_ST_BAD)
        /\ oob' \in {oob, oob \cup {ni.block_mapping[lb]}}
        /\ loc' = [loc EXCEPT !.lb = lb, !.uk = "bad_done"]
        /\ pc' = "update" /\ UNCHANGED <<cell, w, boots>>
  BY DEF nmbm_mark_bad_block
<1>2. /\ pc = "idle" /\ ni.block_mapping[lb] # Unmapped /\ lb \in LBlocks
      /\ expect' = [expect EXCEPT ![lb] = "any"]
  BY <1>1, EnvironmentAssumption DEF Begin, Idle
<1>3. /\ ni \in Instance /\ ni.sig_ba # 0 /\ Keeps(ni, loc) /\ loc \in Locals
      /\ loc.uk = "off" /\ loc.mk = "off" /\ loc.rk = "off" /\ w.k = "off"
  BY <1>2, AtIdle
<1>4. /\ loc' \in Locals /\ loc'.uk = "bad_done" /\ loc'.mk = "off" /\ loc'.rk = "off"
      /\ loc'.start = loc.start /\ loc'.lb = lb
  BY <1>1, <1>2, <1>3 DEF Locals, UpdateReturn
<1>5. ni.block_mapping \in Mapping /\ ni.block_mapping[lb] \in Blocks
  BY <1>2, <1>3 DEF Instance, Mapping
<1>6. PICK bm \in Mapping : bm = [ni.block_mapping EXCEPT ![lb] = Unmapped]
  BY <1>2, <1>5 DEF Mapping
<1>7. PICK n : n = [ni EXCEPT !.block_mapping = bm]
  OBVIOUS
<1>8. /\ n \in Instance /\ n.sig_ba = ni.sig_ba /\ n.block_mapping = bm
      /\ n.main_ba = ni.main_ba /\ n.backup_ba = ni.backup_ba
      /\ n.map_ba = ni.map_ba /\ n.top_ba = ni.top_ba
  BY <1>3, <1>7 DEF Instance
<1>9. /\ ni' \in Instance /\ ni'.sig_ba = ni.sig_ba /\ ni'.block_mapping = bm
      /\ ni'.main_ba = ni.main_ba /\ ni'.backup_ba = ni.backup_ba
      /\ ni'.map_ba = ni.map_ba /\ ni'.top_ba = ni.top_ba
  <2>1. ni' = nmbm_set_block_state(n, {ni.block_mapping[lb]}, BLOCK_ST_BAD)
    BY <1>1, <1>6, <1>7
  <2>2. BLOCK_ST_BAD \in BlockState
    BY DEF BlockState
  <2> QED BY <1>8, <2>1, <2>2, SetBlockState
<1>10. TablesIn(ni') /\ SparesIn(ni') /\ loc'.start \in Area(ni') \cup {0}
  BY <1>3, <1>4, <1>9 DEF Keeps, TablesIn, SparesIn, Area
<1>11. \A b \in LBlocks : ni'.block_mapping[b] # ni.sig_ba
  <2>1. \A b \in LBlocks : ni.block_mapping[b] # ni.sig_ba
    BY <1>3 DEF IndInv, SigInv
  <2>2. ni.sig_ba # Unmapped
    BY <1>3, GeometryAssumption DEF Instance, Blocks, Unmapped
  <2> QED BY <1>2, <1>5, <1>6, <1>9, <2>1, <2>2 DEF Mapping
<1>12. MappedInv' /\ ReturnInv'
  BY <1>1, <1>4 DEF MappedInv, ReturnInv
<1>13. /\ cell' \in [Blocks -> Content] /\ oob' \subseteq Blocks /\ cell' = cell
       /\ expect' \in [LBlocks -> Expected]
  BY <1>1, <1>2, <1>5 DEF IndInv, TypeOK, Expected
<1> QED BY <1>1, <1>3, <1>4, <1>9, <1>10, <1>11, <1>12, <1>13, ChipStep
        DEF Label, RangeUser, Starting

\* nmbm_attach: a signature that was found lies above mgmt_start_ba.
LEMMA AttachStep == IndInv /\ nmbm_attach => IndInv'
<1> SUFFICES ASSUME IndInv, nmbm_attach PROVE IndInv'
  OBVIOUS
<1> DEFINE found == nmbm_find_signature(cell, oob)
<1>0. pc = "off" /\ boots' = boots + 1 /\ UNCHANGED <<cell, oob, w, expect>>
  BY DEF nmbm_attach, chip
<1>1. PICK create, n :
        /\ create \in CreateFlags
        /\ n = [nmbm_init_structure EXCEPT !.create = create]
        /\ \/ /\ found # {}
              /\ ni' = [n EXCEPT !.sig_ba = Max(found), !.data_count = MgmtStart,
                                 !.top_ba = Max(found) - 1]
              /\ loc' = [L0 EXCEPT !.ba = MgmtStart] /\ pc' = "search1"
           \/ /\ ni' = nmbm_scan_and_build(n)
              /\ loc' = [L0 EXCEPT !.ba = BlockCount - 1] /\ pc' = "sig_erase"
           \/ UNCHANGED <<ni, loc, pc>>
  BY DEF nmbm_attach
<1>2. cell' \in [Blocks -> Content] /\ oob' \subseteq Blocks /\ w' \in Frame
      /\ expect' \in [LBlocks -> Expected] /\ boots' \in Nat
  BY <1>0 DEF IndInv, TypeOK
<1>3. \A b \in Blocks : cell'[b] = Signature => MgmtStart < b
  BY <1>0 DEF IndInv, SigInv
<1>4. /\ n \in Instance /\ n.sig_ba = 0 /\ n.main_ba = 0 /\ n.backup_ba = 0
      /\ n.block_mapping = NoMapping
  <2>1. create \in BOOLEAN
    BY <1>1, EnvironmentAssumption
  <2>2. n \in Instance
    BY <1>1, <2>1, InitInstance DEF Instance
  <2> QED BY <1>1, <2>2 DEF nmbm_init_structure
<1>5. CASE /\ found # {}
           /\ ni' = [n EXCEPT !.sig_ba = Max(found), !.data_count = MgmtStart,
                              !.top_ba = Max(found) - 1]
           /\ loc' = [L0 EXCEPT !.ba = MgmtStart] /\ pc' = "search1"
  <2>1. found \in SUBSET (0 .. BlockCount - 1) /\ BlockCount - 1 \in Nat
    BY GeometryAssumption DEF nmbm_find_signature
  <2>2. PICK sig \in found : sig = Max(found)
    <3> HIDE DEF found
    <3> QED BY <1>5, <2>1, MaxNat
  <2>3. sig \in Blocks /\ cell[sig] = Signature
    BY <2>1 DEF nmbm_find_signature, Blocks
  <2>4. MgmtStart < sig
    BY <1>0, <1>3, <2>3
  <2>5. ni' = [n EXCEPT !.sig_ba = sig, !.data_count = MgmtStart, !.top_ba = sig - 1]
    BY <1>5, <2>2
  <2>6. sig - 1 \in Int /\ MgmtStart \in Nat
    BY <2>3, GeometryAssumption DEF Blocks
  <2>7. ni' \in Instance
    BY <1>4, <2>3, <2>5, <2>6 DEF Instance
  <2>8. /\ ni'.sig_ba = sig /\ ni'.main_ba = 0 /\ ni'.backup_ba = 0
        /\ ni'.block_mapping = NoMapping
    BY <1>4, <2>5 DEF Instance
  <2>9. /\ loc' \in Locals /\ loc'.ba = MgmtStart /\ loc'.start = 0
        /\ loc'.uk = "off" /\ loc'.mk = "off"
    <3>1. loc' \in Locals
      BY <1>5, <2>6, InitInstance DEF Locals
    <3> QED BY <1>5, <3>1 DEF L0
  <2>10. TypeOK'
    BY <1>2, <1>5, <2>7, <2>9 DEF TypeOK, Label
  <2>11. \A lb \in LBlocks : NoMapping[lb] # sig
    BY <2>4, <2>6, <2>3, GeometryAssumption DEF NoMapping, Unmapped, Blocks
  <2>12. SigInv'
    BY <1>0, <1>3, <1>5, <2>3, <2>4, <2>8, <2>11, GeometryAssumption DEF SigInv, Blocks
  <2>13. TableInv' /\ SearchInv' /\ FrameInv'
    BY <1>5, <2>6, <2>8, <2>9, GeometryAssumption DEF TableInv, TablesIn, SearchInv, FrameInv, Starting, RangeUser
  <2>14. MappedInv' /\ ReturnInv'
    BY <1>5, <2>9 DEF MappedInv, ReturnInv
  <2> QED BY <2>10, <2>12, <2>13, <2>14 DEF IndInv
<1>6. CASE /\ ni' = nmbm_scan_and_build(n)
           /\ loc' = [L0 EXCEPT !.ba = BlockCount - 1] /\ pc' = "sig_erase"
  <2>1. /\ ni' \in Instance /\ ni'.sig_ba = 0 /\ ni'.main_ba = 0 /\ ni'.backup_ba = 0
        /\ \A lb \in LBlocks : ni'.block_mapping[lb] < MgmtStart
    BY <1>4, <1>6, ScanAndBuild
  <2>2. BlockCount - 1 \in Nat /\ BlockCount - 1 < BlockCount
    BY GeometryAssumption
  <2>3. /\ loc' \in Locals /\ loc'.ba = BlockCount - 1 /\ loc'.start = 0
        /\ loc'.uk = "off" /\ loc'.mk = "off"
    <3>1. loc' \in Locals
      BY <1>6, <2>2, InitInstance DEF Locals
    <3> QED BY <1>6, <3>1 DEF L0
  <2>4. TypeOK'
    BY <1>2, <1>6, <2>1, <2>3 DEF TypeOK, Label
  <2>5. SigInv'
    BY <1>3, <1>6, <2>1, <2>2, <2>3 DEF SigInv
  <2>6. TableInv' /\ SearchInv' /\ FrameInv'
    BY <1>6, <2>1 DEF TableInv, SearchInv, FrameInv, Starting, RangeUser
  <2>7. MappedInv' /\ ReturnInv'
    BY <1>6, <2>3 DEF MappedInv, ReturnInv
  <2> QED BY <2>4, <2>5, <2>6, <2>7 DEF IndInv
<1>7. CASE UNCHANGED <<ni, loc, pc>>
  <2>1. TypeOK'
    BY <1>2, <1>7 DEF IndInv, TypeOK
  <2> QED BY <1>0, <1>7, <2>1 DEF IndInv, SigInv, TableInv, TablesIn, SparesIn, Area, SearchInv,
             FrameInv, MappedInv, ReturnInv
<1> QED BY <1>1, <1>5, <1>6, <1>7

\* The states of nmbm_write_signature.
LEMMA AtSignature ==
  ASSUME IndInv, pc \in {"sig_erase", "sig_program"}
  PROVE  /\ TypeOK /\ ni \in Instance /\ loc \in Locals /\ ni.sig_ba = 0
         /\ ni.main_ba = 0 /\ ni.backup_ba = 0 /\ loc.start = 0
         /\ \A lb \in LBlocks : ni.block_mapping[lb] < MgmtStart
         /\ loc.ba \in Nat /\ loc.ba < BlockCount
         /\ loc.mk # "er_mapped" /\ loc.uk # "er_try"
BY DEF IndInv, TypeOK, Locals, SigInv, ReturnInv

\* A step that goes on looking for a block for the signature.
LEMMA SignatureStep ==
  ASSUME IndInv, pc \in {"sig_erase", "sig_program"}, pc' \in {"sig_erase", "sig_program"},
         UNCHANGED <<w, expect, boots>>,
         cell' \in [Blocks -> Content], oob' \subseteq Blocks,
         \A b \in Blocks : cell'[b] = Signature => MgmtStart < b,
         ni' \in {ni, nmbm_set_block_state(ni, {loc.ba}, BLOCK_ST_BAD)},
         loc' = loc \/ (loc' = [loc EXCEPT !.ba = loc.ba - 1] /\ loc.ba > MgmtStart),
         pc' = "sig_program" => loc' = loc /\ loc.ba > MgmtStart
  PROVE  IndInv'
<1>1. /\ TypeOK /\ ni \in Instance /\ loc \in Locals /\ ni.sig_ba = 0
      /\ ni.main_ba = 0 /\ ni.backup_ba = 0 /\ loc.start = 0
      /\ \A lb \in LBlocks : ni.block_mapping[lb] < MgmtStart
      /\ loc.ba \in Nat /\ loc.ba < BlockCount
      /\ loc.mk # "er_mapped" /\ loc.uk # "er_try"
  BY AtSignature
<1>2. /\ ni' \in Instance /\ ni'.sig_ba = 0 /\ ni'.main_ba = 0 /\ ni'.backup_ba = 0
      /\ \A lb \in LBlocks : ni'.block_mapping[lb] < MgmtStart
  BY <1>1, SetBlockState DEF BlockState
<1>3. loc.ba > MgmtStart => loc.ba - 1 \in Nat /\ loc.ba - 1 < BlockCount
  BY <1>1, GeometryAssumption
<1>4. /\ loc' \in Locals /\ loc'.ba < BlockCount /\ loc'.mk = loc.mk /\ loc'.uk = loc.uk
      /\ loc'.start = 0
  BY <1>1, <1>3 DEF Locals
<1>5. TypeOK'
  BY <1>1, <1>2, <1>4 DEF TypeOK, Label
<1>6. SigInv'
  BY <1>2, <1>4 DEF SigInv
<1>7. TableInv' /\ SearchInv' /\ FrameInv'
  BY <1>2 DEF TableInv, SearchInv, FrameInv, Starting, RangeUser
<1>8. MappedInv' /\ ReturnInv'
  BY <1>1, <1>4 DEF MappedInv, ReturnInv
<1> QED BY <1>5, <1>6, <1>7, <1>8 DEF IndInv

\* A block that cannot take the signature.
LEMMA SignatureFailsStep ==
  ASSUME IndInv, pc \in {"sig_erase", "sig_program"}, pc' = "sig_erase", loc.ba > MgmtStart,
         NEW junk \in SUBSET {Torn, Signature}, SignatureFails(junk), UNCHANGED <<w, expect, boots>>
  PROVE  IndInv'
<1>1. TypeOK /\ loc.ba \in Blocks /\ loc \in Locals
  BY AtSignature, GeometryAssumption DEF Blocks
<1>2. junk \in SUBSET Content
  BY ContentValues
<1>3. /\ FailBlock(loc.ba, junk) /\ ni' = nmbm_set_block_state(ni, {loc.ba}, BLOCK_ST_BAD)
      /\ loc' = [loc EXCEPT !.ba = loc.ba - 1]
  BY <1>1 DEF SignatureFails, NextSignatureBlock, Locals
<1>4. /\ cell' \in [Blocks -> Content] /\ oob' \subseteq Blocks
      /\ \A c \in Blocks : c # loc.ba => cell'[c] = cell[c]
  BY <1>1, <1>2, <1>3, FailBlockEffect
<1>5. \A b \in Blocks : cell'[b] = Signature => MgmtStart < b
  BY <1>4 DEF IndInv, SigInv
<1> QED BY <1>3, <1>4, <1>5, SignatureStep

\* nmbm_write_signature erases a block above mgmt_start_ba.
LEMMA WriteSignatureStep == IndInv /\ nmbm_write_signature => IndInv'
<1> SUFFICES ASSUME IndInv, nmbm_write_signature PROVE IndInv'
  OBVIOUS
<1>0. pc = "sig_erase" /\ UNCHANGED <<expect, boots>>
  BY DEF nmbm_write_signature, hist
<1>1. /\ TypeOK /\ loc \in Locals /\ loc.ba \in Nat /\ loc.ba < BlockCount
      /\ cell \in [Blocks -> Content] /\ oob \subseteq Blocks
      /\ expect \in [LBlocks -> Expected] /\ boots \in Nat
  BY <1>0, AtSignature DEF TypeOK
<1>2. \A b \in Blocks : cell[b] = Signature => MgmtStart < b
  BY DEF IndInv, SigInv
<1>3. CASE PowerOff /\ UNCHANGED <<cell, oob>>
  BY <1>0, <1>1, <1>2, <1>3, PowerOffStep
<1>4. CASE loc.ba > MgmtStart /\ NextSignatureBlock /\ UNCHANGED <<cell, oob, ni, pc, w>>
  <2>1. loc' = [loc EXCEPT !.ba = loc.ba - 1]
    BY <1>1, <1>4 DEF NextSignatureBlock, Locals
  <2> QED BY <1>0, <1>1, <1>2, <1>4, <2>1, SignatureStep
<1>5. CASE /\ loc.ba > MgmtStart /\ cell' = [cell EXCEPT ![loc.ba] = Blank]
           /\ pc' = "sig_program" /\ UNCHANGED <<oob, ni, loc, w>>
  <2>1. /\ cell' \in [Blocks -> Content]
        /\ \A b \in Blocks : cell'[b] = Signature => MgmtStart < b
    BY <1>1, <1>2, <1>5, ContentValues
  <2> QED BY <1>0, <1>1, <1>5, <2>1, SignatureStep
<1>6. CASE loc.ba > MgmtStart /\ SignatureFails({Torn}) /\ UNCHANGED <<pc, w>>
  BY <1>0, <1>6, SignatureFailsStep
<1> QED BY <1>3, <1>4, <1>5, <1>6 DEF nmbm_write_signature, chip

\* nmbm_write_signature programs it.
LEMMA SignatureProgramStep == IndInv /\ SignatureProgram => IndInv'
<1> SUFFICES ASSUME IndInv, SignatureProgram PROVE IndInv'
  OBVIOUS
<1>0. pc = "sig_program" /\ UNCHANGED <<w, expect, boots>>
  BY DEF SignatureProgram, hist
<1>1. loc.ba > MgmtStart
  BY <1>0, AtSignature, GeometryAssumption DEF IndInv, SigInv
<1>2. ASSUME cell' = [cell EXCEPT ![loc.ba] = Signature], ni' = [ni EXCEPT !.sig_ba = loc.ba],
             pc' = "create", UNCHANGED <<oob, loc>>
      PROVE  IndInv'
  <2>1. /\ TypeOK /\ ni \in Instance /\ loc \in Locals
        /\ ni.main_ba = 0 /\ ni.backup_ba = 0 /\ loc.start = 0
        /\ \A lb \in LBlocks : ni.block_mapping[lb] < MgmtStart
        /\ loc.ba \in Nat /\ loc.ba < BlockCount
        /\ loc.mk # "er_mapped" /\ loc.uk # "er_try"
    BY <1>0, AtSignature
  <2>2. loc.ba \in Blocks /\ loc.ba # 0
    BY <1>1, <2>1, GeometryAssumption DEF Blocks
  <2>3. /\ ni' \in Instance /\ ni'.sig_ba = loc.ba /\ ni'.block_mapping = ni.block_mapping
        /\ ni'.main_ba = ni.main_ba /\ ni'.backup_ba = ni.backup_ba
    BY <1>2, <2>1, <2>2 DEF Instance
  <2>4. /\ cell' \in [Blocks -> Content]
        /\ \A b \in Blocks : cell'[b] = Signature => MgmtStart < b
    <3>1. cell \in [Blocks -> Content] /\ \A b \in Blocks : cell[b] = Signature => MgmtStart < b
      BY <2>1 DEF IndInv, TypeOK, SigInv
    <3> QED BY <1>1, <1>2, <2>1, <3>1, ContentValues, GeometryAssumption
  <2>5. TypeOK'
    BY <1>0, <1>2, <2>1, <2>3, <2>4 DEF TypeOK, Label
  <2>6. \A lb \in LBlocks : ni.block_mapping[lb] # loc.ba
    BY <1>1, <2>1, GeometryAssumption DEF Instance, Mapping, Blocks, Unmapped
  <2>7. SigInv'
    BY <1>1, <1>2, <2>1, <2>2, <2>3, <2>4, <2>6, GeometryAssumption DEF SigInv
  <2>8. TableInv'
    BY <1>2, <2>1, <2>3 DEF TableInv, TablesIn, Starting
  <2>9. SearchInv' /\ FrameInv'
    BY <1>2 DEF SearchInv, FrameInv, RangeUser
  <2>10. MappedInv' /\ ReturnInv'
    BY <1>2, <2>1 DEF MappedInv, ReturnInv
  <2> QED BY <2>5, <2>7, <2>8, <2>9, <2>10 DEF IndInv
<1>3. CASE SignatureFails({Torn, Signature}) /\ pc' = "sig_erase"
  BY <1>0, <1>1, <1>3, SignatureFailsStep
<1> QED BY <1>2, <1>3 DEF SignatureProgram

\* A walk downwards over one good block ends below its start.
LEMMA WalkBelow ==
  ASSUME NEW bs, NEW ba \in Int, NEW limit \in Int,
         NEW t \in nmbm_block_walk_desc(bs, ba, 1, limit)
  PROVE  t \in limit + 1 .. ba - 1
<1> DEFINE good == GoodIn(bs, limit + 1 .. ba)
<1>1. t \in good /\ Cardinality({c \in good : c > t}) = 1
  BY DEF nmbm_block_walk_desc
<1>2. good \subseteq limit + 1 .. ba
  BY DEF GoodIn
<1>3. t # ba
  <2> SUFFICES ASSUME t = ba PROVE FALSE
    OBVIOUS
  <2>1. {c \in good : c > t} = {}
    BY <1>2
  <2> QED BY <1>1, <2>1, FS_EmptySet
<1> QED BY <1>1, <1>2, <1>3

\* nmbm_create_info_table: the spare blocks end below the signature.
LEMMA CreateInfoTableStep == IndInv /\ nmbm_create_info_table => IndInv'
<1> SUFFICES ASSUME IndInv, nmbm_create_info_table PROVE IndInv'
  OBVIOUS
<1>0. pc = "create" /\ expect' = NoExpectation /\ UNCHANGED <<cell, oob, boots>>
  BY DEF nmbm_create_info_table, chip
<1>1. expect' \in [LBlocks -> Expected]
  BY <1>0 DEF NoExpectation, Expected
<1>2. /\ ni \in Instance /\ loc \in Locals /\ ni.sig_ba # 0 /\ MgmtStart < ni.sig_ba
      /\ loc.start \in Area(ni) \cup {0} /\ loc.mk # "er_mapped"
  BY <1>0 DEF IndInv, TypeOK, SigInv, TableInv, ReturnInv
<1>3. CASE PowerOff
  BY <1>0, <1>1, <1>3, PowerOffStep DEF IndInv, TypeOK, SigInv
<1>4. CASE \E t \in nmbm_block_walk_desc(ni.block_state, ni.sig_ba, 1, MgmtStart) :
             /\ Rebuild(nmbm_generate_info_table_cache([ni EXCEPT !.top_ba = t]))
             /\ loc' = [loc EXCEPT !.rk = "create_map"]
  <2>1. PICK t \in nmbm_block_walk_desc(ni.block_state, ni.sig_ba, 1, MgmtStart) :
             /\ Rebuild(nmbm_generate_info_table_cache([ni EXCEPT !.top_ba = t]))
             /\ loc' = [loc EXCEPT !.rk = "create_map"]
    BY <1>4
  <2>2. ni.sig_ba \in Int /\ MgmtStart \in Int
    BY <1>2, GeometryAssumption DEF Instance, Blocks
  <2>3. t \in MgmtStart + 1 .. ni.sig_ba - 1
    BY <2>2, WalkBelow
  <2>4. t \in Area(ni) /\ t \in Int /\ t \in Nat
    BY <2>2, <2>3, GeometryAssumption DEF Area
  <2>5. PICK m : m = [ni EXCEPT !.top_ba = t]
    OBVIOUS
  <2>6. m \in Instance /\ m.sig_ba = ni.sig_ba /\ m.block_mapping = ni.block_mapping /\ m.top_ba = t
    BY <1>2, <2>4, <2>5 DEF Instance
  <2>7. PICK n : n = nmbm_generate_info_table_cache(m)
    OBVIOUS
  <2>8. n \in Instance /\ n.sig_ba = ni.sig_ba /\ n.block_mapping = ni.block_mapping /\ n.top_ba = t
    BY <2>6, <2>7, GenerateCache
  <2>9. /\ ni' = [n EXCEPT !.main_ba = 0, !.backup_ba = 0, !.map_ba = n.top_ba]
        /\ CallWrite(MgmtStart, n.top_ba, "rb_main")
    BY <2>1, <2>5, <2>7 DEF Rebuild
  <2>10. /\ loc' \in Locals /\ loc'.start = loc.start
         /\ loc'.lb = loc.lb /\ loc'.uk = loc.uk /\ loc'.mk = loc.mk
    BY <1>2, <2>1 DEF Locals, RebuildReturn
  <2>11. Keeps(ni', loc')
    <3>1. /\ ni' \in Instance /\ ni'.sig_ba = ni.sig_ba /\ ni'.block_mapping = ni.block_mapping
          /\ ni'.main_ba = 0 /\ ni'.backup_ba = 0 /\ ni'.map_ba = t /\ ni'.top_ba = t
      BY <2>4, <2>8, <2>9 DEF Instance
    <3> QED BY <1>2, <2>4, <2>10, <3>1 DEF Keeps, TablesIn, SparesIn, Area
  <2>12. /\ w' \in Frame /\ w'.i = 1 /\ MgmtStart <= w'.ba /\ w'.limit < ni.sig_ba
         /\ w'.k = "rb_main" /\ pc' = "write"
    BY <2>2, <2>3, <2>4, <2>8, <2>9, NewFrame, GeometryAssumption DEF CallWrite, RangeReturn
  <2> QED BY <1>0, <1>1, <1>2, <2>10, <2>11, <2>12, CallAnyStep
<1> QED BY <1>3, <1>4 DEF nmbm_create_info_table

\* The state in which nmbm_load_existing searches for info tables.
LEMMA Searching ==
  ASSUME IndInv, pc \in {"search1", "search2", "loaded"}
  PROVE  /\ ni \in Instance /\ loc \in Locals /\ ni.sig_ba # 0 /\ MgmtStart < ni.sig_ba
         /\ ni.sig_ba \in Nat /\ ni.sig_ba < BlockCount /\ loc.ba \in Nat /\ MgmtStart <= loc.ba
         /\ TablesIn(ni) /\ loc.start \in Area(ni) \cup {0}
         /\ loc.mk # "er_mapped" /\ loc.uk # "er_try"
<1>1. ni \in Instance /\ loc \in Locals
  BY DEF IndInv, TypeOK
<1>2. ni.sig_ba \in Nat /\ ni.sig_ba < BlockCount /\ loc.ba \in Nat
  BY <1>1, GeometryAssumption DEF Instance, Locals, Blocks
<1> QED BY <1>1, <1>2 DEF IndInv, SigInv, TableInv, SearchInv, ReturnInv

\* A step of the search preserves the invariant if it keeps the signature
\* and the tables found so far.
LEMMA SearchStep ==
  ASSUME IndInv, pc \in {"search1", "search2", "loaded"},
         UNCHANGED <<cell, oob, w, expect, boots>>,
         pc' \in {"search1", "search2", "loaded", "create"},
         ni' \in Instance, loc' \in Locals, ni'.sig_ba = ni.sig_ba,
         \A lb \in LBlocks : ni'.block_mapping[lb] # ni.sig_ba,
         TablesIn(ni'), loc'.start = loc.start, loc'.uk = loc.uk, loc'.mk = loc.mk,
         SearchInv'
  PROVE  IndInv'
<1>1. TypeOK'
  BY DEF IndInv, TypeOK, Label
<1>2. SigInv'
  BY Searching DEF IndInv, SigInv
<1>3. TableInv'
  BY Searching DEF TableInv, Starting, Area
<1>4. FrameInv' /\ MappedInv' /\ ReturnInv'
  BY Searching DEF FrameInv, MappedInv, ReturnInv, RangeUser
<1> QED BY <1>1, <1>2, <1>3, <1>4 DEF IndInv

\* A block without a loadable table: nmbm_try_load_info_table marks blocks
\* bad in memory and the search goes on with the next block.
LEMMA TryLoadFailsStep ==
  ASSUME IndInv, pc \in {"search1", "search2"}, TryLoadFails,
         UNCHANGED <<cell, oob, w, expect, boots>>
  PROVE  IndInv'
<1>1. PICK S : ni' = nmbm_set_block_state(ni, S, BLOCK_ST_BAD)
  BY DEF TryLoadFails
<1>2. loc' = [loc EXCEPT !.ba = @ + 1] /\ pc' = pc
  BY DEF TryLoadFails
<1>3. ni \in Instance /\ loc \in Locals /\ loc.ba \in Nat /\ MgmtStart <= loc.ba /\ TablesIn(ni)
  BY Searching
<1>4. /\ ni' \in Instance /\ ni'.sig_ba = ni.sig_ba /\ ni'.block_mapping = ni.block_mapping
      /\ ni'.main_ba = ni.main_ba /\ ni'.backup_ba = ni.backup_ba
  BY <1>1, <1>3, SetBlockState DEF BlockState
<1>5. loc.ba + 1 \in Nat /\ MgmtStart <= loc.ba + 1
  BY <1>3, GeometryAssumption
<1>6. loc' \in Locals
  BY <1>2, <1>3, <1>5 DEF Locals
<1>7. /\ loc'.ba = loc.ba + 1 /\ loc'.start = loc.start /\ loc'.uk = loc.uk /\ loc'.mk = loc.mk
      /\ loc'.main_top = loc.main_top /\ loc'.backup_top = loc.backup_top /\ loc'.end = loc.end
  BY <1>2, <1>3 DEF Locals
<1>8. \A lb \in LBlocks : ni'.block_mapping[lb] # ni.sig_ba
  BY <1>4, Searching DEF IndInv, SigInv
<1>9. TablesIn(ni')
  BY <1>3, <1>4 DEF TablesIn, Area
<1>10. SearchInv'
  BY <1>2, <1>4, <1>5, <1>7 DEF IndInv, SearchInv, Area
<1> QED BY <1>2, <1>4, <1>6, <1>7, <1>8, <1>9, <1>10, SearchStep

\* What nmbm_try_load_info_table found: a table below the signature that
\* maps no logic block to the signature.
LEMMA TryLoadFound ==
  ASSUME IndInv, pc \in {"search1", "search2"}, SearchMore, TryLoad(loc.ba),
         NEW t, t = cell[loc.ba].t
  PROVE  /\ t \in InfoTable /\ \A lb \in LBlocks : t.map[lb] # ni.sig_ba
         /\ t.write_count \in Nat /\ t.map \in Mapping /\ t.state \in [Blocks -> BlockState]
         /\ loc.ba \in Area(ni) /\ loc.ba + TableBlocks \in Area(ni)
         /\ MappingTop(t, loc.ba, ni.sig_ba) \in Area(ni)
<1>1. ni \in Instance /\ loc.ba \in Nat /\ ni.sig_ba \in Nat /\ MgmtStart <= loc.ba
      /\ ni.sig_ba < BlockCount
  BY Searching
<1>2. loc.ba < ni.sig_ba - TableBlocks
  BY DEF SearchMore
<1>3. loc.ba \in Blocks
  BY <1>1, <1>2, GeometryAssumption DEF Blocks
<1>4. cell[loc.ba] \in Content /\ IsHeader(cell[loc.ba])
  BY <1>3 DEF IndInv, TypeOK, TryLoad
<1>5. t \in InfoTable
  BY <1>4, HeaderTable
<1>6. \A lb \in LBlocks : t.map[lb] # ni.sig_ba
  BY DEF TryLoad, nmbm_check_info_table
<1>7. MappingTop(t, loc.ba, ni.sig_ba) \in Area(ni)
  BY <1>1, <1>2, <1>5, MappingTopRange DEF Area
<1>8. loc.ba \in Area(ni) /\ loc.ba + TableBlocks \in Area(ni)
  BY <1>1, <1>2, GeometryAssumption DEF Area
<1> QED BY <1>5, <1>6, <1>7, <1>8 DEF InfoTable

\* SearchFirst preserves the invariant.
LEMMA SearchFirstStep == IndInv /\ SearchFirst => IndInv'
<1> SUFFICES ASSUME IndInv, SearchFirst PROVE IndInv'
  OBVIOUS
<1>0. pc = "search1" /\ UNCHANGED <<cell, oob, expect, boots>>
  BY DEF SearchFirst, chip, hist
<1>1. /\ ni \in Instance /\ loc \in Locals /\ loc.ba \in Nat /\ ni.sig_ba \in Nat
      /\ TablesIn(ni) /\ MgmtStart <= loc.ba /\ ni.backup_ba = 0
  BY <1>0, Searching DEF IndInv, SearchInv
<1>2. CASE SearchMore /\ TryLoad(loc.ba) /\ pc' = "search2"
  <2>1. PICK t : t = cell[loc.ba].t
    OBVIOUS
  <2>2. /\ t \in InfoTable /\ \A lb \in LBlocks : t.map[lb] # ni.sig_ba
        /\ t.write_count \in Nat /\ t.map \in Mapping /\ t.state \in [Blocks -> BlockState]
        /\ loc.ba \in Area(ni) /\ loc.ba + TableBlocks \in Area(ni)
        /\ MappingTop(t, loc.ba, ni.sig_ba) \in Area(ni)
    BY <1>0, <1>2, <2>1, TryLoadFound
  <2>3. PICK top : top = MappingTop(t, loc.ba, ni.sig_ba)
    OBVIOUS
  <2>4. /\ ni' = Adopt([ni EXCEPT !.main_ba = loc.ba], t)
        /\ loc' = [loc EXCEPT !.ba = loc.ba + TableBlocks, !.end = loc.ba + TableBlocks,
                              !.main_wc = t.write_count, !.main_top = top]
        /\ w' = w
    BY <1>0, <1>2, <2>1, <2>3 DEF SearchFirst, TryLoadFails, PowerOff
  <2>5. top \in Area(ni) /\ top \in Int /\ loc.ba + TableBlocks \in Nat
        /\ MgmtStart <= loc.ba + TableBlocks
    BY <1>1, <2>2, <2>3, AreaNat
  <2>6. loc' \in Locals
    BY <1>1, <2>2, <2>4, <2>5 DEF Locals
  <2>7. /\ loc'.ba = loc.ba + TableBlocks /\ loc'.end = loc.ba + TableBlocks
        /\ loc'.main_top = top /\ loc'.start = loc.start /\ loc'.uk = loc.uk /\ loc'.mk = loc.mk
    BY <1>1, <2>4 DEF Locals
  <2>8. ni' \in Instance
    BY <1>1, <2>2, <2>4 DEF Instance, Adopt
  <2>9. /\ ni'.sig_ba = ni.sig_ba /\ ni'.main_ba = loc.ba /\ ni'.backup_ba = 0
        /\ ni'.block_mapping = t.map
    BY <1>1, <2>4 DEF Instance, Adopt
  <2>10. TablesIn(ni')
    BY <2>2, <2>9 DEF TablesIn, Area
  <2>11. loc.ba # 0
    BY <1>1, GeometryAssumption
  <2>12. SearchInv'
    BY <1>2, <2>2, <2>5, <2>7, <2>9, <2>11 DEF SearchInv, Area
  <2> QED BY <1>0, <1>2, <2>2, <2>4, <2>6, <2>7, <2>8, <2>9, <2>10, <2>12, SearchStep
<1>3. CASE TryLoadFails /\ UNCHANGED w
  BY <1>0, <1>3, TryLoadFailsStep
<1>4. CASE ni' = nmbm_scan_and_build(ni) /\ pc' = "create" /\ UNCHANGED <<w, loc>>
  <2>1. /\ ni' \in Instance /\ ni'.sig_ba = ni.sig_ba
        /\ \A lb \in LBlocks : ni'.block_mapping[lb] < MgmtStart
        /\ ni'.main_ba = ni.main_ba /\ ni'.backup_ba = ni.backup_ba
    BY <1>1, <1>4, ScanAndBuild
  <2>2. TablesIn(ni') /\ SearchInv'
    BY <1>1, <1>4, <2>1 DEF TablesIn, Area, SearchInv
  <2>3. \A lb \in LBlocks : ni'.block_mapping[lb] # ni.sig_ba
    BY <1>0, <2>1, Searching, GeometryAssumption
  <2> QED BY <1>0, <1>1, <1>4, <2>1, <2>2, <2>3, SearchStep
<1>5. CASE PowerOff
  BY <1>0, <1>5, PowerOffStep DEF IndInv, TypeOK, SigInv
<1> QED BY <1>0, <1>2, <1>3, <1>4, <1>5 DEF SearchFirst

\* SearchSecond preserves the invariant.
LEMMA SearchSecondStep == IndInv /\ SearchSecond => IndInv'
<1> SUFFICES ASSUME IndInv, SearchSecond PROVE IndInv'
  OBVIOUS
<1>0. pc = "search2" /\ UNCHANGED <<cell, oob, w, expect, boots>>
  BY DEF SearchSecond, chip, hist
<1>1. /\ ni \in Instance /\ loc \in Locals /\ loc.ba \in Nat /\ ni.sig_ba \in Nat
      /\ TablesIn(ni) /\ MgmtStart <= loc.ba
      /\ ni.main_ba # 0 /\ loc.main_top \in Area(ni) /\ loc.end \in Area(ni)
      /\ ni.backup_ba # 0 => loc.backup_top \in Area(ni)
      /\ \A lb \in LBlocks : ni.block_mapping[lb] # ni.sig_ba
  BY <1>0, Searching DEF IndInv, SearchInv, SigInv
<1>2. CASE SearchMore /\ TryLoad(loc.ba) /\ pc' = "loaded"
  <2>1. PICK t : t = cell[loc.ba].t
    OBVIOUS
  <2>2. /\ t \in InfoTable /\ \A lb \in LBlocks : t.map[lb] # ni.sig_ba
        /\ t.write_count \in Nat /\ t.map \in Mapping /\ t.state \in [Blocks -> BlockState]
        /\ loc.ba \in Area(ni) /\ loc.ba + TableBlocks \in Area(ni)
        /\ MappingTop(t, loc.ba, ni.sig_ba) \in Area(ni)
    BY <1>0, <1>2, <2>1, TryLoadFound
  <2>3. PICK top, n : top = MappingTop(t, loc.ba, ni.sig_ba) /\ n = [ni EXCEPT !.backup_ba = loc.ba]
    OBVIOUS
  <2>4. /\ ni' = IF t.write_count > ni.write_count THEN Adopt(n, t) ELSE n
        /\ loc' = [loc EXCEPT !.end = loc.ba + TableBlocks,
                              !.backup_wc = t.write_count, !.backup_top = top]
    BY <1>0, <1>2, <2>1, <2>3 DEF SearchSecond, TryLoadFails
  <2>5. top \in Area(ni) /\ top \in Int /\ loc.ba + TableBlocks \in Nat
    BY <1>1, <2>2, <2>3, AreaNat
  <2>6. loc' \in Locals
    BY <1>1, <2>2, <2>4, <2>5 DEF Locals
  <2>7. /\ loc'.ba = loc.ba /\ loc'.end = loc.ba + TableBlocks
        /\ loc'.main_top = loc.main_top /\ loc'.backup_top = top
        /\ loc'.start = loc.start /\ loc'.uk = loc.uk /\ loc'.mk = loc.mk
    BY <1>1, <2>4 DEF Locals
  <2>8. /\ n \in Instance /\ n.sig_ba = ni.sig_ba /\ n.main_ba = ni.main_ba
        /\ n.backup_ba = loc.ba /\ n.block_mapping = ni.block_mapping
    BY <1>1, <2>3 DEF Instance
  <2>9. /\ ni' \in Instance /\ ni'.sig_ba = ni.sig_ba /\ ni'.main_ba = ni.main_ba
        /\ ni'.backup_ba = loc.ba
        /\ ni'.block_mapping = t.map \/ ni'.block_mapping = ni.block_mapping
    BY <2>2, <2>4, <2>8 DEF Instance, Adopt
  <2>10. TablesIn(ni')
    BY <1>1, <2>2, <2>9 DEF TablesIn, Area
  <2>11. SearchInv'
    BY <1>1, <1>2, <2>2, <2>5, <2>7, <2>9 DEF SearchInv, Area
  <2>12. \A lb \in LBlocks : ni'.block_mapping[lb] # ni.sig_ba
    BY <1>1, <2>2, <2>9
  <2> QED BY <1>0, <1>2, <2>6, <2>7, <2>9, <2>10, <2>11, <2>12, SearchStep
<1>3. CASE TryLoadFails
  BY <1>0, <1>3, TryLoadFailsStep
<1>4. CASE pc' = "loaded" /\ UNCHANGED <<ni, loc>>
  <2>1. TablesIn(ni') /\ SearchInv'
    BY <1>1, <1>4 DEF TablesIn, Area, SearchInv
  <2> QED BY <1>0, <1>1, <1>4, <2>1, SearchStep
<1> QED BY <1>0, <1>2, <1>3, <1>4 DEF SearchSecond

\* nmbm_load_info_table preserves the invariant.
LEMMA LoadInfoTableStep == IndInv /\ nmbm_load_info_table => IndInv'
<1> SUFFICES ASSUME IndInv, nmbm_load_info_table PROVE IndInv'
  OBVIOUS
<1>0. pc = "loaded" /\ UNCHANGED <<cell, oob, loc, expect, boots>>
  BY DEF nmbm_load_info_table, chip, hist
<1>1. /\ ni \in Instance /\ loc \in Locals /\ ni.sig_ba \in Nat /\ ni.sig_ba # 0
      /\ TablesIn(ni) /\ loc.start \in Area(ni) \cup {0}
      /\ ni.main_ba # 0 /\ loc.main_top \in Area(ni) /\ loc.end \in Area(ni)
      /\ ni.backup_ba # 0 => loc.backup_top \in Area(ni)
      /\ loc.mk # "er_mapped" /\ loc.uk # "er_try"
  BY <1>0, Searching DEF IndInv, SearchInv
<1>2. PICK newer : newer = IF ni.backup_ba = 0 \/ loc.main_wc >= loc.backup_wc
                             THEN loc.main_top ELSE loc.backup_top
  OBVIOUS
<1>3. newer \in Area(ni)
  BY <1>1, <1>2
<1>4. PICK count \in Nat : count = DataBlockCount(ni.block_mapping)
  BY <1>1, DataBlockCountType DEF Instance
<1>5. PICK m : m = [ni EXCEPT !.top_ba = newer, !.map_ba = loc.end, !.data_count = count]
  OBVIOUS
<1>6. newer \in Int /\ loc.end \in Nat
  BY <1>1, <1>3, AreaNat
<1>7. m \in Instance
  BY <1>1, <1>4, <1>5, <1>6 DEF Instance
<1>8. /\ m.sig_ba = ni.sig_ba /\ m.block_mapping = ni.block_mapping /\ m.main_ba = ni.main_ba
      /\ m.backup_ba = ni.backup_ba /\ m.top_ba = newer /\ m.map_ba = loc.end
  BY <1>1, <1>5 DEF Instance
<1>9. PICK n : n = nmbm_generate_info_table_cache(m)
  OBVIOUS
<1>10. /\ n \in Instance /\ n.sig_ba = ni.sig_ba /\ n.block_mapping = ni.block_mapping
       /\ n.main_ba = ni.main_ba /\ n.backup_ba = ni.backup_ba
       /\ n.top_ba = newer /\ n.map_ba = loc.end
  BY <1>7, <1>8, <1>9, GenerateCache
<1>11. Keeps(n, loc)
  BY <1>1, <1>3, <1>10 DEF Keeps, TablesIn, SparesIn, Area
<1>12. PICK d : d = [n EXCEPT !.dirty = TRUE]
  OBVIOUS
<1>13. /\ d \in Instance /\ d.sig_ba = n.sig_ba /\ d.block_mapping = n.block_mapping
       /\ d.main_ba = n.main_ba /\ d.backup_ba = n.backup_ba
       /\ d.top_ba = n.top_ba /\ d.map_ba = n.map_ba
  BY <1>10, <1>12 DEF Instance
<1>14. Keeps(d, loc)
  BY <1>11, <1>13 DEF Keeps, TablesIn, SparesIn, Area
<1>15. n.main_ba \in Area(ni) /\ n.backup_ba \in Area(ni) \cup {0}
  BY <1>1, <1>10 DEF TablesIn
<1>16. \/ ni' = n /\ CallWrite(MgmtStart, n.main_ba, "rs_front")
       \/ n.backup_ba # 0 /\ ni' = d /\ CallWrite(n.main_ba, n.backup_ba, "us_main")
       \/ n.backup_ba # 0 /\ ni' = d /\ CallWrite(n.backup_ba, n.top_ba, "us_backup")
       \/ ni' = n /\ pc' = "load_ok" /\ UNCHANGED w
  BY <1>2, <1>4, <1>5, <1>9, <1>12 DEF nmbm_load_info_table
<1>17. CASE ni' = n /\ pc' = "load_ok" /\ UNCHANGED w
  <2>1. MappedInv' /\ ReturnInv'
    BY <1>0, <1>1, <1>17 DEF MappedInv, ReturnInv
  <2>2. pc' \in Label /\ pc' \notin RangeUser /\ pc' \notin Starting \ {"off"} /\ pc' # "idle"
    BY <1>17 DEF Label, RangeUser, Starting
  <2>3. expect' \in [LBlocks -> Expected]
    BY <1>0 DEF IndInv, TypeOK
  <2> QED BY <1>0, <1>1, <1>11, <1>17, <2>1, <2>2, <2>3, JumpStep
<1>18. ASSUME NEW a \in Area(ni) \cup {MgmtStart}, NEW l \in Area(ni),
              NEW k \in {"rs_front", "us_main", "us_backup"}, CallWrite(a, l, k),
              Keeps(ni', loc), k = "us_backup" => ni'.backup_ba # 0
       PROVE  IndInv'
  <2>1. a \in Nat /\ MgmtStart <= a /\ l \in Int /\ l < ni.sig_ba
    BY <1>1, AreaNat, GeometryAssumption
  <2>2. /\ w' \in Frame /\ w'.i = 1 /\ MgmtStart <= w'.ba /\ w'.limit < ni.sig_ba
        /\ w'.k = k /\ pc' = "write"
    BY <1>18, <2>1, NewFrame DEF CallWrite, RangeReturn
  <2> QED BY <1>0, <1>1, <1>18, <2>2, CallStep
<1> QED BY <1>3, <1>10, <1>11, <1>13, <1>14, <1>15, <1>16, <1>17, <1>18

\* PowerFails preserves the invariant: an interrupted program of the
\* signature leaves it where it may lie.
LEMMA PowerFailsStep == IndInv /\ PowerFails => IndInv'
<1> SUFFICES ASSUME IndInv, PowerFails PROVE IndInv'
  OBVIOUS
<1>0. PowerOff /\ UNCHANGED <<oob, expect, boots>>
  BY DEF PowerFails, hist
<1>1. cell \in [Blocks -> Content] /\ \A b \in Blocks : cell[b] = Signature => MgmtStart < b
  BY DEF IndInv, TypeOK, SigInv
<1>2. cell' \in [Blocks -> Content] /\ \A b \in Blocks : cell'[b] = Signature => MgmtStart < b
  <2>1. CASE cell' = cell
    BY <1>1, <2>1
  <2>2. CASE cell' # cell
    <3>1. PICK b \in InFlight, c \in {Torn, Signature} :
            /\ cell' = [cell EXCEPT ![b] = c]
            /\ c = Signature => pc = "sig_program"
      BY <2>2, ContentValues DEF PowerFails
    <3>2. b \in Blocks
      BY DEF InFlight
    <3>3. c = Signature => MgmtStart < b
      BY <3>1 DEF InFlight, IndInv, SigInv
    <3> QED BY <1>1, <3>1, <3>2, <3>3, ContentValues
  <2> QED BY <2>1, <2>2
<1> QED BY <1>0, <1>2, PowerOffStep DEF IndInv, TypeOK

-----------------------------------------------------------------------------
(* The invariant and its consequences.                                     *)

\* Every step of NMBM, and a power cut at any point, preserves the invariant.
LEMMA IndInvNext == IndInv /\ [Next]_vars => IndInv'
<1> SUFFICES ASSUME IndInv, [Next]_vars PROVE IndInv'
  OBVIOUS
<1>1. CASE DriverStep
  BY <1>1, WriteReturnStep, WriteEraseStep, WriteProgramStep, EraseRangeStep,
     RebuildMainStep, RebuildBackupStep, UpdateStep, UpdateBackupStep, UpdateMainStep,
     RescueTmpStep, RescueMainStep, MapBlockStep, MapFailedStep, WriteSignatureStep,
     SignatureProgramStep, CreateInfoTableStep, CreateMapStep, CreateMappedStep,
     CreateDoneStep, SearchFirstStep, SearchSecondStep, LoadInfoTableStep,
     UpdateSingleStep, RescueFrontStep, RescueNextStep, LoadDoneStep,
     EraseLogicBlockStep, EraseMappedStep, WriteLogicPageStep, BadDoneStep,
     OperationDoneStep, DetachedStep
     DEF DriverStep
<1>2. CASE UserStep
  BY <1>2, AttachStep, BeginStep, MarkBadStep, DetachStep DEF UserStep
<1>3. CASE PowerFails
  BY <1>3, PowerFailsStep
<1>4. CASE UNCHANGED vars
  <2>1. TypeOK' /\ SigInv'
    BY <1>4 DEF vars, IndInv, TypeOK, SigInv
  <2>2. TableInv' /\ SearchInv' /\ FrameInv'
    BY <1>4 DEF vars, IndInv, TableInv, TablesIn, SparesIn, Area, SearchInv, FrameInv
  <2>3. MappedInv' /\ ReturnInv'
    BY <1>4 DEF vars, IndInv, MappedInv, ReturnInv
  <2> QED BY <2>1, <2>2, <2>3 DEF IndInv
<1> QED BY <1>1, <1>2, <1>3, <1>4 DEF Next, Retired

\* The invariant holds in every reachable state.
THEOREM Invariance == Spec => []IndInv
BY IndInvInit, IndInvNext, PTL DEF Spec

\* Type correctness, for every geometry and every pattern of failures: the
\* struct nmbm_instance never holds an address or a state out of range.
THEOREM TypeCorrect == Spec => []TypeOK
<1>1. IndInv => TypeOK
  BY DEF IndInv
<1> QED BY <1>1, Invariance, PTL

\* nmbm_write_mgmt_range and nmbm_erase_range never leave the management
\* area: whatever blocks fail, they start at or above mgmt_start_ba and end
\* below the signature block.
THEOREM ManagementStaysInside == Spec => []TableWritesInside
<1>1. IndInv => TableWritesInside
  BY DEF IndInv, FrameInv, RangeUser, TableWritesInside
<1> QED BY <1>1, Invariance, PTL

\* No step but the one that writes the signature changes its block.
LEMMA SignatureStepSafe ==
  IndInv /\ [Next]_vars => (ni.sig_ba # 0 => cell'[ni.sig_ba] = cell[ni.sig_ba])
<1> SUFFICES ASSUME IndInv, [Next]_vars, ni.sig_ba # 0
             PROVE  cell'[ni.sig_ba] = cell[ni.sig_ba]
  OBVIOUS
<1>1. TypeOK /\ ni.sig_ba \in Blocks /\ cell \in [Blocks -> Content] /\ {Torn} \in SUBSET Content
  BY ContentValues DEF IndInv, TypeOK, Instance
<1>2. pc \notin {"sig_erase", "sig_program"}
  BY DEF IndInv, SigInv
<1>3. pc = "program" => w.ba < w.limit
  BY DEF IndInv, FrameInv, RangeUser
<1>4. pc \in {"write", "program", "erase"} /\ w.ba < w.limit =>
        w.ba \in Blocks /\ w.ba # ni.sig_ba
  BY InLoop
<1>5. ~WriteReturns => w.ba < w.limit
  BY <1>1, GeometryAssumption DEF WriteReturns, TypeOK, Frame
<1>6. pc \in {"er_try", "wr_program"} =>
        ni.block_mapping[loc.lb] \in Blocks /\ ni.block_mapping[loc.lb] # ni.sig_ba
  BY UserBlock DEF IndInv, MappedInv
<1>7. ASSUME NEW b \in Blocks, b # ni.sig_ba,
             FailBlock(b, {Torn}) \/ \E c : cell' = [cell EXCEPT ![b] = c]
      PROVE  cell'[ni.sig_ba] = cell[ni.sig_ba]
  <2>1. CASE FailBlock(b, {Torn})
    BY <1>1, <1>7, <2>1, FailBlockEffect
  <2>2. CASE \E c : cell' = [cell EXCEPT ![b] = c]
    BY <1>1, <1>7, <2>2
  <2> QED BY <1>7, <2>1, <2>2
<1>8. CASE WriteErase \/ WriteProgram \/ nmbm_erase_range
  <2>1. pc \in {"write", "program", "erase"}
    BY <1>8 DEF WriteErase, WriteProgram, nmbm_erase_range
  <2>2. \/ cell' = cell
        \/ /\ w.ba < w.limit
           /\ FailBlock(w.ba, {Torn}) \/ \E c : cell' = [cell EXCEPT ![w.ba] = c]
    BY <1>3, <1>5, <1>8 DEF WriteErase, WriteProgram, nmbm_erase_range, SkipBlock, EraseFails
  <2> QED BY <1>4, <1>7, <2>1, <2>2
<1>9. CASE nmbm_erase_logic_block \/ nmbm_write_logic_page
  <2>1. PICK pb : pb = ni.block_mapping[loc.lb]
    OBVIOUS
  <2>2. pc \in {"er_try", "wr_program"}
    BY <1>9 DEF nmbm_erase_logic_block, nmbm_write_logic_page
  <2>3. \/ cell' = cell
        \/ FailBlock(pb, {Torn}) \/ \E c : cell' = [cell EXCEPT ![pb] = c]
    BY <1>9, <2>1 DEF nmbm_erase_logic_block, nmbm_write_logic_page, chip
  <2> QED BY <1>6, <1>7, <2>1, <2>2, <2>3
<1>10. CASE PowerFails
  <2>1. \A b \in InFlight : b \in Blocks /\ b # ni.sig_ba
    BY <1>2, <1>3, <1>4, <1>5, <1>6 DEF InFlight
  <2>2. cell' = cell \/ \E b \in InFlight : \E c : cell' = [cell EXCEPT ![b] = c]
    BY <1>10 DEF PowerFails
  <2> QED BY <1>7, <2>1, <2>2
<1>11. CASE nmbm_write_signature \/ SignatureProgram
  BY <1>2, <1>11 DEF nmbm_write_signature, SignatureProgram
<1>12. CASE \/ WriteReturn \/ RebuildMain \/ RebuildBackup \/ nmbm_update_info_table
            \/ UpdateBackup \/ UpdateMain \/ RescueTmp \/ RescueMain
            \/ nmbm_map_block \/ MapFailed
  BY <1>12 DEF WriteReturn, RebuildMain, RebuildBackup, nmbm_update_info_table, UpdateBackup,
     UpdateMain, RescueTmp, RescueMain, nmbm_map_block, MapFailed, chip
<1>13. CASE \/ nmbm_create_info_table \/ CreateMap \/ CreateMapped \/ CreateDone
            \/ SearchFirst \/ SearchSecond \/ nmbm_load_info_table \/ UpdateSingle
            \/ RescueFront \/ RescueNext \/ LoadDone
  BY <1>13 DEF nmbm_create_info_table, CreateMap, CreateMapped, CreateDone, SearchFirst,
     SearchSecond, nmbm_load_info_table, UpdateSingle, RescueFront, RescueNext, LoadDone, chip
<1>14. CASE EraseMapped \/ BadDone \/ OperationDone \/ Detached \/ UserStep
  BY <1>14 DEF EraseMapped, BadDone, OperationDone, Detached, UserStep, nmbm_attach,
     EraseBegin, WriteBegin, nmbm_mark_bad_block, nmbm_detach, chip
<1>15. CASE Retired \/ UNCHANGED vars
  BY <1>15 DEF Retired, vars
<1> QED BY <1>8, <1>9, <1>10, <1>11, <1>12, <1>13, <1>14, <1>15 DEF Next, DriverStep

\* Once an instance knows where the signature is, nothing it does ever
\* changes that block, whatever fails: every later attach finds it.
THEOREM SignatureNeverTouched == Spec => SignatureSafe
<1>1. IndInv /\ [Next]_vars =>
        [ni.sig_ba # 0 => cell'[ni.sig_ba] = cell[ni.sig_ba]]_vars
  BY SignatureStepSafe
<1> QED BY <1>1, Invariance, PTL DEF Spec, SignatureSafe
=============================================================================
