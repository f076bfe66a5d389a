------------------------------- MODULE Nmbm -------------------------------
(***************************************************************************)
(* NMBM, the NAND mapped-block management of drivers/mtd/nmbm/nmbm-core.c, *)
(* as a small-step machine: each step is at most one erase or one program  *)
(* of one physical block, so that a power cut or a failing block can fall  *)
(* between any two of them.                                                *)
(*                                                                         *)
(* pc names the point the driver has reached; w is the frame of the        *)
(* innermost loop over blocks (nmbm_write_mgmt_range, nmbm_erase_range),   *)
(* loc the locals and the return points of the functions around it.  All   *)
(* of ni, w and loc is RAM; cell and oob are the chip.                     *)
(***************************************************************************)
EXTENDS NmbmFlash

CONSTANTS
  FactoryBad,    \* blocks with a factory bad mark
  Weak,          \* blocks whose erase or program may fail
  MarkMayFail,   \* whether writing a bad mark to the chip may fail too
  Markable,      \* logic blocks that their users mark bad
  CreateFlags,   \* the values NMBM_F_CREATE takes from one attach to the next
  PowerCut,      \* whether the power may fail at any step
  MaxBoots       \* bound: how many times the device is attached

ASSUME EnvironmentAssumption ==
  /\ FactoryBad \subseteq Blocks /\ Weak \subseteq Blocks
  /\ MarkMayFail \in BOOLEAN /\ PowerCut \in BOOLEAN
  /\ Markable \subseteq LBlocks /\ CreateFlags \subseteq BOOLEAN /\ MaxBoots \in Nat

VARIABLES
  cell,     \* what each physical block holds
  oob,      \* the blocks with a bad mark in their spare area
  ni,       \* struct nmbm_instance
  pc,       \* where the driver is
  w,        \* frame of the loop over management blocks
  loc,      \* locals and return points
  expect,   \* history: what the user of each logic block was last told
  boots     \* history: number of attaches

vars == <<cell, oob, ni, pc, w, loc, expect, boots>>
chip == <<cell, oob>>
hist == <<expect, boots>>

\* struct nmbm_instance.  dirty stands for the two counters
\* block_state_changed and block_mapping_changed: they are tested together
\* and cleared together.  A table address of 0 means the table is missing.
Instance ==
  [block_state: [Blocks -> BlockState], block_mapping: Mapping,
   dirty: BOOLEAN, write_count: Nat, cache: InfoTable,
   main_ba: Nat, backup_ba: Nat, map_ba: Nat, top_ba: Int,
   sig_ba: Blocks, data_count: Nat, protected: BOOLEAN, create: BOOLEAN]

AllGood == [b \in Blocks |-> BLOCK_ST_GOOD]
NoMapping == [lb \in LBlocks |-> Unmapped]

\* kzalloc and nmbm_init_structure
nmbm_init_structure ==
  [block_state |-> AllGood, block_mapping |-> NoMapping,
   dirty |-> FALSE, write_count |-> 0,
   cache |-> [write_count |-> 0, state |-> AllGood, map |-> NoMapping],
   main_ba |-> 0, backup_ba |-> 0, map_ba |-> 0, top_ba |-> 0,
   sig_ba |-> 0, data_count |-> 0, protected |-> FALSE, create |-> FALSE]

Label == {"off", "sig_erase", "sig_program", "create", "create_map",
          "create_mapped", "create_done", "search1", "search2", "loaded",
          "rs_front", "rs_next", "rs_erased", "us_main", "us_backup",
          "load_ok", "load_failed", "idle", "done", "bad_done",
          "write", "program", "erase", "update", "u_backup", "u_main",
          "rm_tmp", "rm_main", "rb_main", "rb_backup", "map", "map_failed",
          "er_try", "er_mapped", "wr_program", "detached"}

\* Where the loops over blocks, nmbm_rebuild_info_table, nmbm_update_info_table
\* and nmbm_map_block return to.
RangeReturn == {"off", "rb_main", "rb_backup", "u_backup", "u_main", "rm_tmp",
                "rm_main", "us_main", "us_backup", "rs_front", "rs_next",
                "rs_erased", "load_ok", "create_map", "update"}
RebuildReturn == {"off", "create_map", "update"}
UpdateReturn == {"off", "map_failed", "create_done", "er_try", "bad_done",
                 "done", "detached"}
MapReturn == {"off", "create_mapped", "er_mapped"}

Frame == [ba: Nat, limit: Int, i: Nat \ {0}, start: Nat, k: RangeReturn]
W0 == [ba |-> 0, limit |-> 0, i |-> 1, start |-> 0, k |-> "off"]

Locals == [lb: LBlocks, pb: Blocks, ba: Nat, start: Nat, end: Nat,
           main_wc: Nat, main_top: Int, backup_wc: Nat, backup_top: Int,
           ok: BOOLEAN, rk: RebuildReturn, uk: UpdateReturn, mk: MapReturn]
L0 == [lb |-> 0, pb |-> 0, ba |-> 0, start |-> 0, end |-> 0,
       main_wc |-> 0, main_top |-> 0, backup_wc |-> 0, backup_top |-> 0,
       ok |-> TRUE, rk |-> "off", uk |-> "off", mk |-> "off"]

Expected == {"any", "blank", "data", "bad"}
NoExpectation == [lb \in LBlocks |-> "any"]

Init ==
  /\ cell = [b \in Blocks |-> Blank] /\ oob = FactoryBad
  /\ ni = nmbm_init_structure /\ pc = "off" /\ w = W0 /\ loc = L0
  /\ expect = NoExpectation /\ boots = 0

-----------------------------------------------------------------------------
(* Helpers on the instance.                                                *)

Good(b) == ni.block_state[b] = BLOCK_ST_GOOD

\* nmbm_set_block_state, for every block of a set
nmbm_set_block_state(n, S, state) ==
  [n EXCEPT !.block_state = [b \in Blocks |-> IF b \in S THEN state ELSE @[b]],
            !.dirty = @ \/ \E b \in S : n.block_state[b] # state]

nmbm_mark_tables_clean(n) == [n EXCEPT !.dirty = FALSE]

\* Mutant: a changed table keeps its write count.
KeepWriteCount(n) ==
  [n EXCEPT !.cache = [write_count |-> n.write_count, state |-> n.block_state,
                       map |-> n.block_mapping]]

\* nmbm_generate_info_table_cache
nmbm_generate_info_table_cache(n) ==
  LET wc == IF n.dirty THEN n.write_count + 1 ELSE n.write_count
  IN  [n EXCEPT !.write_count = wc,
                !.cache = [write_count |-> wc, state |-> n.block_state,
                           map |-> n.block_mapping]]

\* nmbm_scan_badblocks and nmbm_build_mapping_table
nmbm_scan_and_build(n) ==
  LET s == nmbm_set_block_state(n, oob, BLOCK_ST_BAD)
  IN  [s EXCEPT !.block_mapping = nmbm_build_mapping_table(s.block_state),
                !.data_count = Cardinality(Usable(s.block_state))]

\* nmbm_try_reserve_blocks for a table that must end at mapping_blocks_top_ba
Reserve(n, ba) ==
  nmbm_try_reserve_blocks(n.block_state, ba, n.top_ba - TableBlocks)

-----------------------------------------------------------------------------
(* Control: calls and returns.                                             *)

\* nmbm_write_info_table(ni, ba, limit, ...), returning to k
CallWrite(ba, limit, k) ==
  /\ w' = [ba |-> ba, limit |-> limit, i |-> 1, start |-> 0, k |-> k]
  /\ pc' = "write"

\* nmbm_erase_range(ni, ba, limit), returning to k
CallErase(ba, limit, k) ==
  /\ w' = [ba |-> ba, limit |-> limit, i |-> 1, start |-> 0, k |-> k]
  /\ pc' = "erase"

\* What nmbm_write_info_table returned: the table lies in start .. end - 1.
Written == w.i > TableBlocks
TableStart == w.start
TableEnd == w.ba

PowerOff == ni' = nmbm_init_structure /\ pc' = "off" /\ w' = W0 /\ loc' = L0

\* Mutant: a block that failed gets no bad mark on the chip.
FailUnmarked(b, junk) ==
  /\ b \in Weak
  /\ cell' = [cell EXCEPT ![b] = Torn]
  /\ UNCHANGED oob

\* A failed erase or program of block b, after which the driver marks the
\* block bad on the chip (nmbm_mark_phys_bad_block).  Without that mark what
\* the block still holds matters: its old content or junk.
FailBlock(b, junk) ==
  /\ b \in Weak
  /\ \/ /\ cell' = [cell EXCEPT ![b] = Torn]
        /\ oob' = oob \cup {b}
     \/ /\ MarkMayFail
        /\ cell' \in {cell} \cup {[cell EXCEPT ![b] = c] : c \in junk}
        /\ UNCHANGED oob

-----------------------------------------------------------------------------
(* nmbm_write_mgmt_range and nmbm_erase_range, one block per step.         *)

WriteReturns == Written \/ w.ba >= w.limit

NextBlock == w' = [w EXCEPT !.ba = @ + 1]

\* A block that is not good in memory is skipped; one that carries a bad
\* mark nobody recorded is recorded and skipped.
SkipBlock ==
  /\ ~Good(w.ba) \/ w.ba \in oob
  /\ ni' = IF Good(w.ba) THEN nmbm_set_block_state(ni, {w.ba}, BLOCK_ST_BAD) ELSE ni
  /\ NextBlock
  /\ UNCHANGED <<cell, oob, pc>>

EraseFails ==
  /\ FailBlock(w.ba, {Torn})
  /\ ni' = nmbm_set_block_state(ni, {w.ba}, BLOCK_ST_BAD)
  /\ NextBlock

WriteReturn ==
  /\ pc = "write" /\ WriteReturns
  /\ pc' = w.k
  /\ UNCHANGED <<cell, oob, ni, w, loc, hist>>

WriteErase ==
  /\ pc = "write" /\ ~WriteReturns
  /\ \/ SkipBlock
     \/ /\ Good(w.ba) /\ w.ba \notin oob
        /\ cell' = [cell EXCEPT ![w.ba] = Blank]
        /\ pc' = "program"
        /\ UNCHANGED <<oob, ni, w>>
     \/ /\ Good(w.ba) /\ w.ba \notin oob
        /\ EraseFails
        /\ UNCHANGED pc
  /\ UNCHANGED <<loc, hist>>

WriteProgram ==
  /\ pc = "program"
  /\ pc' = "write"
  /\ \/ /\ cell' = [cell EXCEPT ![w.ba] = Chunk(w.i, ni.cache)]
        /\ w' = [w EXCEPT !.start = IF w.i = 1 THEN w.ba ELSE @,
                          !.i = @ + 1, !.ba = @ + 1]
        /\ UNCHANGED <<oob, ni>>
     \/ EraseFails
  /\ UNCHANGED <<loc, hist>>

nmbm_erase_range ==
  /\ pc = "erase"
  /\ \/ /\ w.ba >= w.limit
        /\ pc' = w.k
        /\ UNCHANGED <<cell, oob, ni, w>>
     \/ /\ w.ba < w.limit
        /\ SkipBlock
     \/ /\ w.ba < w.limit /\ Good(w.ba) /\ w.ba \notin oob
        /\ \/ /\ cell' = [cell EXCEPT ![w.ba] = Blank]
              /\ NextBlock
              /\ UNCHANGED <<oob, ni>>
           \/ EraseFails
        /\ UNCHANGED pc
  /\ UNCHANGED <<loc, hist>>

-----------------------------------------------------------------------------
(* nmbm_rebuild_info_table: both tables from scratch; returns to loc.rk.   *)

Rebuild(n) ==
  /\ ni' = [n EXCEPT !.main_ba = 0, !.backup_ba = 0, !.map_ba = n.top_ba]
  /\ CallWrite(MgmtStart, n.top_ba, "rb_main")

\* Mutant: the backup table of a rebuild may run up to the signature.
RebuildPastTop ==
  /\ pc = "rb_main" /\ Written
  /\ ni' = nmbm_mark_tables_clean([ni EXCEPT !.main_ba = TableStart, !.map_ba = TableEnd])
  /\ \E next \in Reserve(ni, TableEnd) : CallWrite(next, ni.sig_ba, "rb_backup")
  /\ loc' = [loc EXCEPT !.end = TableEnd]
  /\ UNCHANGED <<chip, hist>>

\* Without any table the instance becomes protected: creating it fails, and
\* so does the update that asked for it.
RebuildMain ==
  /\ pc = "rb_main"
  /\ \/ /\ ~Written
        /\ ni' = [ni EXCEPT !.protected = TRUE]
        /\ loc' = [loc EXCEPT !.ok = FALSE]
        /\ pc' = IF loc.rk = "create_map" THEN "create_done" ELSE loc.uk
        /\ UNCHANGED w
     \/ /\ Written
        /\ ni' = nmbm_mark_tables_clean([ni EXCEPT !.main_ba = TableStart, !.map_ba = TableEnd])
        /\ \/ /\ Reserve(ni, TableEnd) = {}
              /\ pc' = loc.rk
              /\ UNCHANGED <<w, loc>>
           \/ \E next \in Reserve(ni, TableEnd) :
                /\ CallWrite(next, ni.top_ba, "rb_backup")
                /\ loc' = [loc EXCEPT !.end = TableEnd]
  /\ UNCHANGED <<chip, hist>>

RebuildBackup ==
  /\ pc = "rb_backup"
  /\ \/ /\ ~Written
        /\ pc' = loc.rk
        /\ UNCHANGED <<ni, w>>
     \/ /\ Written
        /\ ni' = [ni EXCEPT !.backup_ba = TableStart, !.map_ba = TableEnd]
        /\ CallErase(loc.end, TableStart, loc.rk)
  /\ UNCHANGED <<chip, loc, hist>>

-----------------------------------------------------------------------------
(* nmbm_update_info_table: repeated while something changed; returns to    *)
(* loc.uk with its result in loc.ok.                                       *)

\* The label write_main_table of nmbm_update_info_table_once.
WriteMain(n, limit) ==
  IF n.main_ba = 0
    THEN Rebuild(n) /\ loc' = [loc EXCEPT !.rk = "update"]
    ELSE ni' = n /\ CallWrite(n.main_ba, limit, "u_main") /\ UNCHANGED loc

nmbm_update_info_table ==
  /\ pc = "update"
  /\ \/ /\ ni.protected \/ ~ni.dirty
        /\ pc' = loc.uk
        /\ loc' = [loc EXCEPT !.ok = TRUE]
        /\ UNCHANGED <<ni, w>>
     \/ /\ ~ni.protected /\ ni.dirty
        /\ LET n == nmbm_generate_info_table_cache(ni)
           IN  IF n.backup_ba = 0
                 THEN WriteMain(n, n.top_ba)
                 ELSE /\ ni' = n
                      /\ CallWrite(n.backup_ba, n.top_ba, "u_backup")
                      /\ UNCHANGED loc
  /\ UNCHANGED <<chip, hist>>

\* Mutant: the spare blocks still start where the old backup table ended.
UpdateBackupKeepsMap ==
  /\ pc = "u_backup"
  /\ IF Written
       THEN WriteMain(nmbm_mark_tables_clean([ni EXCEPT !.backup_ba = TableStart]),
                      TableStart)
       ELSE WriteMain([ni EXCEPT !.map_ba = ni.backup_ba, !.backup_ba = 0], ni.top_ba)
  /\ UNCHANGED <<chip, hist>>

UpdateBackup ==
  /\ pc = "u_backup"
  /\ IF Written
       THEN WriteMain(nmbm_mark_tables_clean(
                        [ni EXCEPT !.backup_ba = TableStart, !.map_ba = TableEnd]),
                      TableStart)
       ELSE WriteMain([ni EXCEPT !.map_ba = ni.backup_ba, !.backup_ba = 0], ni.top_ba)
  /\ UNCHANGED <<chip, hist>>

\* The backup table is all there is: it becomes the main table.
BackupBecomesMain(n) == [n EXCEPT !.main_ba = n.backup_ba, !.backup_ba = 0]

UpdateMain ==
  /\ pc = "u_main"
  /\ \/ /\ Written
        /\ ni' = nmbm_mark_tables_clean(
                   [ni EXCEPT !.main_ba = TableStart,
                              !.map_ba = IF ni.backup_ba = 0 THEN TableEnd ELSE @])
        /\ pc' = "update"
        /\ UNCHANGED <<w, loc>>
     \/ /\ ~Written /\ ni.backup_ba = 0
        /\ Rebuild(ni)
        /\ loc' = [loc EXCEPT !.rk = "update"]
     \/ /\ ~Written /\ ni.backup_ba # 0      \* nmbm_rescue_main_info_table
        /\ \/ /\ Reserve(ni, ni.map_ba) = {}
              /\ ni' = BackupBecomesMain(ni)
              /\ pc' = "update"
              /\ UNCHANGED <<w, loc>>
           \/ \E write_ba \in Reserve(ni, ni.map_ba) :
                /\ CallWrite(write_ba, ni.top_ba, "rm_tmp")
                /\ loc' = [loc EXCEPT !.ba = write_ba]
                /\ UNCHANGED ni
  /\ UNCHANGED <<chip, hist>>

\* Mutants: the temporary table is retried at the same block; the spare
\* blocks still start behind the old backup table.
RescueTmpStepping(map_ba, back) ==
  /\ pc = "rm_tmp"
  /\ \/ /\ Written
        /\ ni' = [ni EXCEPT !.map_ba = map_ba]
        /\ loc' = [loc EXCEPT !.start = TableStart]
        /\ CallWrite(MgmtStart, TableStart, "rm_main")
     \/ /\ ~Written /\ loc.ba > ni.map_ba
        /\ CallWrite(loc.ba - back, ni.top_ba, "rm_tmp")
        /\ loc' = [loc EXCEPT !.ba = @ - back]
        /\ UNCHANGED ni
     \/ /\ ~Written /\ loc.ba <= ni.map_ba
        /\ ni' = BackupBecomesMain(ni)
        /\ pc' = "update"
        /\ UNCHANGED <<w, loc>>
  /\ UNCHANGED <<chip, hist>>

RescueTmpSameBlock == RescueTmpStepping(TableEnd, 0)
RescueTmpKeepsMap == RescueTmpStepping(ni.map_ba, 1)

\* The temporary table of nmbm_rescue_main_info_table, retried one block
\* lower each time; then the main table at the start of the management area.
RescueTmp ==
  /\ pc = "rm_tmp"
  /\ \/ /\ Written
        /\ ni' = [ni EXCEPT !.map_ba = TableEnd]
        /\ loc' = [loc EXCEPT !.start = TableStart]
        /\ CallWrite(MgmtStart, TableStart, "rm_main")
     \/ /\ ~Written /\ loc.ba > ni.map_ba
        /\ CallWrite(loc.ba - 1, ni.top_ba, "rm_tmp")
        /\ loc' = [loc EXCEPT !.ba = @ - 1]
        /\ UNCHANGED ni
     \/ /\ ~Written /\ loc.ba <= ni.map_ba
        /\ ni' = BackupBecomesMain(ni)
        /\ pc' = "update"
        /\ UNCHANGED <<w, loc>>
  /\ UNCHANGED <<chip, hist>>

\* The write limit is the start of the temporary table, so the main table
\* never overwrites it: the code after that test is unreachable.
RescueMain ==
  /\ pc = "rm_main"
  /\ ni' = nmbm_mark_tables_clean(
             IF Written THEN [ni EXCEPT !.main_ba = TableStart, !.backup_ba = loc.start]
                        ELSE [ni EXCEPT !.main_ba = loc.start, !.backup_ba = 0])
  /\ pc' = "update"
  /\ UNCHANGED <<chip, w, loc, hist>>

-----------------------------------------------------------------------------
(* nmbm_map_block(ni, loc.lb): returns to loc.mk with its result in loc.ok. *)

\* Mutants of nmbm_map_block: the top of the spare blocks stays; the walk
\* starts one block too high; the change is not counted.
MapSpare(from, top, dirty) ==
  /\ pc = "map" /\ ni.map_ba # ni.top_ba
  /\ \E pb \in nmbm_block_walk_desc(ni.block_state, from, 0, ni.map_ba) :
       ni' = [ni EXCEPT !.block_mapping[loc.lb] = pb, !.top_ba = top, !.dirty = @ \/ dirty]
  /\ loc' = [loc EXCEPT !.ok = TRUE]
  /\ pc' = loc.mk
  /\ UNCHANGED <<chip, w, hist>>

MapKeepsTop == MapSpare(ni.top_ba, ni.top_ba, TRUE)
MapAboveTop == MapSpare(ni.top_ba + 1, ni.top_ba - 1, TRUE)
MapUncounted == MapSpare(ni.top_ba, ni.top_ba - 1, FALSE)

nmbm_map_block ==
  /\ pc = "map"
  /\ LET spare == nmbm_block_walk_desc(ni.block_state, ni.top_ba, 0, ni.map_ba)
     IN  \/ /\ ni.map_ba = ni.top_ba
            /\ loc' = [loc EXCEPT !.ok = FALSE]
            /\ pc' = loc.mk
            /\ UNCHANGED ni
         \/ /\ ni.map_ba # ni.top_ba /\ spare = {}
            /\ loc' = [loc EXCEPT !.uk = "map_failed"]
            /\ pc' = "update"
            /\ UNCHANGED ni
         \/ /\ ni.map_ba # ni.top_ba
            /\ \E pb \in spare :
                 ni' = [ni EXCEPT !.block_mapping[loc.lb] = pb,
                                  !.top_ba = @ - 1, !.dirty = TRUE]
            /\ loc' = [loc EXCEPT !.ok = TRUE]
            /\ pc' = loc.mk
  /\ UNCHANGED <<chip, w, hist>>

MapFailed ==
  /\ pc = "map_failed"
  /\ ni' = [ni EXCEPT !.top_ba = ni.map_ba]
  /\ loc' = [loc EXCEPT !.ok = FALSE]
  /\ pc' = loc.mk
  /\ UNCHANGED <<chip, w, hist>>

-----------------------------------------------------------------------------
(* Attaching to a chip without a signature: nmbm_create_new.               *)

nmbm_attach ==
  /\ pc = "off" /\ boots < MaxBoots
  /\ boots' = boots + 1
  /\ \E create \in CreateFlags :
       LET n == [nmbm_init_structure EXCEPT !.create = create]
           found == nmbm_find_signature(cell, oob)
       IN  \/ /\ found # {}
              /\ ni' = [n EXCEPT !.sig_ba = Max(found), !.data_count = MgmtStart,
                                 !.top_ba = Max(found) - 1]
              /\ loc' = [L0 EXCEPT !.ba = MgmtStart]
              /\ pc' = "search1"
           \/ /\ found = {} /\ create
              /\ ni' = nmbm_scan_and_build(n)
              /\ loc' = [L0 EXCEPT !.ba = BlockCount - 1]
              /\ pc' = "sig_erase"
           \/ /\ found = {} /\ ~create
              /\ UNCHANGED <<ni, loc, pc>>
  /\ UNCHANGED <<chip, w, expect>>

NextSignatureBlock == loc' = [loc EXCEPT !.ba = @ - 1]

SignatureFails(junk) ==
  /\ FailBlock(loc.ba, junk)
  /\ ni' = nmbm_set_block_state(ni, {loc.ba}, BLOCK_ST_BAD)
  /\ NextSignatureBlock

\* The scan has just recorded every bad mark, so a good block carries none.
nmbm_write_signature ==
  /\ pc = "sig_erase"
  /\ \/ /\ loc.ba <= MgmtStart
        /\ PowerOff
        /\ UNCHANGED chip
     \/ /\ loc.ba > MgmtStart /\ ~Good(loc.ba)
        /\ NextSignatureBlock
        /\ UNCHANGED <<chip, ni, pc, w>>
     \/ /\ loc.ba > MgmtStart /\ Good(loc.ba)
        /\ \/ /\ cell' = [cell EXCEPT ![loc.ba] = Blank]
              /\ pc' = "sig_program"
              /\ UNCHANGED <<oob, ni, loc>>
           \/ /\ SignatureFails({Torn})
              /\ UNCHANGED pc
        /\ UNCHANGED w
  /\ UNCHANGED hist

\* Every page gets a copy and one readable copy is enough to find it.
SignatureProgram ==
  /\ pc = "sig_program"
  /\ \/ /\ cell' = [cell EXCEPT ![loc.ba] = Signature]
        /\ ni' = [ni EXCEPT !.sig_ba = loc.ba]
        /\ pc' = "create"
        /\ UNCHANGED <<oob, loc>>
     \/ /\ SignatureFails({Torn, Signature})
        /\ pc' = "sig_erase"
  /\ UNCHANGED <<w, hist>>

\* All earlier contents are given up.
nmbm_create_info_table ==
  /\ pc = "create"
  /\ LET top == nmbm_block_walk_desc(ni.block_state, ni.sig_ba, 1, MgmtStart)
     IN  \/ /\ top = {}
            /\ PowerOff
         \/ \E t \in top :
              /\ Rebuild(nmbm_generate_info_table_cache([ni EXCEPT !.top_ba = t]))
              /\ loc' = [loc EXCEPT !.rk = "create_map"]
  /\ expect' = NoExpectation
  /\ UNCHANGED <<chip, boots>>

\* Mutant: one logic block too many.
CreateMapOneMore ==
  /\ pc = "create_map"
  /\ ni.data_count <= MgmtStart
  /\ loc' = [loc EXCEPT !.lb = ni.data_count, !.mk = "create_mapped"]
  /\ pc' = "map"
  /\ UNCHANGED <<chip, ni, w, hist>>

\* The loop that maps the logic blocks lost to bad blocks of the data area.
CreateMap ==
  /\ pc = "create_map"
  /\ \/ /\ ni.data_count < MgmtStart
        /\ loc' = [loc EXCEPT !.lb = ni.data_count, !.mk = "create_mapped"]
        /\ pc' = "map"
     \/ /\ ni.data_count >= MgmtStart
        /\ loc' = [loc EXCEPT !.uk = "create_done"]
        /\ pc' = "update"
  /\ UNCHANGED <<chip, ni, w, hist>>

CreateMapped ==
  /\ pc = "create_mapped"
  /\ \/ /\ loc.ok
        /\ ni' = [ni EXCEPT !.data_count = @ + 1]
        /\ pc' = "create_map"
        /\ UNCHANGED loc
     \/ /\ ~loc.ok
        /\ loc' = [loc EXCEPT !.uk = "create_done"]
        /\ pc' = "update"
        /\ UNCHANGED ni
  /\ UNCHANGED <<chip, w, hist>>

CreateDone ==
  /\ pc = "create_done"
  /\ \/ /\ loc.ok
        /\ pc' = "done"
        /\ UNCHANGED <<ni, w, loc>>
     \/ /\ ~loc.ok
        /\ PowerOff
  /\ UNCHANGED <<chip, hist>>

-----------------------------------------------------------------------------
(* Attaching to a chip with a signature: nmbm_load_existing.               *)

TableRange(ba) == ba .. ba + TableBlocks - 1

\* nmbm_try_load_info_table succeeds at ba.
TryLoad(ba) ==
  /\ IsHeader(cell[ba]) /\ TableAt(cell, ba, cell[ba].t)
  /\ \A b \in TableRange(ba) : Good(b) /\ b \notin oob
  /\ nmbm_check_info_table(cell[ba].t, ba, ni.sig_ba)

\* Where it fails, the blocks it read with an ECC error (any torn block may
\* give one) and the ones with a bad mark become bad in memory; it stops at
\* the first block it can read if no table starts there.
TryLoadMarks(ba, ecc) ==
  LET unreadable == {b \in TableRange(ba) : ~Good(b) \/ b \in oob \cup ecc}
      readable == TableRange(ba) \ unreadable
      visited == IF readable = {} THEN TableRange(ba)
                 ELSE IF IsHeader(cell[Min(readable)]) THEN TableRange(ba)
                 ELSE ba .. Min(readable)
  IN  unreadable \cap visited \cap {b \in Blocks : Good(b)}

TryLoadFails ==
  /\ ~TryLoad(loc.ba)
  /\ \E ecc \in SUBSET {b \in TableRange(loc.ba) : cell[b] = Torn} :
       ni' = nmbm_set_block_state(ni, TryLoadMarks(loc.ba, ecc), BLOCK_ST_BAD)
  /\ loc' = [loc EXCEPT !.ba = @ + 1]
  /\ UNCHANGED pc

\* The loaded table replaces what is in memory, the marks of the search too.
Adopt(n, t) == [n EXCEPT !.block_state = t.state, !.block_mapping = t.map,
                         !.write_count = t.write_count]

SearchMore == loc.ba < ni.sig_ba - TableBlocks

SearchFirst ==
  /\ pc = "search1"
  /\ \/ /\ SearchMore /\ TryLoad(loc.ba)
        /\ LET t == cell[loc.ba].t
           IN  /\ ni' = Adopt([ni EXCEPT !.main_ba = loc.ba], t)
               /\ loc' = [loc EXCEPT !.ba = loc.ba + TableBlocks,
                                     !.end = loc.ba + TableBlocks,
                                     !.main_wc = t.write_count,
                                     !.main_top = MappingTop(t, loc.ba, ni.sig_ba)]
        /\ pc' = "search2"
        /\ UNCHANGED w
     \/ /\ SearchMore
        /\ TryLoadFails
        /\ UNCHANGED w
     \/ /\ ~SearchMore /\ ni.create
        /\ ni' = nmbm_scan_and_build(ni)
        /\ pc' = "create"
        /\ UNCHANGED <<w, loc>>
     \/ /\ ~SearchMore /\ ~ni.create
        /\ PowerOff
  /\ UNCHANGED <<chip, hist>>

SearchSecond ==
  /\ pc = "search2"
  /\ \/ /\ SearchMore /\ TryLoad(loc.ba)
        /\ LET t == cell[loc.ba].t
               n == [ni EXCEPT !.backup_ba = loc.ba]
           IN  /\ ni' = IF t.write_count > ni.write_count THEN Adopt(n, t) ELSE n
               /\ loc' = [loc EXCEPT !.end = loc.ba + TableBlocks,
                                     !.backup_wc = t.write_count,
                                     !.backup_top = MappingTop(t, loc.ba, ni.sig_ba)]
        /\ pc' = "loaded"
     \/ /\ SearchMore
        /\ TryLoadFails
     \/ /\ ~SearchMore
        /\ pc' = "loaded"
        /\ UNCHANGED <<ni, loc>>
  /\ UNCHANGED <<chip, w, hist>>

\* Mutant: the missing table may overwrite the only one.
LoadOverTable ==
  /\ pc = "loaded" /\ ni.backup_ba = 0
  /\ ni' = nmbm_generate_info_table_cache(
             [ni EXCEPT !.top_ba = loc.main_top, !.map_ba = loc.end,
                        !.data_count = DataBlockCount(ni.block_mapping)])
  /\ CallWrite(MgmtStart, ni.main_ba + TableBlocks, "rs_front")
  /\ UNCHANGED <<chip, loc, hist>>

\* The rest of nmbm_load_info_table: the tables are brought to the same
\* write count, or the missing one is written.
nmbm_load_info_table ==
  /\ pc = "loaded"
  /\ LET newer == IF ni.backup_ba = 0 \/ loc.main_wc >= loc.backup_wc
                    THEN loc.main_top ELSE loc.backup_top
         n == nmbm_generate_info_table_cache(
                [ni EXCEPT !.top_ba = newer, !.map_ba = loc.end,
                           !.data_count = DataBlockCount(ni.block_mapping)])
     IN  \/ /\ n.backup_ba = 0             \* nmbm_rescue_single_info_table
            /\ ni' = n
            /\ CallWrite(MgmtStart, n.main_ba, "rs_front")
         \/ /\ n.backup_ba # 0 /\ loc.main_wc < loc.backup_wc
            /\ ni' = [n EXCEPT !.dirty = TRUE]
            /\ CallWrite(n.main_ba, n.backup_ba, "us_main")
         \/ /\ n.backup_ba # 0 /\ loc.main_wc > loc.backup_wc
            /\ ni' = [n EXCEPT !.dirty = TRUE]
            /\ CallWrite(n.backup_ba, n.top_ba, "us_backup")
         \/ /\ n.backup_ba # 0 /\ loc.main_wc = loc.backup_wc
            /\ ni' = n
            /\ pc' = "load_ok"
            /\ UNCHANGED w
  /\ UNCHANGED <<chip, loc, hist>>

\* nmbm_update_single_info_table after its write
UpdateSingle ==
  /\ \/ /\ pc = "us_main" /\ Written
        /\ ni' = nmbm_mark_tables_clean([ni EXCEPT !.main_ba = TableStart])
        /\ pc' = "load_ok"
        /\ UNCHANGED <<w, loc>>
     \/ /\ pc = "us_main" /\ ~Written
        /\ ni' = BackupBecomesMain(ni)
        /\ CallWrite(MgmtStart, ni.backup_ba, "rs_front")
        /\ UNCHANGED loc
     \/ /\ pc = "us_backup" /\ Written
        /\ ni' = nmbm_mark_tables_clean([ni EXCEPT !.backup_ba = TableStart,
                                                   !.map_ba = TableEnd])
        /\ pc' = "load_ok"
        /\ UNCHANGED <<w, loc>>
     \/ /\ pc = "us_backup" /\ ~Written
        /\ ni' = [ni EXCEPT !.map_ba = ni.backup_ba, !.backup_ba = 0]
        /\ pc' = "load_failed"
        /\ UNCHANGED <<w, loc>>
  /\ UNCHANGED <<chip, hist>>

\* nmbm_rescue_single_info_table after its write in front of the only table
RescueFront ==
  /\ pc = "rs_front"
  /\ \/ /\ Written
        /\ ni' = nmbm_mark_tables_clean([ni EXCEPT !.backup_ba = ni.main_ba,
                                                   !.main_ba = TableStart])
        /\ CallErase(TableEnd, ni.main_ba, "load_ok")
        /\ UNCHANGED loc
     \/ /\ ~Written /\ Reserve(ni, ni.map_ba) = {}
        /\ pc' = "load_failed"
        /\ UNCHANGED <<ni, w, loc>>
     \/ /\ ~Written
        /\ \E write_ba \in Reserve(ni, ni.map_ba) :
             /\ loc' = [loc EXCEPT !.ba = write_ba]
             /\ CallWrite(write_ba, ni.top_ba, "rs_next")
        /\ UNCHANGED ni
  /\ UNCHANGED <<chip, hist>>

\* ... and after each attempt to write next to it
RescueNext ==
  /\ \/ /\ pc = "rs_next" /\ Written
        /\ loc' = [loc EXCEPT !.start = TableStart, !.end = TableEnd]
        /\ CallErase(ni.map_ba, TableStart, "rs_erased")
        /\ UNCHANGED ni
     \/ /\ pc = "rs_next" /\ ~Written /\ loc.ba > ni.map_ba
        /\ loc' = [loc EXCEPT !.ba = @ - 1]
        /\ CallWrite(loc.ba - 1, ni.top_ba, "rs_next")
        /\ UNCHANGED ni
     \/ /\ pc = "rs_next" /\ ~Written /\ loc.ba <= ni.map_ba
        /\ pc' = "load_failed"
        /\ UNCHANGED <<ni, w, loc>>
     \/ /\ pc = "rs_erased"
        /\ ni' = nmbm_mark_tables_clean([ni EXCEPT !.backup_ba = loc.start,
                                                   !.map_ba = loc.end])
        /\ pc' = "load_ok"
        /\ UNCHANGED <<w, loc>>
  /\ UNCHANGED <<chip, hist>>

\* "If there is no spare unmapped blocks, or still only one table exists,
\* set the chip to read-only"
LoadDone ==
  /\ pc \in {"load_ok", "load_failed"}
  /\ ni' = [ni EXCEPT !.protected = @ \/ ni.map_ba = ni.top_ba \/ pc = "load_failed"]
  /\ pc' = "done"
  /\ UNCHANGED <<chip, w, loc, hist>>

-----------------------------------------------------------------------------
(* What the users of a logic block call.  The calls of one user, and those *)
(* of several, follow one another: nmbm-mtd.c holds the device lock.       *)

Idle == pc = "idle" /\ ~ni.protected

\* The physical block behind a logic block, if I/O may reach it.
Reachable(lb) ==
  /\ lb < ni.data_count
  /\ ni.block_mapping[lb] # Unmapped
  /\ ni.block_state[ni.block_mapping[lb]] # BLOCK_ST_BAD

\* nmbm_read_single_page, nmbm_read_range
nmbm_read(lb) ==
  IF ni.protected THEN [k |-> "EROFS"]
  ELSE IF lb >= ni.data_count THEN [k |-> "EINVAL"]
  ELSE IF ~Reachable(lb) THEN [k |-> "EIO"]
  ELSE cell[ni.block_mapping[lb]]

\* Nothing is promised about lb while an operation on it is under way.
Begin(lb) ==
  /\ Idle /\ lb < ni.data_count /\ ni.block_mapping[lb] # Unmapped
  /\ expect' = [expect EXCEPT ![lb] = "any"]

\* nmbm_erase_block_range: a range is one nmbm_erase_logic_block after another
EraseBegin ==
  /\ \E lb \in LBlocks :
       /\ Begin(lb)
       /\ loc' = [loc EXCEPT !.lb = lb]
  /\ pc' = "er_try"
  /\ UNCHANGED <<chip, ni, w, boots>>

RemapLogicBlock(n, pb) ==
  /\ ni' = n
  /\ loc' = [loc EXCEPT !.pb = pb, !.mk = "er_mapped"]
  /\ pc' = "map"

nmbm_erase_logic_block ==
  /\ pc = "er_try"
  /\ LET pb == ni.block_mapping[loc.lb]
         bad == nmbm_set_block_state(ni, {pb}, BLOCK_ST_BAD)
     IN  \/ /\ ~Good(pb)
            /\ RemapLogicBlock(ni, pb)
            /\ UNCHANGED <<chip, expect>>
         \/ /\ Good(pb) /\ pb \in oob
            /\ RemapLogicBlock(bad, pb)
            /\ UNCHANGED <<chip, expect>>
         \/ /\ Good(pb) /\ pb \notin oob
            /\ cell' = [cell EXCEPT ![pb] = Blank]
            /\ expect' = [expect EXCEPT ![loc.lb] = "blank"]
            /\ pc' = "done"
            /\ UNCHANGED <<oob, ni, loc>>
         \/ /\ Good(pb) /\ pb \notin oob
            /\ FailBlock(pb, {Torn})
            /\ RemapLogicBlock(bad, pb)
            /\ UNCHANGED expect
  /\ UNCHANGED <<w, boots>>

\* Mutant: the new mapping is used before it is saved.
EraseMappedUnsaved ==
  /\ pc = "er_mapped" /\ loc.ok
  /\ ni' = nmbm_set_block_state(ni, {loc.pb}, BLOCK_ST_BAD)
  /\ pc' = "er_try"
  /\ UNCHANGED <<chip, w, loc, hist>>

\* Back from nmbm_map_block.  Giving the logic block up sets its mapping
\* without counting a mapping change.
EraseMapped ==
  /\ pc = "er_mapped"
  /\ LET n == IF ni.block_state[loc.pb] # BLOCK_ST_NEED_REMAP
                THEN nmbm_set_block_state(ni, {loc.pb}, BLOCK_ST_BAD) ELSE ni
     IN  \/ /\ loc.ok
            /\ ni' = n
            /\ loc' = [loc EXCEPT !.uk = "er_try"]
         \/ /\ ~loc.ok
            /\ ni' = [n EXCEPT !.block_mapping[loc.lb] = Unmapped]
            /\ loc' = [loc EXCEPT !.uk = "bad_done"]
  /\ pc' = "update"
  /\ UNCHANGED <<chip, w, hist>>

\* nmbm_write_single_page, nmbm_write_range.  Users of NAND program a block
\* once after erasing it.
WriteBegin ==
  /\ \E lb \in LBlocks :
       /\ Begin(lb) /\ expect[lb] = "blank" /\ Reachable(lb)
       /\ loc' = [loc EXCEPT !.lb = lb]
  /\ pc' = "wr_program"
  /\ UNCHANGED <<chip, ni, w, boots>>

\* Mutant: a failed program is reported as success.
WriteIgnoresFailure ==
  /\ pc = "wr_program"
  /\ LET pb == ni.block_mapping[loc.lb]
     IN  cell' \in {[cell EXCEPT ![pb] = Data(loc.lb)]}
                     \cup (IF pb \in Weak THEN {[cell EXCEPT ![pb] = Torn]} ELSE {})
  /\ expect' = [expect EXCEPT ![loc.lb] = "data"]
  /\ pc' = "done"
  /\ UNCHANGED <<oob, ni, w, loc, boots>>

nmbm_write_logic_page ==
  /\ pc = "wr_program"
  /\ LET pb == ni.block_mapping[loc.lb]
     IN  \/ /\ cell' = [cell EXCEPT ![pb] = Data(loc.lb)]
            /\ expect' = [expect EXCEPT ![loc.lb] = "data"]
            /\ pc' = "done"
            /\ UNCHANGED <<ni, loc>>
         \/ /\ pb \in Weak
            /\ cell' \in {cell, [cell EXCEPT ![pb] = Torn]}
            /\ ni' = nmbm_set_block_state(ni, {pb}, BLOCK_ST_NEED_REMAP)
            /\ loc' = [loc EXCEPT !.uk = "done"]
            /\ pc' = "update"
            /\ UNCHANGED expect
  /\ UNCHANGED <<oob, w, boots>>

nmbm_mark_bad_block ==
  /\ \E lb \in Markable :
       /\ Begin(lb)
       /\ LET pb == ni.block_mapping[lb]
          IN  /\ ni' = nmbm_set_block_state([ni EXCEPT !.block_mapping[lb] = Unmapped],
                                            {pb}, BLOCK_ST_BAD)
              /\ oob' \in {oob \cup {pb}} \cup (IF MarkMayFail THEN {oob} ELSE {})
       /\ loc' = [loc EXCEPT !.lb = lb, !.uk = "bad_done"]
  /\ pc' = "update"
  /\ UNCHANGED <<cell, w, boots>>

\* The user was told that the logic block is unusable.
BadDone ==
  /\ pc = "bad_done"
  /\ expect' = [expect EXCEPT ![loc.lb] = "bad"]
  /\ pc' = "done"
  /\ UNCHANGED <<chip, ni, w, loc, boots>>

OperationDone ==
  /\ pc = "done"
  /\ pc' = "idle" /\ w' = W0 /\ loc' = L0
  /\ UNCHANGED <<chip, ni, hist>>

nmbm_detach ==
  /\ pc = "idle"
  /\ loc' = [loc EXCEPT !.uk = "detached"]
  /\ pc' = "update"
  /\ UNCHANGED <<chip, ni, w, hist>>

Detached ==
  /\ pc = "detached"
  /\ PowerOff
  /\ UNCHANGED <<chip, hist>>

-----------------------------------------------------------------------------
(* The environment.                                                        *)

\* The block the chip is erasing or programming at this point.
InFlight ==
  {b \in Blocks :
     \/ pc = "write" /\ ~WriteReturns /\ b = w.ba /\ Good(b) /\ b \notin oob
     \/ pc = "erase" /\ w.ba < w.limit /\ b = w.ba /\ Good(b) /\ b \notin oob
     \/ pc = "program" /\ b = w.ba
     \/ pc = "sig_erase" /\ MgmtStart < b /\ b = loc.ba /\ Good(b)
     \/ pc = "sig_program" /\ b = loc.ba
     \/ pc = "er_try" /\ b = ni.block_mapping[loc.lb] /\ Good(b) /\ b \notin oob
     \/ pc = "wr_program" /\ b = ni.block_mapping[loc.lb]}

PowerFails ==
  /\ PowerCut /\ pc # "off"
  /\ cell' \in {cell} \cup
       {[cell EXCEPT ![b] = c] : b \in InFlight,
          c \in IF pc = "sig_program" THEN {Torn, Signature} ELSE {Torn}}
  /\ PowerOff
  /\ UNCHANGED <<oob, hist>>

\* The bound on boots is reached.
Retired ==
  /\ pc = "off" /\ boots = MaxBoots
  /\ UNCHANGED vars

DriverStep ==
  \/ WriteReturn \/ WriteErase \/ WriteProgram \/ nmbm_erase_range
  \/ RebuildMain \/ RebuildBackup
  \/ nmbm_update_info_table \/ UpdateBackup \/ UpdateMain \/ RescueTmp \/ RescueMain
  \/ nmbm_map_block \/ MapFailed
  \/ nmbm_write_signature \/ SignatureProgram
  \/ nmbm_create_info_table \/ CreateMap \/ CreateMapped \/ CreateDone
  \/ SearchFirst \/ SearchSecond \/ nmbm_load_info_table
  \/ UpdateSingle \/ RescueFront \/ RescueNext \/ LoadDone
  \/ nmbm_erase_logic_block \/ EraseMapped \/ nmbm_write_logic_page
  \/ BadDone \/ OperationDone \/ Detached

UserStep ==
  nmbm_attach \/ EraseBegin \/ WriteBegin \/ nmbm_mark_bad_block \/ nmbm_detach

Next == DriverStep \/ UserStep \/ PowerFails \/ Retired

Spec == Init /\ [][Next]_vars

\* A call into the driver runs to its end: the caller's thread is scheduled.
FairSpec == Spec /\ WF_vars(DriverStep)

-----------------------------------------------------------------------------
(* Properties.                                                             *)

\* The type of every variable.
TypeOK ==
  /\ cell \in [Blocks -> Content] /\ oob \subseteq Blocks
  /\ ni \in Instance /\ pc \in Label /\ w \in Frame /\ loc \in Locals
  /\ expect \in [LBlocks -> Expected] /\ boots \in Nat

\* The addresses at which an attach to a chip with contents c and bad marks
\* bad would find a table.
LoadableAt(c, bad) ==
  LET headers == {b \in MgmtStart .. BlockCount - 1 : IsHeader(c[b])}
      sigs == nmbm_find_signature(c, bad)
      sig == Max(sigs)
  IN  IF headers = {} \/ sigs = {} THEN {}
      ELSE {b \in headers : /\ b < sig - TableBlocks
                            /\ TableAt(c, b, c[b].t)
                            /\ TableRange(b) \cap bad = {}
                            /\ nmbm_check_info_table(c[b].t, b, sig)}

\* Of the tables found at these addresses an attach adopts the first, or the
\* second if its write count is higher.
Adopted(c, loadable) ==
  LET first == Min(loadable)
      rest == {b \in loadable : first + TableBlocks <= b}
      second == IF rest = {} THEN first ELSE Min(rest)
  IN  IF c[second].t.write_count > c[first].t.write_count
        THEN c[second].t ELSE c[first].t

\* The table such an attach would adopt, as a set with at most one element.
RecoveredFrom(c, bad) ==
  {Adopted(c, found) : found \in {LoadableAt(c, bad)} \ {{}}}

Recovered == RecoveredFrom(cell, oob)
MapOf(S) == {t.map : t \in S}

\* Once an info table can be found, every later attach finds one, and the
\* mapping it holds is the one an attach would have found before or the one
\* being written: a power cut anywhere in nmbm_update_info_table, or in the
\* repairs of nmbm_load_info_table, leaves the old mapping or the new one.
Durable ==
  [][LET old == MapOf(Recovered)
         new == MapOf(RecoveredFrom(cell', oob'))
     IN  old # {} => new # {} /\ new \subseteq old \cup {ni.cache.map}]_chip

\* nmbm_load_info_table takes two tables with the same write count for two
\* copies of one table: they are.
WriteCountIdentifies ==
  \A a, b \in LoadableAt(cell, oob) :
    cell[a].t.write_count = cell[b].t.write_count => cell[a].t = cell[b].t

\* Whatever the power does from here on, each logic block reads as its user
\* was last told: the table the next attach adopts leads to the right block.
DataRecoverable ==
  \A t \in Recovered : \A lb \in LBlocks :
    /\ expect[lb] = "data" => t.map[lb] # Unmapped /\ cell[t.map[lb]] = Data(lb)
    /\ expect[lb] = "blank" => t.map[lb] # Unmapped /\ cell[t.map[lb]] = Blank

\* A logic block that was reported unusable stays so.
UnusableStays ==
  \A t \in Recovered : \A lb \in LBlocks :
    expect[lb] = "bad" => t.map[lb] = Unmapped

\* Between operations a read of a device that is not protected returns what
\* was written, and an erased block reads blank.
DataIntact ==
  Idle => \A lb \in LBlocks :
            /\ expect[lb] = "data" => nmbm_read(lb) = Data(lb)
            /\ expect[lb] = "blank" => nmbm_read(lb) = Blank

\* No two logic blocks share a physical block.
NoSharing ==
  \A a, b \in LBlocks :
    a # b /\ ni.block_mapping[a] # Unmapped => ni.block_mapping[a] # ni.block_mapping[b]

\* The layout of the management area between operations: main table, backup
\* table, unmapped spare blocks, remapped blocks, signature.
Layout ==
  Idle => /\ MgmtStart <= ni.main_ba
          /\ ni.backup_ba # 0 => /\ ni.main_ba + TableBlocks <= ni.backup_ba
                                 /\ ni.backup_ba + TableBlocks <= ni.map_ba
          /\ ni.main_ba + TableBlocks <= ni.map_ba
          /\ ni.map_ba <= ni.top_ba /\ ni.top_ba < ni.sig_ba
          /\ \A lb \in LBlocks :
               \/ ni.block_mapping[lb] < MgmtStart
               \/ ni.top_ba < ni.block_mapping[lb] /\ ni.block_mapping[lb] < ni.sig_ba

\* Between operations an attach would load the mapping that is in memory,
\* for every logic block that has not been reported unusable.
MappingSaved ==
  Idle => \E t \in Recovered : \A lb \in LBlocks :
            expect[lb] # "bad" => t.map[lb] = ni.block_mapping[lb]

\* Where bad marks can be written, a block that an info table calls bad
\* carries one: a block is given up for good only on a failure of its own.
BadMeansMarked ==
  \A t \in Recovered : \A b \in Blocks : t.state[b] = BLOCK_ST_BAD => b \in oob

\* Between operations the main table lies where an attach finds it.
MainTableReadable ==
  Idle => ni.main_ba \in LoadableAt(cell, oob)

\* The loops over management blocks stay between the data area and the
\* signature.
TableWritesInside ==
  pc \in {"write", "program", "erase"} =>
    MgmtStart <= w.ba /\ w.limit < ni.sig_ba

\* Once an attached instance knows where the signature is, no step of any
\* operation changes that block, whatever fails.
SignatureSafe ==
  [][ni.sig_ba # 0 => cell'[ni.sig_ba] = cell[ni.sig_ba]]_vars

\* Every call into the driver comes to an end.
Terminates == (pc \notin {"off", "idle"}) ~> (pc \in {"off", "idle"})
=============================================================================
