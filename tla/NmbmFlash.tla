----------------------------- MODULE NmbmFlash -----------------------------
(***************************************************************************)
(* The NAND chip under NMBM and the pure functions of nmbm-core.c: block   *)
(* states, info tables, the walks over good blocks, the initial mapping    *)
(* and the checks an info table must pass before it is loaded.             *)
(*                                                                         *)
(* A physical block holds one abstract content instead of pages of bytes:  *)
(* an info table is a record (write count, block states, mapping) cut into *)
(* TableBlocks chunks, user data is named by the logical block it was      *)
(* written for, and Torn is whatever an interrupted or failed erase or     *)
(* program left behind: it never passes a magic or CRC check.              *)
(***************************************************************************)
EXTENDS Integers, FiniteSets, FiniteSetsExt

CONSTANTS
  BlockCount,   \* ni->block_count
  MgmtStart,    \* ni->mgmt_start_ba = signature.mgmt_start_pb
  TableBlocks   \* size2blk(ni, ni->info_table_size)

ASSUME GeometryAssumption ==
  /\ BlockCount \in Nat /\ MgmtStart \in Nat /\ TableBlocks \in Nat
  /\ 0 < TableBlocks /\ TableBlocks < MgmtStart
  /\ MgmtStart + TableBlocks + 1 < BlockCount

Blocks == 0 .. BlockCount - 1
LBlocks == 0 .. MgmtStart - 1   \* logic blocks that can ever be mapped

BLOCK_ST_BAD == 0
BLOCK_ST_NEED_REMAP == 2
BLOCK_ST_GOOD == 3
BlockState == {BLOCK_ST_BAD, BLOCK_ST_NEED_REMAP, BLOCK_ST_GOOD}

Unmapped == -1
Mapping == [LBlocks -> Blocks \cup {Unmapped}]
InfoTable == [write_count: Nat, state: [Blocks -> BlockState], map: Mapping]

Blank == [k |-> "blank"]
Torn == [k |-> "torn"]
Signature == [k |-> "signature"]
Data(lb) == [k |-> "data", lb |-> lb]
Chunk(i, t) == [k |-> "table", i |-> i, t |-> t]
Content == {Blank, Torn, Signature} \cup [k: {"data"}, lb: LBlocks]
             \cup [k: {"table"}, i: 1 .. TableBlocks, t: InfoTable]

-----------------------------------------------------------------------------
(* Walks over good blocks.  Each set has at most one element: the block    *)
(* the walk returns; it is empty when the walk returns false.              *)

GoodIn(bs, S) == {b \in S : bs[b] = BLOCK_ST_GOOD}

\* nmbm_block_walk(ni, true, ba, &nba, count, limit)
nmbm_block_walk_asc(bs, ba, count, limit) ==
  LET good == GoodIn(bs, ba .. limit - 1)
  IN  {b \in good : Cardinality({c \in good : c < b}) = count}

\* nmbm_block_walk(ni, false, ba, &nba, count, limit)
nmbm_block_walk_desc(bs, ba, count, limit) ==
  LET good == GoodIn(bs, limit + 1 .. ba)
  IN  {b \in good : Cardinality({c \in good : c > b}) = count}

\* nmbm_get_spare_block_count(TableBlocks)
nmbm_get_spare_block_count ==
  IF (TableBlocks + 1) \div 2 < 2 THEN 2 ELSE (TableBlocks + 1) \div 2

\* Reserve as many of the wanted spare blocks as there are, none at worst.
nmbm_try_reserve_blocks(bs, ba, limit) ==
  LET n == Cardinality(GoodIn(bs, ba .. limit - 1))
  IN  nmbm_block_walk_asc(bs, ba,
        IF n > nmbm_get_spare_block_count
          THEN nmbm_get_spare_block_count ELSE n - 1, limit)

-----------------------------------------------------------------------------
\* The blocks of the data area that the initial mapping uses, in order.
Usable(bs) == {b \in LBlocks : bs[b] # BLOCK_ST_BAD}

\* Always map to the next block that is not bad: logic block lb goes to the
\* usable block with lb usable blocks below it, if there is one.
nmbm_build_mapping_table(bs) ==
  LET nth(lb) == {pb \in Usable(bs) : Cardinality({b \in Usable(bs) : b < pb}) = lb}
  IN  [lb \in LBlocks |->
         IF nth(lb) = {} THEN Unmapped ELSE CHOOSE pb \in nth(lb) : TRUE]

\* nmbm_find_signature: the highest block with a readable signature.
nmbm_find_signature(c, bad) ==
  {b \in MgmtStart - 1 .. BlockCount - 1 : c[b] = Signature /\ b \notin bad}

-----------------------------------------------------------------------------
(* Loading an info table.                                                  *)

IsHeader(c) == c.k = "table" /\ c.i = 1

\* The whole table lies in the TableBlocks blocks from ba on: the read loop
\* stops at ba + size2blk(info_table_size), even if it skipped a block.
TableAt(c, ba, t) ==
  \A i \in 1 .. TableBlocks : c[ba + i - 1] = Chunk(i, t)

\* nmbm_check_info_table: no logic block is mapped to the table itself, to
\* the management blocks below its end or to the signature, and the table
\* does not call the blocks it lies in bad.
nmbm_check_info_table(t, ba, sig) ==
  /\ \A lb \in LBlocks : /\ t.map[lb] \notin MgmtStart .. ba + TableBlocks - 1
                         /\ t.map[lb] # sig
  /\ \A b \in ba .. ba + TableBlocks - 1 : t.state[b] = BLOCK_ST_GOOD

\* The block below the lowest remapped block, as nmbm_check_info_table
\* reports it for mapping_blocks_top_ba.
MappingTop(t, ba, sig) ==
  Min({sig} \cup {p \in {t.map[lb] : lb \in LBlocks} :
                    ba + TableBlocks <= p /\ p < sig}) - 1

\* "Set final data_block_count" of nmbm_load_info_table.
DataBlockCount(map) ==
  LET mapped == {lb \in LBlocks : map[lb] >= 0}
  IN  IF mapped = {} THEN MgmtStart ELSE Max(mapped) + 1
=============================================================================
