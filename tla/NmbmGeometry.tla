---------------------------- MODULE NmbmGeometry ----------------------------
(***************************************************************************)
(* Where the management area of NMBM begins (drivers/mtd/nmbm/nmbm-core.c). *)
(* nmbm_create_new derives its first block from the size of the chip and   *)
(* stores it in the signature; a later attach, which has not found the     *)
(* signature yet, derives the end of its search anew, and rounds at another *)
(* place.  Both are 32-bit arithmetic.                                     *)
(***************************************************************************)
EXTENDS Integers, TLAPS

NMBM_MGMT_DIV == 16
U32(n) == n % 4294967296

\* Both keep the management area within max_reserved_blocks, when that is given.
Reserve(block_count, start, max_reserved_blocks) ==
  IF max_reserved_blocks # 0 /\ block_count - start > max_reserved_blocks
    THEN block_count - max_reserved_blocks ELSE start

\* nmbm_create_new: the first block of the management area.
mgmt_start_ba(block_count, max_ratio, max_reserved_blocks) ==
  Reserve(block_count,
          U32(block_count * (NMBM_MGMT_DIV - max_ratio)) \div NMBM_MGMT_DIV,
          max_reserved_blocks)

\* nmbm_find_signature: the loop runs while the block before is not below it.
limit(block_count, max_ratio, max_reserved_blocks) ==
  Reserve(block_count,
          U32((block_count \div NMBM_MGMT_DIV) * (NMBM_MGMT_DIV - max_ratio)),
          max_reserved_blocks)

\* nmbm_check_lower_members accepts these ratios.
Ratios == 1 .. NMBM_MGMT_DIV - 2

\* The counts for which the products above fit into 32 bits.
BlockCounts == {n \in Nat : 0 < n /\ n < 268435456}

\* The two places to round, without and with the width of the machine's integers.
LEMMA Products ==
  ASSUME NEW b \in BlockCounts, NEW r \in Ratios
  PROVE  /\ U32(b * (16 - r)) = b * (16 - r)
         /\ U32((b \div 16) * (16 - r)) = (b \div 16) * (16 - r)
<1>1. b * (16 - r) < 4294967296 /\ b * (16 - r) \in Nat
  BY SMT DEF BlockCounts, Ratios, NMBM_MGMT_DIV
<1>2. b \div 16 \in Nat /\ b \div 16 < 268435456
  BY SMT DEF BlockCounts
<1>3. ASSUME NEW q \in Nat, q < 268435456
      PROVE  q * (16 - r) < 4294967296 /\ q * (16 - r) \in Nat
  BY <1>3, SMT DEF Ratios, NMBM_MGMT_DIV
<1>4. (b \div 16) * (16 - r) < 4294967296 /\ (b \div 16) * (16 - r) \in Nat
  BY <1>2, <1>3, SMT
<1>5. QED  BY <1>1, <1>4, SMT DEF U32

\* Rounding before the product is never above rounding after it.
LEMMA Rounding ==
  ASSUME NEW b \in BlockCounts, NEW r \in Ratios
  PROVE  /\ (b \div 16) * (16 - r) \in Nat
         /\ (b * (16 - r)) \div 16 \in Nat
         /\ (b \div 16) * (16 - r) <= (b * (16 - r)) \div 16
         /\ (b * (16 - r)) \div 16 < b
         /\ b % 16 = 0 => (b \div 16) * (16 - r) = (b * (16 - r)) \div 16
         /\ b >= 16 => (b \div 16) * (16 - r) > 0
<1>1. b \in Nat /\ 0 < b  BY SMT DEF BlockCounts
<1>2. r \in 1 .. 14  BY SMT DEF Ratios, NMBM_MGMT_DIV
<1>3. QED  BY <1>1, <1>2, SMT

\* The search of nmbm_find_signature reaches every block in which nmbm_create_new may
\* have put the signature, whatever the number of blocks: rounding first only makes
\* it go on further down.
THEOREM SearchCoversManagement ==
  ASSUME NEW b \in BlockCounts, NEW r \in Ratios, NEW m \in Nat
  PROVE  limit(b, r, m) <= mgmt_start_ba(b, r, m) /\ mgmt_start_ba(b, r, m) < b
BY Products, Rounding, SMT DEF limit, mgmt_start_ba, Reserve, BlockCounts, NMBM_MGMT_DIV

\* Where sixteen divides the number of blocks the two agree: the search looks at the
\* management area and the block before it, as module NmbmFlash has it.
THEOREM SearchIsExact ==
  ASSUME NEW b \in BlockCounts, NEW r \in Ratios, NEW m \in Nat, b % NMBM_MGMT_DIV = 0
  PROVE  limit(b, r, m) = mgmt_start_ba(b, r, m)
BY Products, Rounding, SMT DEF limit, mgmt_start_ba, Reserve, BlockCounts, NMBM_MGMT_DIV

\* The loop of nmbm_find_signature, which counts an unsigned number down, ends: its
\* limit is not zero on a chip of sixteen blocks or more, unless all of them may be
\* reserved.
THEOREM SearchEnds ==
  ASSUME NEW b \in BlockCounts, NEW r \in Ratios, NEW m \in Nat,
         b >= NMBM_MGMT_DIV, m < b
  PROVE  limit(b, r, m) > 0
BY Products, Rounding, SMT DEF limit, Reserve, BlockCounts, NMBM_MGMT_DIV
=============================================================================
