---------------------------- MODULE Stage2Tables ----------------------------
(***************************************************************************)
(* The translation tables of one VM, src/hv/stage2.c: a pool of table      *)
(* pages handed out by a bump allocator, page 0 being the root, and the    *)
(* three-level walk.  Each operator is the function of the same name as a  *)
(* map from the tables before the call; a table is named by its index in   *)
(* the pool, an address by its page number, and pool_pa is the page number *)
(* of the pool.                                                            *)
(***************************************************************************)
EXTENDS Integers

CONSTANTS HV_STAGE2_DESCS_PER_TABLE,
          HV_STAGE2_MAX_TABLE_PAGES

ASSUME TablesAssumption == /\ HV_STAGE2_DESCS_PER_TABLE \in Nat \ {0}
                           /\ HV_STAGE2_MAX_TABLE_PAGES \in Nat \ {0}

-----------------------------------------------------------------------------
Index == 0 .. HV_STAGE2_DESCS_PER_TABLE - 1

Table == 0 .. HV_STAGE2_MAX_TABLE_PAGES - 1

Root == 0

NoTable == -1          \* the null pointer of the table functions

(***************************************************************************)
(* A descriptor: its two low bits and its address field.  At the last      *)
(* level the pattern 0b11 means a page, above it a table.  The attribute   *)
(* bits of a page descriptor are stored and never read back.               *)
(***************************************************************************)
HvStage2Desc == [bits : {"INVALID", "BLOCK", "TABLE"}, addr : Nat]

DESC_INVALID == [bits |-> "INVALID", addr |-> 0]

DESC_TABLE(addr) == [bits |-> "TABLE", addr |-> addr]

HvStage2 == [pool : [Table -> [Index -> HvStage2Desc]], pool_used : Nat]

stage2_zero_table == [i \in Index |-> DESC_INVALID]

hv_stage2_init == [pool      |-> [t \in Table |-> stage2_zero_table],
                   pool_used |-> 1]

L1Index(ipa) == (ipa \div (HV_STAGE2_DESCS_PER_TABLE * HV_STAGE2_DESCS_PER_TABLE))
                    % HV_STAGE2_DESCS_PER_TABLE

L2Index(ipa) == (ipa \div HV_STAGE2_DESCS_PER_TABLE) % HV_STAGE2_DESCS_PER_TABLE

L3Index(ipa) == ipa % HV_STAGE2_DESCS_PER_TABLE

-----------------------------------------------------------------------------
stage2_desc_to_table(pool_pa, desc) ==
    IF /\ desc.bits = "TABLE"
       /\ desc.addr >= pool_pa
       /\ desc.addr - pool_pa < HV_STAGE2_MAX_TABLE_PAGES
    THEN desc.addr - pool_pa
    ELSE NoTable

\* The bump pointer is not moved past the page that was handed out.
Mutant_AllocTable(s) ==
    [s EXCEPT !.pool[s.pool_used] = stage2_zero_table]

\* stage2_alloc_table when the pool has a page left.
AllocTable(s) ==
    [s EXCEPT !.pool[s.pool_used] = stage2_zero_table,
              !.pool_used         = @ + 1]

(***************************************************************************)
(* stage2_next_table on entry i of table t: the table it leads to, and the *)
(* tables after a missing one has been allocated and linked.               *)
(***************************************************************************)
stage2_next_table(s, pool_pa, t, i) ==
    LET entry == s.pool[t][i]
    IN  IF entry.bits = "TABLE"
        THEN [s |-> s, t |-> stage2_desc_to_table(pool_pa, entry)]
        ELSE IF entry.bits # "INVALID" \/ s.pool_used >= HV_STAGE2_MAX_TABLE_PAGES
        THEN [s |-> s, t |-> NoTable]
        ELSE [s |-> [AllocTable(s) EXCEPT
                        !.pool[t][i] = DESC_TABLE(pool_pa + s.pool_used)],
              t |-> s.pool_used]

Descend(s, pool_pa, t, i, alloc) ==
    IF alloc THEN stage2_next_table(s, pool_pa, t, i)
    ELSE [s |-> s, t |-> stage2_desc_to_table(pool_pa, s.pool[t][i])]

\* The level-3 table for ipa.  Failing below level 1 keeps a new level-2 table.
stage2_walk_l3(s, pool_pa, ipa, alloc) ==
    LET l2 == Descend(s, pool_pa, Root, L1Index(ipa), alloc)
    IN  IF l2.t = NoTable THEN l2
        ELSE Descend(l2.s, pool_pa, l2.t, L2Index(ipa), alloc)

-----------------------------------------------------------------------------
\* stage2_map_page: the result code, and the tables it leaves behind.
stage2_map_page(s, pool_pa, ipa, pa) ==
    LET w == stage2_walk_l3(s, pool_pa, ipa, TRUE)
    IN  IF w.t = NoTable THEN [res |-> "NO_TABLES", s |-> w.s]
        ELSE IF w.s.pool[w.t][L3Index(ipa)].bits # "INVALID"
        THEN [res |-> "MAPPED", s |-> w.s]
        ELSE [res |-> "OK",
              s   |-> [w.s EXCEPT !.pool[w.t][L3Index(ipa)] = DESC_TABLE(pa)]]

\* The table update of hv_stage2_unmap_page.
UnmapEntry(s, pool_pa, ipa) ==
    LET w == stage2_walk_l3(s, pool_pa, ipa, FALSE)
    IN  IF w.t = NoTable THEN s
        ELSE [s EXCEPT !.pool[w.t][L3Index(ipa)] = DESC_INVALID]

\* hv_stage2_translate: is ipa mapped, and to which frame.
Mapped(s, pool_pa, ipa) ==
    LET w == stage2_walk_l3(s, pool_pa, ipa, FALSE)
    IN  w.t # NoTable /\ s.pool[w.t][L3Index(ipa)].bits = "TABLE"

hv_stage2_translate(s, pool_pa, ipa) ==
    s.pool[stage2_walk_l3(s, pool_pa, ipa, FALSE).t][L3Index(ipa)].addr
=============================================================================
