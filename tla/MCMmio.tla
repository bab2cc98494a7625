------------------------------- MODULE MCMmio -------------------------------
(***************************************************************************)
(* Bytes of 7 bits: the largest whose words fit the checker's integers,    *)
(* with room for the status bits 0 to 6.                                   *)
(***************************************************************************)
EXTENDS Mmio

\* A value with only a halfword's sign bit set, and all ones.
MCValues == {8193, 268435455}

Good(w, sas, srt, sse, offset) ==
    [region |-> "MMIO", is_instruction |-> FALSE, fnv |-> FALSE, isv |-> TRUE,
     s1ptw |-> FALSE, is_write |-> w, sas |-> sas, srt |-> srt, sse |-> sse,
     offset |-> offset]

\* Stores and loads of every size to the registers that behave differently.
Accesses ==
    {Good(TRUE, sas, 3, FALSE, 92) : sas \in 1 .. 2}
    \cup {Good(TRUE, 2, 3, FALSE, o) : o \in {4, 64, 84}}
    \cup {Good(FALSE, sas, 3, e, 92) : sas \in 0 .. 2, e \in BOOLEAN}
    \cup {Good(FALSE, 2, 3, FALSE, o) : o \in {4, 84, 88, 100, 4080}}
    \cup {Good(FALSE, 0, 3, e, 64) : e \in BOOLEAN}

\* The refused ones: regions, syndromes, sizes, alignments and registers.
Refused ==
    {[Good(FALSE, 2, 3, FALSE, 64) EXCEPT !.region = r] : r \in {"none", "RAM", "RAM_GUARD"}}
    \cup {[Good(FALSE, 2, 3, FALSE, 64) EXCEPT !.is_instruction = TRUE],
          [Good(TRUE, 2, 3, FALSE, 64) EXCEPT !.fnv = TRUE],
          [Good(TRUE, 2, 3, FALSE, 64) EXCEPT !.isv = FALSE],
          [Good(TRUE, 2, 3, FALSE, 64) EXCEPT !.s1ptw = TRUE],
          Good(TRUE, 3, 3, FALSE, 64), Good(FALSE, 1, 3, FALSE, 65),
          Good(TRUE, 2, 13, FALSE, 64), Good(FALSE, 2, 13, FALSE, 64)}

MCFaults == Accesses \cup Refused

\* Accesses through r14 as well.
LinkFaults == {Good(w, 0, 14, FALSE, 64) : w \in BOOLEAN}
=============================================================================
