----------------------------- MODULE ProgramImage ------------------------------
(***************************************************************************)
(* The instruction memory as the fetch path sees it: a ring of words, two  *)
(* halfwords each, some of which hold a compressed instruction (or would,  *)
(* if one began there), and some of which the bus answers with an error.   *)
(***************************************************************************)
EXTENDS Naturals, Sequences

CONSTANTS
  Size,         \* the words of the memory; addresses wrap
  Images        \* the contents it may have

Halves    == 0 .. 2 * Size - 1         \* an address without its lowest bit
WordOf(h) == h \div 2
IsOdd(h)  == h % 2 = 1                 \* addr[1]: not aligned to a word
Ahead(h, n) == (h + n) % (2 * Size)

\* short: the two low bits of a halfword are not 11.
ImageType == [short : [Halves -> BOOLEAN], bad : SUBSET (0 .. Size - 1)]

ASSUME ImageAssumption == Size \in Nat \ {0} /\ Images # {} /\ Images \subseteq ImageType

\* The halfword of a word that came with an error is unknown: it counts as the
\* beginning of a long instruction.
Compressed(m, h) == m.short[h] /\ WordOf(h) \notin m.bad
Length(m, h)     == IF Compressed(m, h) THEN 1 ELSE 2

\* The instruction at h: where it is, the halfwords it is made of, whether the
\* bus could not deliver it, and whether only because of its second half.
Instruction(m, h) ==
  LET last  == Ahead(h, Length(m, h) - 1)
      err   == WordOf(h) \in m.bad \/ WordOf(last) \in m.bad
  IN  [addr  |-> h, err |-> err,
       parts |-> IF err THEN <<>> ELSE IF last = h THEN <<h>> ELSE <<h, last>>,
       plus2 |-> err /\ WordOf(h) \notin m.bad]
================================================================================
