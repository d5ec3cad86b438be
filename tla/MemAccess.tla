------------------------------- MODULE MemAccess -------------------------------
(***************************************************************************)
(* Loads and stores as an instruction asks for them, what they mean for a  *)
(* memory of bytes, and the lane arithmetic by which the load-store unit   *)
(* carries them over a bus of 32-bit words.                                *)
(***************************************************************************)
EXTENDS Integers

CONSTANTS
  ByteMax,     \* the greatest byte, 255 in the source
  WordSpan,    \* the number of words of the address space, 2^30
  NoAccess     \* the instruction in the ID stage is no load or store

Lane    == 0 .. 3
Byte    == 0 .. ByteMax
Word    == [Lane -> Byte]
WordNo  == 0 .. WordSpan - 1

\* off is the byte offset in the word; float tells FLW and FSW from the integer
\* instructions.
Access ==
  [we : BOOLEAN, size : {1, 2, 4}, word : WordNo, off : Lane,
   sext : BOOLEAN, float : BOOLEAN, wdata : Word]

ASSUME AccessAssumption ==
  /\ ByteMax \in Nat \ {0} /\ WordSpan \in Nat \ {0, 1}
  /\ NoAccess \notin Access

\* Broken: the last word has a successor.
NextWordUnbounded(w) == w + 1

NextWord(w) == (w + 1) % WordSpan

\* Bytes b[0] ... b[size-1], extended to a word.
Extend(b, size, sext) ==
  LET fill == IF sext /\ b[size - 1] > ByteMax \div 2 THEN ByteMax ELSE 0
  IN  [k \in Lane |-> IF k < size THEN b[k] ELSE fill]

--------------------------------------------------------------------------------
(* What an access means: byte k of it lives at Place(a, k).                *)

BytesOf(a) == 0 .. a.size - 1

Place(a, k) == [word |-> IF a.off + k < 4 THEN a.word ELSE NextWord(a.word),
                lane |-> (a.off + k) % 4]

Loaded(m, a) ==
  LET b == [k \in BytesOf(a) |-> m[Place(a, k).word][Place(a, k).lane]]
  IN  Extend(b, a.size, a.sext)

\* The store of the bytes ks of access a into memory m.
StoredBytes(m, a, ks) ==
  [w \in DOMAIN m |->
    [i \in Lane |->
      LET here == {k \in ks : Place(a, k) = [word |-> w, lane |-> i]}
      IN  IF here = {} THEN m[w][i] ELSE a.wdata[CHOOSE k \in here : TRUE]]]

Stored(m, a) == StoredBytes(m, a, BytesOf(a))

\* The bytes of an access in its first and in its second word.
FirstBytes(a)  == {k \in BytesOf(a) : a.off + k < 4}
SecondBytes(a) == BytesOf(a) \ FirstBytes(a)

--------------------------------------------------------------------------------
(* How the load-store unit does it.                                        *)

\* split_misaligned_access: the access needs a second word.
Split(a) == \/ a.size = 4 /\ a.off # 0
            \/ a.size = 2 /\ a.off = 3

\* Broken: the second part of a word store writes one byte too many.
DataBeTooWide(a, second) ==
  IF ~second THEN {i \in Lane : a.off <= i /\ i < a.off + a.size}
  ELSE CASE a.size = 4 -> {i \in Lane : i <= a.off}
         [] a.size = 2 -> {0}
         [] a.size = 1 -> {a.off}

\* data_be, for the first and for the second part of the access.
DataBe(a, second) ==
  IF ~second THEN {i \in Lane : a.off <= i /\ i < a.off + a.size}
  ELSE CASE a.size = 4 -> {i \in Lane : i < a.off}
         [] a.size = 2 -> {0}
         [] a.size = 1 -> {a.off}

\* data_wdata: the operand rotated to its lanes.
DataWdata(a) == [i \in Lane |-> a.wdata[(i - a.off) % 4]]

\* data_rdata_ext: the loaded value, from the word that arrived last (rdata) and
\* the one kept from the first part (kept), by the captured offset and type.
DataRdataExt(off, size, sext, kept, rdata) ==
  LET crosses == off + size > 4
      b == [k \in 0 .. size - 1 |->
             IF crosses /\ off + k < 4 THEN kept[off + k] ELSE rdata[(off + k) % 4]]
  IN  Extend(b, size, sext)

\* What a bus slave that honours byte enables makes of a word.
Merge(old, new, be) == [i \in Lane |-> IF i \in be THEN new[i] ELSE old[i]]
================================================================================
