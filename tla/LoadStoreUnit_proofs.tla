-------------------------- MODULE LoadStoreUnit_proofs --------------------------
(***************************************************************************)
(* Lemmas about loads and stores and about the load-store unit, for every  *)
(* set of accesses, byte and address width, whatever bus the unit is on:   *)
(* the lanes and words an access touches are those its parts ask for, and  *)
(* what the unit makes of the words is what the access means.              *)
(***************************************************************************)
EXTENDS LoadStoreUnit, TLAPS

\* The rotation stays in the word.
LEMMA Lanes == \A i \in Lane, o \in Lane : (i - o) % 4 \in Lane
  BY DEF Lane

\* The rotation to a lane and the one back.
LEMMA Rotation ==
  \A o \in Lane, k \in Lane, i \in Lane : (o + k) % 4 = i <=> k = (i - o) % 4
  BY DEF Lane

\* The words of an access.
LEMMA NextWordMoves ==
  \A w \in WordNo : NextWord(w) \in WordNo /\ NextWord(w) # w
<1>1. WordSpan \in Nat /\ WordSpan > 1
  BY AccessAssumption
<1>2. \A w \in 0 .. WordSpan - 2 : (w + 1) % WordSpan = w + 1
  BY <1>1
<1>3. WordSpan % WordSpan = 0
  BY <1>1
<1> QED BY <1>1, <1>2, <1>3 DEF NextWord, WordNo

\* The fields of an access.
LEMMA AccessFields ==
  ASSUME NEW a \in Access
  PROVE  /\ a.we \in BOOLEAN /\ a.size \in {1, 2, 4} /\ a.word \in WordNo /\ a.off \in Lane
         /\ a.sext \in BOOLEAN /\ a.float \in BOOLEAN /\ a.wdata \in Word
  BY DEF Access

\* An access needs a second word exactly when one of its bytes lies there.
LEMMA SplitMeans ==
  ASSUME NEW a \in Access
  PROVE  /\ Split(a) <=> a.off + a.size > 4
         /\ Split(a) <=> SecondBytes(a) # {}
<1>1. a.size \in {1, 2, 4} /\ a.off \in Lane
  BY AccessFields
<1>2. Split(a) <=> a.off + a.size > 4
  BY <1>1 DEF Split, Lane
<1>3. SecondBytes(a) = {k \in 0 .. a.size - 1 : a.off + k >= 4}
  BY <1>1 DEF SecondBytes, FirstBytes, BytesOf, Lane
<1>4. CASE a.off + a.size > 4
  <2>1. a.size - 1 \in SecondBytes(a)
    BY <1>1, <1>3, <1>4 DEF Lane
  <2> QED BY <1>2, <1>4, <2>1
<1>5. CASE ~(a.off + a.size > 4)
  <2>1. \A k \in 0 .. a.size - 1 : ~(a.off + k >= 4)
    BY <1>1, <1>5 DEF Lane
  <2>2. SecondBytes(a) = {}
    BY <1>3, <2>1
  <2> QED BY <1>2, <1>5, <2>2
<1> QED BY <1>2, <1>4, <1>5

--------------------------------------------------------------------------------
(* The two parts of an access.                                             *)

PartBytes(a, second) == IF second THEN SecondBytes(a) ELSE FirstBytes(a)
PartWord(a, second)  == IF second THEN NextWord(a.word) ELSE a.word

\* What a part makes of the memory m when it is stored.
PartStored(m, a, second) ==
  IF PartWord(a, second) \in DOMAIN m
    THEN [m EXCEPT ![PartWord(a, second)] = Merge(@, DataWdata(a), DataBe(a, second))]
    ELSE m

\* A memory of words stays one.
LEMMA PartStoredType ==
  ASSUME NEW a \in Access, NEW second, NEW W, NEW m \in [W -> Word]
  PROVE  PartStored(m, a, second) \in [W -> Word]
<1>1. ASSUME NEW old \in Word PROVE Merge(old, DataWdata(a), DataBe(a, second)) \in Word
  BY AccessFields, Lanes DEF Merge, DataWdata, Word
<1> QED BY <1>1 DEF PartStored

\* The byte enables of a part select the lanes of its bytes.
LEMMA EnabledLanes ==
  ASSUME NEW a \in Access, NEW second \in BOOLEAN, second => Split(a), NEW i \in Lane
  PROVE  i \in DataBe(a, second) <=> (i - a.off) % 4 \in PartBytes(a, second)
<1>1. a.size \in {1, 2, 4} /\ a.off \in Lane
  BY AccessFields
<1> DEFINE k == (i - a.off) % 4
<1>2. k \in Lane /\ (a.off + k = i \/ a.off + k = i + 4)
  <2>1. k \in Lane /\ (a.off + k) % 4 = i
    BY <1>1, Lanes, Rotation
  <2> QED BY <1>1, <2>1 DEF Lane
<1> HIDE DEF k
<1>3. ASSUME ~second PROVE i \in DataBe(a, second) <=> k \in PartBytes(a, second)
  <2>1. k \in PartBytes(a, second) <=> k < a.size /\ a.off + k < 4
    BY <1>1, <1>2, <1>3 DEF PartBytes, FirstBytes, BytesOf, Lane
  <2>2. i \in DataBe(a, second) <=> a.off <= i /\ i < a.off + a.size
    BY <1>3 DEF DataBe
  <2> QED BY <1>1, <1>2, <2>1, <2>2 DEF Lane
<1>4. ASSUME second PROVE i \in DataBe(a, second) <=> k \in PartBytes(a, second)
  <2>1. k \in PartBytes(a, second) <=> k < a.size /\ a.off + k >= 4
    BY <1>1, <1>2, <1>4 DEF PartBytes, SecondBytes, FirstBytes, BytesOf, Lane
  <2>2. a.off + a.size > 4
    BY <1>4, SplitMeans
  <2>3. CASE a.size = 4
    <3>1. i \in DataBe(a, second) <=> i < a.off
      BY <1>4, <2>3 DEF DataBe
    <3> QED BY <1>1, <1>2, <2>1, <2>3, <3>1 DEF Lane
  <2>4. CASE a.size = 2
    <3>1. i \in DataBe(a, second) <=> i = 0
      BY <1>4, <2>4 DEF DataBe
    <3>2. a.off = 3
      BY <1>1, <2>2, <2>4 DEF Lane
    <3> QED BY <1>2, <2>1, <2>4, <3>1, <3>2 DEF Lane
  <2>5. CASE a.size = 1
    BY <1>1, <2>2, <2>5 DEF Lane
  <2> QED BY <1>1, <2>3, <2>4, <2>5
<1> QED BY <1>3, <1>4 DEF k

\* The bytes of a part lie in its word, each in a lane of its own.
LEMMA PartPlaces ==
  ASSUME NEW a \in Access, NEW w, NEW i \in Lane
  PROVE  /\ \A k \in FirstBytes(a) :
              Place(a, k) = [word |-> w, lane |-> i] <=> w = a.word /\ k = (i - a.off) % 4
         /\ \A k \in SecondBytes(a) :
              Place(a, k) = [word |-> w, lane |-> i]
                <=> w = NextWord(a.word) /\ k = (i - a.off) % 4
<1>1. a.size \in {1, 2, 4} /\ a.off \in Lane
  BY AccessFields
<1>2. ASSUME NEW k \in BytesOf(a)
      PROVE  Place(a, k) = [word |-> w, lane |-> i]
               <=> /\ w = IF a.off + k < 4 THEN a.word ELSE NextWord(a.word)
                   /\ k = (i - a.off) % 4
  <2>1. k \in Lane
    BY <1>1 DEF BytesOf, Lane
  <2>2. Place(a, k) = [word |-> w, lane |-> i]
          <=> Place(a, k).word = w /\ Place(a, k).lane = i
    BY DEF Place
  <2>3. /\ Place(a, k).lane = (a.off + k) % 4
        /\ Place(a, k).word = IF a.off + k < 4 THEN a.word ELSE NextWord(a.word)
    BY DEF Place
  <2> QED BY <1>1, <2>1, <2>2, <2>3, Rotation
<1> QED BY <1>2 DEF FirstBytes, SecondBytes

\* Storing the bytes of a part is merging its word under its byte enables.
LEMMA PartIsStored ==
  ASSUME NEW a \in Access, NEW second \in BOOLEAN, second => Split(a),
         NEW W, NEW m \in [W -> Word]
  PROVE  StoredBytes(m, a, PartBytes(a, second)) = PartStored(m, a, second)
<1> DEFINE ks == PartBytes(a, second)
           pw == PartWord(a, second)
           new(w) == [i \in Lane |->
                       LET here == {k \in ks : Place(a, k) = [word |-> w, lane |-> i]}
                       IN  IF here = {} THEN m[w][i] ELSE a.wdata[CHOOSE k \in here : TRUE]]
<1>1. ASSUME NEW w \in W, w # pw PROVE new(w) = m[w]
  <2>1. \A i \in Lane : {k \in ks : Place(a, k) = [word |-> w, lane |-> i]} = {}
    BY <1>1, PartPlaces DEF PartBytes, PartWord
  <2>2. m[w] \in Word
    BY <1>1
  <2> QED BY <2>1, <2>2 DEF Word
<1>2. ASSUME pw \in W PROVE new(pw) = Merge(m[pw], DataWdata(a), DataBe(a, second))
  <2> SUFFICES ASSUME NEW i \in Lane
               PROVE  new(pw)[i] = IF i \in DataBe(a, second)
                                     THEN a.wdata[(i - a.off) % 4] ELSE m[pw][i]
    BY DEF Merge, DataWdata
  <2> DEFINE here == {k \in ks : Place(a, k) = [word |-> pw, lane |-> i]}
             k0   == (i - a.off) % 4
  <2>1. here = {k \in ks : k = k0}
    <3>1. \A k \in ks : Place(a, k) = [word |-> pw, lane |-> i] <=> k = k0
      BY PartPlaces DEF PartBytes, PartWord
    <3> HIDE DEF ks, pw, k0
    <3> QED BY <3>1
  <2>2. new(pw)[i] = IF here = {} THEN m[pw][i] ELSE a.wdata[CHOOSE k \in here : TRUE]
    OBVIOUS
  <2>3. i \in DataBe(a, second) <=> k0 \in ks
    BY EnabledLanes
  <2> HIDE DEF new, k0, ks, here
  <2>4. CASE k0 \in ks
    <3>1. here = {k0}
      BY <2>1, <2>4
    <3>2. (CHOOSE k \in here : TRUE) = k0
      BY <3>1
    <3> QED BY <2>2, <2>3, <2>4, <3>1, <3>2 DEF k0
  <2>5. CASE k0 \notin ks
    <3>1. here = {}
      BY <2>1, <2>5
    <3> QED BY <2>2, <2>3, <2>5, <3>1
  <2> QED BY <2>4, <2>5
<1>3. StoredBytes(m, a, ks) = [w \in W |-> new(w)]
  BY DEF StoredBytes
<1> HIDE DEF new, ks
<1>4. CASE pw \in W
  BY <1>1, <1>2, <1>3, <1>4 DEF PartStored, ks
<1>5. CASE pw \notin W
  BY <1>1, <1>3, <1>5 DEF PartStored, ks
<1> QED BY <1>4, <1>5

\* A store is the store of its parts, one after the other.
LEMMA PartsMakeTheStore ==
  ASSUME NEW a \in Access, NEW W, NEW m \in [W -> Word]
  PROVE  Stored(m, a) = IF Split(a) THEN PartStored(PartStored(m, a, FALSE), a, TRUE)
                                    ELSE PartStored(m, a, FALSE)
<1> DEFINE F == PartBytes(a, FALSE)
           S == PartBytes(a, TRUE)
           one == PartStored(m, a, FALSE)
           At(ks, w, i) == {k \in ks : Place(a, k) = [word |-> w, lane |-> i]}
           Some(ks) == CHOOSE k \in ks : TRUE
           Value(n, ks, w, i) == IF At(ks, w, i) = {} THEN n[w][i]
                                 ELSE a.wdata[Some(At(ks, w, i))]
<1>1. BytesOf(a) = F \cup S
  BY DEF PartBytes, FirstBytes, SecondBytes
<1>2. StoredBytes(m, a, F) = one
  BY PartIsStored
<1>3. CASE ~Split(a)
  <2>1. BytesOf(a) = F
    BY <1>1, <1>3, SplitMeans DEF PartBytes
  <2> QED BY <1>2, <1>3, <2>1 DEF Stored
<1>4. CASE Split(a)
  <2>1. one \in [W -> Word]
    BY PartStoredType
  <2>2. StoredBytes(one, a, S) = PartStored(one, a, TRUE)
    BY <1>4, <2>1, PartIsStored
  <2>3. a.word # NextWord(a.word)
    BY AccessFields, NextWordMoves
  <2>4. ASSUME NEW w, NEW i \in Lane
        PROVE  \/ At(F, w, i) = {} /\ At(F \cup S, w, i) = At(S, w, i)
               \/ At(S, w, i) = {} /\ At(F \cup S, w, i) = At(F, w, i)
    <3>1. \A k \in F : Place(a, k) = [word |-> w, lane |-> i] => w = a.word
      BY PartPlaces DEF PartBytes
    <3>2. \A k \in S : Place(a, k) = [word |-> w, lane |-> i] => w = NextWord(a.word)
      BY PartPlaces DEF PartBytes
    <3> QED BY <2>3, <3>1, <3>2
  <2>5. /\ one = [w \in W |-> [i \in Lane |-> Value(m, F, w, i)]]
        /\ StoredBytes(one, a, S) = [w \in W |-> [i \in Lane |-> Value(one, S, w, i)]]
        /\ StoredBytes(m, a, F \cup S) = [w \in W |-> [i \in Lane |-> Value(m, F \cup S, w, i)]]
    <3>1. DOMAIN one = W /\ DOMAIN m = W
      BY <2>1
    <3> HIDE DEF one, F, S
    <3> QED BY <1>2, <3>1, Zenon DEF StoredBytes
  <2> HIDE DEF Value
  <2>6. ASSUME NEW w \in W, NEW i \in Lane
        PROVE  Value(one, S, w, i) = Value(m, F \cup S, w, i)
    <3>1. one[w][i] = Value(m, F, w, i)
      <4> HIDE DEF one, F, S
      <4> QED BY <2>5
    <3> HIDE DEF At, F, S, one, Some
    <3> QED BY <2>4, <3>1 DEF Value
  <2>7. StoredBytes(one, a, S) = StoredBytes(m, a, F \cup S)
    <3> HIDE DEF F, S, one
    <3>1. ASSUME NEW w \in W
          PROVE  [i \in Lane |-> Value(one, S, w, i)] = [i \in Lane |-> Value(m, F \cup S, w, i)]
      BY <2>6
    <3> QED BY <2>5, <3>1, Zenon
  <2> QED BY <1>1, <1>4, <2>2, <2>7 DEF Stored
<1> QED BY <1>3, <1>4

\* What the unit makes of the word kept from the first part and of the last word
\* is what the access reads.
LEMMA WordsMakeTheLoad ==
  ASSUME NEW a \in Access, NEW m, NEW kept, NEW rdata,
         m[a.word] = IF Split(a) THEN kept ELSE rdata,
         Split(a) => m[NextWord(a.word)] = rdata
  PROVE  DataRdataExt(a.off, a.size, a.sext, kept, rdata) = Loaded(m, a)
<1>1. a.size \in {1, 2, 4} /\ a.off \in Lane
  BY AccessFields
<1>2. Split(a) <=> a.off + a.size > 4
  BY SplitMeans
<1> DEFINE got == [k \in 0 .. a.size - 1 |->
                    IF a.off + a.size > 4 /\ a.off + k < 4 THEN kept[a.off + k]
                                                          ELSE rdata[(a.off + k) % 4]]
           meant == [k \in 0 .. a.size - 1 |-> m[Place(a, k).word][Place(a, k).lane]]
<1>3. ASSUME NEW k \in 0 .. a.size - 1
      PROVE  got[k] = meant[k]
  <2>1. /\ Place(a, k).word = IF a.off + k < 4 THEN a.word ELSE NextWord(a.word)
        /\ Place(a, k).lane = (a.off + k) % 4
    BY DEF Place
  <2>2. a.off + k < 4 => (a.off + k) % 4 = a.off + k
    BY <1>1 DEF Lane
  <2>3. ~(a.off + k < 4) => a.off + a.size > 4
    BY <1>1 DEF Lane
  <2> QED BY <1>2, <2>1, <2>2, <2>3
<1>4. got = meant
  BY <1>3
<1>5. DataRdataExt(a.off, a.size, a.sext, kept, rdata) = Extend(got, a.size, a.sext)
  BY DEF DataRdataExt
<1>6. Loaded(m, a) = Extend(meant, a.size, a.sext)
  BY DEF Loaded, BytesOf
<1> QED BY <1>4, <1>5, <1>6

\* The words of an access, what a word of a memory that devices surround reads as,
\* and that memory with what may be read of them.
Touched(a) == {Place(a, k).word : k \in BytesOf(a)}

ReadIn(m, D, w) == IF w \in DOMAIN m THEN {m[w]} ELSE D

WithReads(m, a, D) ==
  LET Outside == Touched(a) \ DOMAIN m
  IN  {[w \in DOMAIN m \cup Outside |-> IF w \in DOMAIN m THEN m[w] ELSE dev[w]] :
         dev \in [Outside -> D]}

\* What was read of the words of an access can be read at one instant.
LEMMA ReadAtOnce ==
  ASSUME NEW a \in Access, NEW m, NEW D, NEW kept, NEW rdata,
         rdata \in ReadIn(m, D, IF Split(a) THEN NextWord(a.word) ELSE a.word),
         Split(a) => kept \in ReadIn(m, D, a.word)
  PROVE  \E n \in WithReads(m, a, D) :
           Loaded(n, a) = DataRdataExt(a.off, a.size, a.sext, kept, rdata)
<1> DEFINE Outside == Touched(a) \ DOMAIN m
           dev == [w \in Outside |-> IF Split(a) /\ w = a.word THEN kept ELSE rdata]
           n   == [w \in DOMAIN m \cup Outside |-> IF w \in DOMAIN m THEN m[w] ELSE dev[w]]
<1>1. /\ a.word \in Touched(a) /\ (Split(a) => NextWord(a.word) \in Touched(a))
      /\ \A w \in Touched(a) : w = a.word \/ (Split(a) /\ w = NextWord(a.word))
  <2>1. a.size \in {1, 2, 4} /\ a.off \in Lane
    BY AccessFields
  <2>2. \A k : Place(a, k).word = IF a.off + k < 4 THEN a.word ELSE NextWord(a.word)
    BY DEF Place
  <2>3. 0 \in BytesOf(a) /\ a.off + 0 < 4 /\ a.size - 1 \in BytesOf(a)
    BY <2>1 DEF BytesOf, Lane
  <2>4. Split(a) => ~(a.off + (a.size - 1) < 4)
    BY <2>1, SplitMeans DEF Lane
  <2>5. \A k \in BytesOf(a) : ~(a.off + k < 4) => Split(a)
    BY <2>1, SplitMeans DEF BytesOf, Lane
  <2>6. Place(a, 0).word = a.word /\ (Split(a) => Place(a, a.size - 1).word = NextWord(a.word))
    BY <2>2, <2>3, <2>4
  <2>7. Place(a, 0).word \in Touched(a) /\ Place(a, a.size - 1).word \in Touched(a)
    BY <2>3 DEF Touched
  <2>8. \A w \in Touched(a) : w = a.word \/ (Split(a) /\ w = NextWord(a.word))
    BY <2>2, <2>5 DEF Touched
  <2> QED BY <2>6, <2>7, <2>8
<1>2. a.word # NextWord(a.word)
  BY AccessFields, NextWordMoves
<1>3. dev \in [Outside -> D]
  <2>1. ASSUME NEW w \in Outside PROVE dev[w] \in D
    <3>1. /\ w \notin DOMAIN m /\ w \in Touched(a)
          /\ dev[w] = IF Split(a) /\ w = a.word THEN kept ELSE rdata
      OBVIOUS
    <3> HIDE DEF dev
    <3> QED BY <1>1, <1>2, <3>1 DEF ReadIn
  <2> QED BY <2>1
<1>4. n \in WithReads(m, a, D)
  <2> HIDE DEF dev
  <2> QED BY <1>3 DEF WithReads
<1>5. /\ n[a.word] = IF Split(a) THEN kept ELSE rdata
      /\ Split(a) => n[NextWord(a.word)] = rdata
  <2>1. ASSUME NEW w \in Touched(a)
        PROVE  n[w] = IF w \in DOMAIN m THEN m[w]
                      ELSE IF Split(a) /\ w = a.word THEN kept ELSE rdata
    OBVIOUS
  <2> HIDE DEF n
  <2> QED BY <1>1, <1>2, <2>1 DEF ReadIn
<1> HIDE DEF n
<1> QED BY <1>4, <1>5, WordsMakeTheLoad

--------------------------------------------------------------------------------
(* The unit, one clock edge at a time.                                     *)

RequestType == [addr : [word : WordNo, off : Lane], we : BOOLEAN, be : SUBSET Lane, wdata : Word]

\* What a request is made of.
LEMMA RequestIsTyped ==
  ASSUME acc \in Access, lsu \in LsuType
  PROVE  /\ DataAddr \in [word : WordNo, off : Lane]
         /\ Request \in RequestType /\ Request.addr = DataAddr
<1>1. acc.word \in WordNo /\ acc.off \in Lane /\ acc.we \in BOOLEAN /\ acc.wdata \in Word
      /\ acc.size \in {1, 2, 4}
  BY AccessFields
<1>2. lsu.addr_last \in WordNo
  BY DEF LsuType
<1>3. DataAddr \in [word : WordNo, off : Lane]
  BY <1>1, <1>2, NextWordMoves DEF DataAddr
<1>4. DataBe(acc, lsu.handle_misaligned) \in SUBSET Lane
  BY <1>1 DEF DataBe, Lane
<1>5. DataWdata(acc) \in Word
  BY <1>1, Lanes DEF DataWdata, Word
<1> QED BY <1>1, <1>3, <1>4, <1>5 DEF Request, RequestType

\* The captured controls leave the rest of the unit alone.
LEMMA ControlledShape ==
  ASSUME lsu \in LsuType, acc \in Access
  PROVE  /\ Controlled \in LsuType /\ Controlled.rdata_q = lsu.rdata_q
         /\ Controlled.cs = lsu.cs /\ Controlled.handle_misaligned = lsu.handle_misaligned
         /\ Controlled.lsu_err = lsu.lsu_err /\ Controlled.addr_last = lsu.addr_last
<1> USE DEF LsuType, Controlled
<1>1. acc.off \in Lane /\ acc.size \in {1, 2, 4} /\ acc.sext \in BOOLEAN
      /\ acc.we \in BOOLEAN /\ acc.float \in BOOLEAN
  BY AccessFields
<1> QED BY <1>1

\* The four registers that matter here, after the clock edge.
Becomes(cs, handle, err, last) ==
  /\ lsu' \in LsuType /\ lsu'.cs = cs /\ lsu'.handle_misaligned = handle
  /\ lsu'.lsu_err = err /\ lsu'.addr_last = last

\* The unit's clock edge on those four, by state.
LEMMA UnitMoves ==
  ASSUME lsu \in LsuType, lsu.cs # "IDLE" => acc # NoAccess, NEW data \in Word,
         acc # NoAccess => acc \in Access /\ DataAddr.word \in WordNo,
         NEW gnt \in BOOLEAN, NEW rvalid \in BOOLEAN, NEW err \in BOOLEAN,
         LsuStep(gnt, rvalid, data, err)
  PROVE  LET h == lsu.handle_misaligned
             e == lsu.lsu_err
             a == lsu.addr_last
             d == DataAddr.word
         IN  \/ lsu.cs = "IDLE" /\ ~LsuReq /\ lsu' = lsu
             \/ lsu.cs = "IDLE" /\ LsuReq /\ gnt /\ Split(acc)
                  /\ Becomes("WAIT_RVALID_MIS", TRUE, FALSE, d)
             \/ lsu.cs = "IDLE" /\ LsuReq /\ gnt /\ ~Split(acc) /\ Becomes("IDLE", FALSE, FALSE, d)
             \/ lsu.cs = "IDLE" /\ LsuReq /\ ~gnt
                  /\ Becomes(IF Split(acc) THEN "WAIT_GNT_MIS" ELSE "WAIT_GNT", h, FALSE, a)
             \/ lsu.cs = "WAIT_GNT_MIS" /\ gnt /\ Becomes("WAIT_RVALID_MIS", TRUE, e, d)
             \/ lsu.cs = "WAIT_GNT_MIS" /\ ~gnt /\ Becomes(lsu.cs, h, e, a)
             \/ lsu.cs = "WAIT_RVALID_MIS" /\ rvalid /\ gnt
                  /\ Becomes("IDLE", FALSE, err, IF err THEN a ELSE d)
             \/ lsu.cs = "WAIT_RVALID_MIS" /\ rvalid /\ ~gnt /\ Becomes("WAIT_GNT", TRUE, err, a)
             \/ lsu.cs = "WAIT_RVALID_MIS" /\ ~rvalid /\ gnt
                  /\ Becomes("WAIT_RVALID_MIS_GNTS_DONE", FALSE, e, a)
             \/ lsu.cs = "WAIT_RVALID_MIS" /\ ~rvalid /\ ~gnt /\ Becomes(lsu.cs, h, e, a)
             \/ lsu.cs = "WAIT_GNT" /\ gnt /\ Becomes("IDLE", FALSE, e, IF e THEN a ELSE d)
             \/ lsu.cs = "WAIT_GNT" /\ ~gnt /\ Becomes(lsu.cs, h, e, a)
             \/ lsu.cs = "WAIT_RVALID_MIS_GNTS_DONE" /\ rvalid
                  /\ Becomes("IDLE", h, err, IF err THEN a ELSE d)
             \/ lsu.cs = "WAIT_RVALID_MIS_GNTS_DONE" /\ ~rvalid /\ Becomes(lsu.cs, h, e, a)
<1>1. CASE Quiet
  BY <1>1 DEF Quiet, LsuType
<1>2. CASE Idle(gnt)
  <2>1. lsu.cs = "IDLE" /\ LsuReq /\ acc # NoAccess
    BY <1>2 DEF Idle, LsuReq
  <2>2. CASE gnt
    <3>1. lsu' = [Controlled EXCEPT !.lsu_err = FALSE, !.addr_last = DataAddr.word,
                    !.handle_misaligned = Split(acc),
                    !.cs = IF Split(acc) THEN "WAIT_RVALID_MIS" ELSE "IDLE"]
      BY <1>2, <2>2 DEF Idle
    <3>2. CASE Split(acc)
      <4>1. Split(acc) = TRUE
        BY <3>2 DEF Split
      <4> QED BY <2>1, <2>2, <3>1, <4>1, ControlledShape DEF Becomes, LsuType, FsmStates
    <3>3. CASE ~Split(acc)
      <4>1. Split(acc) = FALSE
        BY <3>3 DEF Split
      <4> QED BY <2>1, <2>2, <3>1, <4>1, ControlledShape DEF Becomes, LsuType, FsmStates
    <3> QED BY <3>2, <3>3
  <2>3. CASE ~gnt
    BY <1>2, <2>1, <2>3 DEF Idle, Becomes, LsuType, FsmStates
  <2> QED BY <2>2, <2>3
<1>3. CASE WaitGntMis(gnt)
  <2>1. lsu.cs = "WAIT_GNT_MIS" /\ acc # NoAccess
    BY <1>3 DEF WaitGntMis
  <2>2. CASE gnt
    BY <1>3, <2>1, <2>2, ControlledShape DEF WaitGntMis, Becomes, LsuType, FsmStates
  <2>3. CASE ~gnt
    BY <1>3, <2>1, <2>3 DEF WaitGntMis, Becomes, LsuType
  <2> QED BY <2>2, <2>3
<1>4. CASE WaitRvalidMis(gnt, rvalid, data, err)
  <2>1. lsu.cs = "WAIT_RVALID_MIS" /\ acc # NoAccess
    BY <1>4 DEF WaitRvalidMis
  <2>2. CASE rvalid
    BY <1>4, <2>1, <2>2 DEF WaitRvalidMis, FirstAnswer, Becomes, LsuType, FsmStates
  <2>3. CASE ~rvalid
    BY <1>4, <2>1, <2>3 DEF WaitRvalidMis, Becomes, LsuType, FsmStates
  <2> QED BY <2>2, <2>3
<1>5. CASE WaitGnt(gnt)
  <2>1. lsu.cs = "WAIT_GNT" /\ acc # NoAccess
    BY <1>5 DEF WaitGnt
  <2>2. CASE gnt
    BY <1>5, <2>1, <2>2, ControlledShape DEF WaitGnt, Becomes, LsuType, FsmStates
  <2>3. CASE ~gnt
    BY <1>5, <2>1, <2>3 DEF WaitGnt, Becomes, LsuType
  <2> QED BY <2>2, <2>3
<1>6. CASE GntsDone(rvalid, data, err)
  <2>1. lsu.cs = "WAIT_RVALID_MIS_GNTS_DONE" /\ acc # NoAccess
    BY <1>6 DEF GntsDone
  <2>2. CASE rvalid
    BY <1>6, <2>1, <2>2 DEF GntsDone, FirstAnswer, Becomes, LsuType, FsmStates
  <2>3. CASE ~rvalid
    BY <1>6, <2>1, <2>3 DEF GntsDone, Becomes, LsuType
  <2> QED BY <2>2, <2>3
<1> QED BY <1>1, <1>2, <1>3, <1>4, <1>5, <1>6 DEF LsuStep

\* What an answer will be decoded by, after the clock edge: as before, or the
\* access's own.
Holds ==
  /\ lsu'.rdata_offset = lsu.rdata_offset /\ lsu'.data_type = lsu.data_type
  /\ lsu'.sign_ext = lsu.sign_ext /\ lsu'.we = lsu.we /\ lsu'.float = lsu.float

Captured ==
  /\ lsu.rdata_offset = acc.off /\ lsu.data_type = acc.size /\ lsu.sign_ext = acc.sext
  /\ lsu.we = acc.we /\ lsu.float = acc.float

Captures ==
  /\ lsu'.rdata_offset = acc.off /\ lsu'.data_type = acc.size /\ lsu'.sign_ext = acc.sext
  /\ lsu'.we = acc.we /\ lsu'.float = acc.float

\* The grant of a request captures the controls, but for the second one of an access
\* whose first answer is awaited; the first answer of a load is kept.
LEMMA UnitCaptures ==
  ASSUME lsu \in LsuType, NEW data \in Word, acc \in Access,
         NEW gnt \in BOOLEAN, NEW rvalid \in BOOLEAN, NEW err \in BOOLEAN,
         LsuStep(gnt, rvalid, data, err)
  PROVE  /\ gnt /\ ((lsu.cs = "IDLE" /\ LsuReq) \/ lsu.cs \in {"WAIT_GNT_MIS", "WAIT_GNT"}) =>
              Captures /\ lsu'.rdata_q = lsu.rdata_q
         /\ ~gnt /\ lsu.cs \in {"WAIT_GNT_MIS", "WAIT_GNT"} => lsu' = lsu
         /\ lsu.cs \in {"WAIT_RVALID_MIS", "WAIT_RVALID_MIS_GNTS_DONE"} =>
              Holds /\ lsu'.rdata_q = IF rvalid /\ ~lsu.we THEN data ELSE lsu.rdata_q
<1>1. CASE lsu.cs = "IDLE"
  BY <1>1 DEF LsuStep, Idle, WaitGntMis, WaitRvalidMis, WaitGnt, GntsDone, Quiet,
              Controlled, Captures, LsuType
<1>2. CASE lsu.cs = "WAIT_GNT_MIS"
  BY <1>2 DEF LsuStep, Idle, WaitGntMis, WaitRvalidMis, WaitGnt, GntsDone, Quiet,
              Controlled, Captures, LsuType
<1>3. CASE lsu.cs = "WAIT_GNT"
  BY <1>3 DEF LsuStep, Idle, WaitGntMis, WaitRvalidMis, WaitGnt, GntsDone, Quiet,
              Controlled, Captures, LsuType
<1>4. CASE lsu.cs = "WAIT_RVALID_MIS"
  <2>1. WaitRvalidMis(gnt, rvalid, data, err)
    BY <1>4 DEF LsuStep, Idle, WaitGntMis, WaitGnt, GntsDone, Quiet
  <2> QED BY <1>4, <2>1 DEF WaitRvalidMis, FirstAnswer, Holds, LsuType
<1>5. CASE lsu.cs = "WAIT_RVALID_MIS_GNTS_DONE"
  <2>1. GntsDone(rvalid, data, err)
    BY <1>5 DEF LsuStep, Idle, WaitGntMis, WaitGnt, WaitRvalidMis, Quiet
  <2> QED BY <1>5, <2>1 DEF GntsDone, FirstAnswer, Holds, LsuType
<1> QED BY <1>1, <1>2, <1>3, <1>4, <1>5 DEF LsuType, FsmStates
================================================================================
