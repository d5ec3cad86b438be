----------------------------- MODULE LsuBus_proofs -----------------------------
(***************************************************************************)
(* Proofs about the load-store unit on any bus, for every set of accesses, *)
(* word and address width: what is outstanding in which state of the unit, *)
(* the stability of its request, and the address it keeps for a trap.      *)
(***************************************************************************)
EXTENDS LsuBus, LoadStoreUnit_proofs, SequenceTheorems

Memory == [DOMAIN InitMem -> Word]

Shape ==
  /\ acc \in Accesses \cup {NoAccess} /\ first \in BOOLEAN /\ lsu \in LsuType
  /\ pend \in Seq(RequestType) /\ fault \in Seq(WordNo)
  /\ mem \in Memory /\ before \in Memory

\* The requests outstanding in each state while an access waits.
Outstanding ==
  /\ lsu.cs \in {"WAIT_GNT_MIS", "WAIT_GNT"} => Len(pend) = 0
  /\ lsu.cs \in {"IDLE", "WAIT_RVALID_MIS"} => Len(pend) = 1
  /\ lsu.cs = "WAIT_RVALID_MIS_GNTS_DONE" =>
       Len(pend) = 2 /\ pend[2].addr.word = NextWord(lsu.addr_last)

\* handle_misaligned tells that the second request is the next one.
SecondPart ==
  /\ lsu.cs \in {"IDLE", "WAIT_GNT_MIS", "WAIT_RVALID_MIS_GNTS_DONE"} => ~lsu.handle_misaligned
  /\ lsu.cs = "WAIT_RVALID_MIS" => lsu.handle_misaligned

\* The address kept is that of the first failure, and until there is one that of
\* the oldest request.
Failure ==
  /\ lsu.lsu_err <=> fault # <<>>
  /\ fault # <<>> => lsu.addr_last = fault[1]
  /\ ~lsu.lsu_err /\ Len(pend) # 0 => lsu.addr_last = pend[1].addr.word
  /\ lsu.cs \notin {"IDLE", "WAIT_GNT"} => ~lsu.lsu_err
  /\ ~lsu.handle_misaligned /\ lsu.cs = "WAIT_GNT" => ~lsu.lsu_err

\* The inductive invariant.
LsuInv ==
  /\ Shape /\ SecondPart
  /\ acc = NoAccess => first /\ TrapIsPrecise
  /\ first => lsu.cs = "IDLE" /\ Len(pend) = 0
  /\ acc # NoAccess /\ first => fault = <<>>
  /\ ~first => Outstanding /\ Failure

\* What the bus delivers is a word, and what it stores leaves a memory of words.
LEMMA BusWords ==
  ASSUME Shape, NEW rvalid \in BOOLEAN, NEW err \in BOOLEAN, rvalid => pend # <<>>
  PROVE  /\ RData(rvalid) \subseteq Word
         /\ Answering(rvalid, err) => mem' \in Memory
<1>1. mem \in Memory /\ DeviceWords \subseteq Word
  BY LsuBusAssumption DEF Shape
<1>2. Serial!NoData \in Word
  BY AccessAssumption DEF Serial!NoData, Serial!Lane, Word, Byte, Lane
<1>3. RData(rvalid) \subseteq Word
  BY <1>1, <1>2 DEF RData, Reads, Memory
<1>4. ASSUME Answering(rvalid, err) PROVE mem' \in Memory
  <2>1. CASE rvalid
    <3>1. Head(pend) \in RequestType
      BY <2>1, HeadTailProperties DEF Shape
    <3>2. ASSUME NEW old \in Word
          PROVE  Merge(old, Head(pend).wdata, Head(pend).be) \in Word
      BY <3>1 DEF RequestType, Merge, Word
    <3> QED BY <1>1, <1>4, <3>2 DEF Answering, Memory
  <2>2. CASE ~rvalid
    BY <1>1, <1>4, <2>2 DEF Answering
  <2> QED BY <2>1, <2>2
<1> QED BY <1>3, <1>4

\* The requests outstanding after a clock edge.
LEMMA PendStep ==
  ASSUME Shape, NEW gnt \in BOOLEAN, NEW rvalid \in BOOLEAN,
         gnt => acc # NoAccess, rvalid => pend # <<>>, Granting(gnt, rvalid)
  PROVE  LET n == Len(pend) - (IF rvalid THEN 1 ELSE 0)
         IN  /\ pend' \in Seq(RequestType) /\ n \in Nat
             /\ Len(pend') = n + (IF gnt THEN 1 ELSE 0)
             /\ \A i \in 1 .. n : pend'[i] = pend[IF rvalid THEN i + 1 ELSE i]
             /\ gnt => pend'[n + 1] = Request
             /\ ~gnt /\ ~rvalid => pend' = pend
<1> DEFINE rest == IF rvalid THEN Tail(pend) ELSE pend
           n    == Len(pend) - (IF rvalid THEN 1 ELSE 0)
<1>1. pend \in Seq(RequestType) /\ Len(pend) \in Nat
  BY LenProperties DEF Shape
<1>2. /\ rest \in Seq(RequestType) /\ Len(rest) = n /\ n \in Nat
      /\ \A i \in 1 .. n : rest[i] = pend[IF rvalid THEN i + 1 ELSE i]
  <2>1. CASE rvalid
    <3>1. pend # <<>> /\ Len(pend) # 0
      BY <1>1, <2>1, EmptySeq
    <3> QED BY <1>1, <2>1, <3>1, HeadTailProperties
  <2>2. CASE ~rvalid
    BY <1>1, <2>2
  <2> QED BY <2>1, <2>2
<1>3. pend' = IF gnt THEN Append(rest, Request) ELSE rest
  BY DEF Granting
<1>4. gnt => Request \in RequestType
  BY AccessesAssumption, RequestIsTyped DEF Shape
<1>5. ~gnt /\ ~rvalid => pend' = pend
  BY <1>3
<1> HIDE DEF rest, n
<1>6. CASE gnt
  <2>1. /\ Append(rest, Request) \in Seq(RequestType)
        /\ Len(Append(rest, Request)) = n + 1
        /\ \A i \in 1 .. n : Append(rest, Request)[i] = rest[i]
        /\ Append(rest, Request)[n + 1] = Request
    BY <1>2, <1>4, <1>6, AppendProperties
  <2> QED BY <1>2, <1>3, <1>5, <1>6, <2>1 DEF n
<1>7. CASE ~gnt
  BY <1>2, <1>3, <1>5, <1>7 DEF n
<1> QED BY <1>6, <1>7

\* What a clock edge does to everything but the state of the unit.
LEMMA EdgeFacts ==
  ASSUME LsuInv, NEW gnt \in BOOLEAN, NEW rvalid \in BOOLEAN, NEW err \in BOOLEAN,
         Clock(gnt, rvalid, err)
  PROVE  /\ gnt => DataReq
         /\ DataReq => acc # NoAccess
         /\ rvalid => pend # <<>> /\ Len(pend) # 0 /\ ~first
         /\ err => rvalid
<1>1. (gnt => DataReq) /\ (rvalid => pend # <<>>) /\ (err => rvalid)
  BY DEF Clock
<1>2. pend # <<>> => Len(pend) # 0
  BY EmptySeq DEF LsuInv, Shape
<1>3. DataReq => acc # NoAccess
  BY DEF DataReq, LsuReq, LsuInv
<1> QED BY <1>1, <1>2, <1>3 DEF LsuInv

\* The history of failures stays typed.
LEMMA FaultStep ==
  ASSUME LsuInv, NEW gnt \in BOOLEAN, NEW rvalid \in BOOLEAN, NEW err \in BOOLEAN,
         Clock(gnt, rvalid, err)
  PROVE  /\ fault' \in Seq(WordNo)
         /\ acc' # NoAccess /\ first' => fault' = <<>>
         /\ ~(acc' # NoAccess /\ first') /\ ~err => fault' = fault
         /\ ~(acc' # NoAccess /\ first') /\ err =>
              fault' # <<>> /\ fault'[1] = IF fault = <<>> THEN pend[1].addr.word ELSE fault[1]
<1>1. fault' = IF acc' # NoAccess /\ first' THEN <<>>
               ELSE IF err THEN Append(fault, Head(pend).addr.word) ELSE fault
  BY DEF Clock
<1>2. fault \in Seq(WordNo) /\ pend \in Seq(RequestType) /\ Len(fault) \in Nat
  BY LenProperties DEF LsuInv, Shape
<1>3. ASSUME err
      PROVE  LET w == Head(pend).addr.word
             IN  /\ Append(fault, w) \in Seq(WordNo) /\ Append(fault, w) # <<>>
                 /\ Append(fault, w)[1] = IF fault = <<>> THEN pend[1].addr.word ELSE fault[1]
  <2> DEFINE w == Head(pend).addr.word
  <2>1. pend # <<>>
    BY <1>3, EdgeFacts
  <2>2. Head(pend) \in RequestType /\ Head(pend) = pend[1]
    BY <1>2, <2>1, HeadTailProperties
  <2>3. w \in WordNo /\ w = pend[1].addr.word
    BY <2>2 DEF RequestType
  <2> HIDE DEF w
  <2>4. /\ Append(fault, w) \in Seq(WordNo) /\ Append(fault, w) # <<>>
        /\ \A i \in 1 .. Len(fault) : Append(fault, w)[i] = fault[i]
        /\ Append(fault, w)[Len(fault) + 1] = w
    BY <1>2, <2>3, AppendProperties
  <2>5. CASE fault = <<>>
    BY <2>3, <2>4, <2>5, EmptySeq DEF w
  <2>6. CASE fault # <<>>
    <3>1. Len(fault) # 0
      BY <1>2, <2>6, EmptySeq
    <3> QED BY <1>2, <2>4, <2>6, <3>1 DEF w
  <2> QED BY <2>5, <2>6
<1>4. <<>> \in Seq(WordNo)
  BY EmptySeq
<1> QED BY <1>1, <1>2, <1>3, <1>4

\* Everything but the invariant's own parts, for the cases below.
LEMMA Edge ==
  ASSUME LsuInv, NEW gnt \in BOOLEAN, NEW rvalid \in BOOLEAN, NEW err \in BOOLEAN,
         Clock(gnt, rvalid, err)
  PROVE  /\ acc # NoAccess => acc \in Access /\ DataAddr.word \in WordNo
         /\ \E data \in RData(rvalid) :
              /\ data \in Word /\ LsuStep(gnt, rvalid, data, err)
              /\ resp' = Response(rvalid, data, err)
         /\ IdStage(rvalid, err)
         /\ Shape'
<1>1. acc # NoAccess => acc \in Access /\ DataAddr.word \in WordNo
  BY AccessesAssumption, RequestIsTyped DEF LsuInv, Shape
<1>2. (rvalid => pend # <<>>) /\ IdStage(rvalid, err) /\ Answering(rvalid, err)
  BY DEF Clock
<1>3. PICK data \in RData(rvalid) :
        LsuStep(gnt, rvalid, data, err) /\ resp' = Response(rvalid, data, err)
  BY DEF Clock
<1>4. data \in Word /\ mem' \in Memory
  BY <1>2, BusWords DEF LsuInv
<1>5. lsu' \in LsuType
  <2>1. lsu \in LsuType /\ (lsu.cs # "IDLE" => acc # NoAccess)
    BY DEF LsuInv, Shape
  <2> QED BY <1>1, <1>3, <1>4, <2>1, UnitMoves DEF Becomes
<1>6. pend' \in Seq(RequestType)
  BY EdgeFacts, PendStep DEF Clock, LsuInv
<1>7. acc' \in Accesses \cup {NoAccess} /\ first' \in BOOLEAN
  BY <1>2 DEF IdStage, LsuInv, Shape
<1>8. before' \in Memory
  BY <1>4 DEF Clock, LsuInv, Shape
<1> QED BY <1>1, <1>2, <1>3, <1>4, <1>5, <1>6, <1>7, <1>8, FaultStep DEF Shape

\* The requests outstanding before and after a clock edge.
PendMoves(gnt, rvalid) ==
  /\ Len(pend) \in Nat
  /\ Len(pend') = Len(pend) - (IF rvalid THEN 1 ELSE 0) + (IF gnt THEN 1 ELSE 0)
  /\ ~rvalid /\ Len(pend) # 0 => pend'[1] = pend[1]
  /\ rvalid /\ Len(pend) = 2 => pend'[1] = pend[2]
  /\ ~rvalid /\ Len(pend) = 2 => pend'[2] = pend[2]
  /\ gnt => pend'[Len(pend')] = Request /\ pend'[Len(pend')].addr.word = DataAddr.word
  /\ ~gnt /\ ~rvalid => pend' = pend

\* What an edge makes of the list of outstanding requests.
LEMMA PendEdge ==
  ASSUME LsuInv, NEW gnt \in BOOLEAN, NEW rvalid \in BOOLEAN, NEW err \in BOOLEAN,
         Clock(gnt, rvalid, err)
  PROVE  PendMoves(gnt, rvalid)
<1> DEFINE n == Len(pend) - (IF rvalid THEN 1 ELSE 0)
<1>1. /\ n \in Nat /\ Len(pend') = n + (IF gnt THEN 1 ELSE 0)
      /\ \A i \in 1 .. n : pend'[i] = pend[IF rvalid THEN i + 1 ELSE i]
      /\ gnt => pend'[n + 1] = Request
      /\ ~gnt /\ ~rvalid => pend' = pend
  <2>1. Granting(gnt, rvalid) /\ Shape
    BY DEF Clock, LsuInv
  <2>2. (gnt => acc # NoAccess) /\ (rvalid => pend # <<>>)
    BY EdgeFacts
  <2> QED BY <2>1, <2>2, PendStep
<1>2. gnt => Request.addr = DataAddr
  BY DEF Request
<1>3. Len(pend) \in Nat
  BY LenProperties DEF LsuInv, Shape
<1>4. ~rvalid /\ Len(pend) # 0 => pend'[1] = pend[1]
  BY <1>1, <1>3
<1>5. rvalid /\ Len(pend) = 2 => pend'[1] = pend[2]
  BY <1>1, <1>3
<1>6. ~rvalid /\ Len(pend) = 2 => pend'[2] = pend[2]
  BY <1>1, <1>3
<1> QED BY <1>1, <1>2, <1>3, <1>4, <1>5, <1>6 DEF PendMoves

\* No access in the ID stage: nothing happens on the bus.
LEMMA FreeEdge ==
  ASSUME LsuInv, NEW gnt \in BOOLEAN, NEW rvalid \in BOOLEAN, NEW err \in BOOLEAN,
         Clock(gnt, rvalid, err), acc = NoAccess
  PROVE  LsuInv'
<1>0. PendMoves(gnt, rvalid)
  BY PendEdge
<1>1. first /\ TrapIsPrecise /\ lsu.cs = "IDLE" /\ Len(pend) = 0 /\ SecondPart
  BY DEF LsuInv
<1>2. ~gnt /\ ~rvalid /\ ~err
  BY <1>1, EdgeFacts
<1>3. lsu' = lsu
  BY <1>1, Edge DEF LsuStep, Quiet, Idle, WaitGntMis, WaitRvalidMis, WaitGnt, GntsDone, LsuReq
<1>4. first' = TRUE
  BY Edge DEF IdStage
<1>5. pend' = pend
  BY <1>0, <1>2 DEF PendMoves
<1>6. resp' = resp
  BY <1>1, Edge DEF Response, Leaves
<1>7. IF acc' = NoAccess THEN fault' = fault ELSE fault' = <<>>
  BY <1>2, <1>4, FaultStep
<1>8. Shape'
  BY Edge
<1>9. SecondPart'
  BY <1>1, <1>3 DEF SecondPart
<1>10. TrapIsPrecise'
  BY <1>1, <1>3, <1>6, <1>7 DEF TrapIsPrecise
<1> QED BY <1>1, <1>3, <1>4, <1>5, <1>7, <1>8, <1>9, <1>10 DEF LsuInv

\* The first cycle of an access: its request is granted or waits.
LEMMA FirstEdge ==
  ASSUME LsuInv, NEW gnt \in BOOLEAN, NEW rvalid \in BOOLEAN, NEW err \in BOOLEAN,
         Clock(gnt, rvalid, err), acc # NoAccess, first
  PROVE  LsuInv'
<1>0. PendMoves(gnt, rvalid)
  BY PendEdge
<1>1. lsu.cs = "IDLE" /\ Len(pend) = 0 /\ fault = <<>> /\ ~lsu.handle_misaligned
  BY DEF LsuInv, SecondPart
<1>2. ~rvalid /\ ~err
  BY <1>1, EdgeFacts
<1>3. acc' = acc /\ first' = FALSE
  BY Edge DEF IdStage, Leaves
<1>4. fault' = <<>>
  BY <1>1, <1>2, <1>3, FaultStep
<1>5. /\ Len(pend') = IF gnt THEN 1 ELSE 0
      /\ gnt => pend'[1].addr.word = DataAddr.word
  BY <1>0, <1>1, <1>2 DEF PendMoves
<1>6. LsuReq
  BY DEF LsuReq
<1>7. \/ gnt /\ Becomes("WAIT_RVALID_MIS", TRUE, FALSE, DataAddr.word)
      \/ gnt /\ Becomes("IDLE", FALSE, FALSE, DataAddr.word)
      \/ ~gnt /\ Becomes(IF Split(acc) THEN "WAIT_GNT_MIS" ELSE "WAIT_GNT",
                         lsu.handle_misaligned, FALSE, lsu.addr_last)
  <2>1. PICK data \in Word : LsuStep(gnt, rvalid, data, err)
    BY Edge
  <2>2. lsu \in LsuType
    BY DEF LsuInv, Shape
  <2> QED BY <1>1, <1>6, <2>1, <2>2, Edge, UnitMoves
<1>8. Outstanding' /\ SecondPart' /\ Failure'
  BY <1>1, <1>4, <1>5, <1>7 DEF Becomes, Outstanding, SecondPart, Failure
<1> QED BY <1>3, <1>8, Edge DEF LsuInv

\* The answer to the last part: the instruction leaves, with the right trap.
LEMMA LeavingEdge ==
  ASSUME LsuInv, NEW gnt \in BOOLEAN, NEW rvalid \in BOOLEAN, NEW err \in BOOLEAN,
         Clock(gnt, rvalid, err), acc # NoAccess, ~first, Leaves(rvalid)
  PROVE  LsuInv'
<1>0. PendMoves(gnt, rvalid)
  BY PendEdge
<1>1. lsu.cs = "IDLE" /\ rvalid /\ Outstanding /\ Failure /\ SecondPart /\ Len(pend) = 1
  BY DEF LsuInv, Leaves, RespValid, Outstanding
<1>2. ~gnt
  BY <1>1, EdgeFacts DEF DataReq, LsuReq
<1>3. lsu' = lsu
  BY <1>1, Edge DEF LsuStep, Quiet, Idle, WaitGntMis, WaitRvalidMis, WaitGnt, GntsDone, LsuReq
<1>4. first' = TRUE
  BY Edge DEF IdStage
<1>5. Len(pend') = 0
  BY <1>0, <1>1, <1>2 DEF PendMoves
<1>6. resp'.kind = RespKind(err)
  BY Edge DEF Response, Serial!Answer
<1>7. acc' # NoAccess => fault' = <<>>
  BY <1>4, FaultStep
<1>8. TrapIsPrecise'
  <2> SUFFICES ASSUME acc' = NoAccess
               PROVE  /\ resp'.kind = "error" <=> fault' # <<>>
                      /\ fault' # <<>> => lsu'.addr_last = fault'[1]
    BY DEF TrapIsPrecise
  <2>1. RespKind(err) = "error" <=> lsu.lsu_err \/ err
    BY DEF RespKind
  <2>2. (lsu.lsu_err <=> fault # <<>>) /\ (fault # <<>> => lsu.addr_last = fault[1])
        /\ (~lsu.lsu_err => lsu.addr_last = pend[1].addr.word)
    BY <1>1 DEF Failure
  <2>3. CASE err
    BY <1>3, <1>6, <2>1, <2>2, <2>3, FaultStep
  <2>4. CASE ~err
    BY <1>3, <1>6, <2>1, <2>2, <2>4, FaultStep
  <2> QED BY <2>3, <2>4
<1>9. SecondPart'
  BY <1>1, <1>3 DEF SecondPart
<1> QED BY <1>1, <1>3, <1>4, <1>5, <1>7, <1>8, <1>9, Edge DEF LsuInv

\* The access waits: for a grant, for the answer to its first part, or for both.
LEMMA WaitingEdge ==
  ASSUME LsuInv, NEW gnt \in BOOLEAN, NEW rvalid \in BOOLEAN, NEW err \in BOOLEAN,
         Clock(gnt, rvalid, err), acc # NoAccess, ~first, ~Leaves(rvalid)
  PROVE  LsuInv'
<1>0. PendMoves(gnt, rvalid)
  BY PendEdge
<1>1. Outstanding /\ Failure /\ SecondPart /\ lsu \in LsuType
  BY DEF LsuInv, Shape
<1>2. acc' = acc /\ first' = FALSE
  BY Edge DEF IdStage
<1>3. (err => rvalid) /\ (rvalid => Len(pend) # 0) /\ (gnt => DataReq)
  BY EdgeFacts
<1>4. (~err => fault' = fault)
      /\ (err => /\ fault' # <<>>
                 /\ fault'[1] = IF fault = <<>> THEN pend[1].addr.word ELSE fault[1])
  BY <1>2, FaultStep
<1>5. PICK data \in Word : LsuStep(gnt, rvalid, data, err)
  BY Edge
<1>6. DataAddr.word \in WordNo /\ acc \in Access
  BY Edge
<1>7. CASE lsu.cs = "IDLE"
  <2>1. ~rvalid /\ ~gnt /\ ~err
    BY <1>3, <1>7 DEF Leaves, RespValid, DataReq, LsuReq
  <2>2. lsu' = lsu
    BY <1>5, <1>6, <1>7
    DEF LsuStep, Quiet, Idle, WaitGntMis, WaitRvalidMis, WaitGnt, GntsDone, LsuReq
  <2>3. pend' = pend /\ fault' = fault
    BY <1>0, <1>4, <2>1 DEF PendMoves
  <2>4. Outstanding' /\ SecondPart' /\ Failure'
    BY <1>1, <2>2, <2>3 DEF Outstanding, SecondPart, Failure
  <2> QED BY <1>2, <2>4, Edge DEF LsuInv
<1>8. CASE lsu.cs = "WAIT_GNT_MIS"
  <2>1. ~rvalid /\ ~err /\ ~lsu.lsu_err /\ ~lsu.handle_misaligned /\ Len(pend) = 0
    BY <1>1, <1>3, <1>8 DEF Outstanding, Failure, SecondPart
  <2>2. \/ gnt /\ Becomes("WAIT_RVALID_MIS", TRUE, lsu.lsu_err, DataAddr.word)
        \/ ~gnt /\ Becomes(lsu.cs, lsu.handle_misaligned, lsu.lsu_err, lsu.addr_last)
    BY <1>1, <1>5, <1>6, <1>8, UnitMoves
  <2>3. Outstanding' /\ SecondPart' /\ Failure'
    BY <1>0, <1>1, <1>4, <1>8, <2>1, <2>2 DEF PendMoves, Becomes, Outstanding, SecondPart, Failure
  <2> QED BY <1>2, <2>3, Edge DEF LsuInv
<1>9. CASE lsu.cs = "WAIT_RVALID_MIS"
  <2>1. Len(pend) = 1 /\ ~lsu.lsu_err /\ lsu.handle_misaligned /\ fault = <<>>
        /\ lsu.addr_last = pend[1].addr.word
    <3>1. Len(pend) = 1 /\ lsu.handle_misaligned /\ ~lsu.lsu_err
      BY <1>1, <1>9 DEF Outstanding, Failure, SecondPart
    <3> QED BY <1>1, <3>1 DEF Failure
  <2>2. DataAddr.word = NextWord(lsu.addr_last)
    BY <1>9 DEF DataAddr, AddrIncr
  <2>3. CASE rvalid /\ gnt
    <3>1. Becomes("IDLE", FALSE, err, IF err THEN lsu.addr_last ELSE DataAddr.word)
      BY <1>1, <1>5, <1>6, <1>9, <2>3, UnitMoves
    <3>2. Outstanding' /\ SecondPart' /\ Failure'
      BY <1>0, <1>1, <1>4, <2>1, <2>3, <3>1 DEF PendMoves, Becomes, Outstanding, SecondPart, Failure
    <3> QED BY <1>2, <3>2, Edge DEF LsuInv
  <2>4. CASE rvalid /\ ~gnt
    <3>1. Becomes("WAIT_GNT", TRUE, err, lsu.addr_last)
      BY <1>1, <1>5, <1>6, <1>9, <2>4, UnitMoves
    <3>2. Outstanding' /\ SecondPart' /\ Failure'
      BY <1>0, <1>1, <1>4, <2>1, <2>4, <3>1 DEF PendMoves, Becomes, Outstanding, SecondPart, Failure
    <3> QED BY <1>2, <3>2, Edge DEF LsuInv
  <2>5. CASE ~rvalid /\ gnt
    <3>1. Becomes("WAIT_RVALID_MIS_GNTS_DONE", FALSE, lsu.lsu_err, lsu.addr_last)
      BY <1>1, <1>5, <1>6, <1>9, <2>5, UnitMoves
    <3>2. Len(pend') = 2 /\ pend'[2].addr.word = NextWord(lsu.addr_last) /\ pend'[1] = pend[1]
      BY <1>0, <2>1, <2>2, <2>5 DEF PendMoves
    <3>3. Outstanding' /\ SecondPart' /\ Failure'
      BY <1>1, <1>3, <1>4, <2>1, <2>5, <3>1, <3>2
      DEF Becomes, Outstanding, SecondPart, Failure, NextWord
    <3> QED BY <1>2, <3>3, Edge DEF LsuInv
  <2>6. CASE ~rvalid /\ ~gnt
    <3>1. Becomes(lsu.cs, lsu.handle_misaligned, lsu.lsu_err, lsu.addr_last)
      BY <1>1, <1>5, <1>6, <1>9, <2>6, UnitMoves
    <3>2. Outstanding' /\ SecondPart' /\ Failure'
      BY <1>0, <1>1, <1>3, <1>4, <1>9, <2>1, <2>6, <3>1
      DEF PendMoves, Becomes, Outstanding, SecondPart, Failure
    <3> QED BY <1>2, <3>2, Edge DEF LsuInv
  <2> QED BY <2>3, <2>4, <2>5, <2>6
<1>10. CASE lsu.cs = "WAIT_GNT"
  <2>1. ~rvalid /\ ~err /\ Len(pend) = 0
    BY <1>1, <1>3, <1>10 DEF Outstanding
  <2>2. \/ gnt /\ Becomes("IDLE", FALSE, lsu.lsu_err,
                          IF lsu.lsu_err THEN lsu.addr_last ELSE DataAddr.word)
        \/ ~gnt /\ Becomes(lsu.cs, lsu.handle_misaligned, lsu.lsu_err, lsu.addr_last)
    BY <1>1, <1>5, <1>6, <1>10, UnitMoves
  <2>3. Outstanding' /\ SecondPart' /\ Failure'
    BY <1>0, <1>1, <1>4, <1>10, <2>1, <2>2 DEF PendMoves, Becomes, Outstanding, SecondPart, Failure
  <2> QED BY <1>2, <2>3, Edge DEF LsuInv
<1>11. CASE lsu.cs = "WAIT_RVALID_MIS_GNTS_DONE"
  <2>1. /\ Len(pend) = 2 /\ ~lsu.lsu_err /\ ~lsu.handle_misaligned /\ fault = <<>>
        /\ lsu.addr_last = pend[1].addr.word /\ ~gnt
        /\ pend[2].addr.word = DataAddr.word
    <3>1. Len(pend) = 2 /\ ~lsu.lsu_err /\ ~lsu.handle_misaligned /\ ~gnt
      BY <1>1, <1>3, <1>11 DEF Outstanding, Failure, SecondPart, DataReq, LsuReq
    <3>2. fault = <<>> /\ lsu.addr_last = pend[1].addr.word
      BY <1>1, <3>1 DEF Failure
    <3>3. pend[2].addr.word = DataAddr.word
      BY <1>1, <1>11 DEF Outstanding, DataAddr, AddrIncr
    <3> QED BY <3>1, <3>2, <3>3
  <2>2. CASE rvalid
    <3>1. Becomes("IDLE", lsu.handle_misaligned, err,
                  IF err THEN lsu.addr_last ELSE DataAddr.word)
      BY <1>1, <1>5, <1>6, <1>11, <2>2, UnitMoves
    <3>2. Outstanding' /\ SecondPart' /\ Failure'
      BY <1>0, <1>1, <1>4, <2>1, <2>2, <3>1 DEF PendMoves, Becomes, Outstanding, SecondPart, Failure
    <3> QED BY <1>2, <3>2, Edge DEF LsuInv
  <2>3. CASE ~rvalid
    <3>1. Becomes(lsu.cs, lsu.handle_misaligned, lsu.lsu_err, lsu.addr_last) /\ pend' = pend
      BY <1>0, <1>1, <1>5, <1>6, <1>11, <2>1, <2>3, UnitMoves DEF PendMoves
    <3>2. Outstanding' /\ SecondPart' /\ Failure'
      BY <1>1, <1>3, <1>4, <1>11, <2>1, <2>3, <3>1
      DEF Becomes, Outstanding, SecondPart, Failure, NextWord
    <3> QED BY <1>2, <3>2, Edge DEF LsuInv
  <2> QED BY <2>2, <2>3
<1> QED BY <1>1, <1>7, <1>8, <1>9, <1>10, <1>11 DEF LsuType, FsmStates

\* After power-up the unit is idle with nothing outstanding.
LEMMA LsuInitially == Init => LsuInv
<1> SUFFICES ASSUME Init PROVE LsuInv
  OBVIOUS
<1>1. lsu = LsuReset /\ acc = NoAccess /\ first = TRUE /\ pend = <<>> /\ fault = <<>>
      /\ resp.kind = "none"
  BY DEF Init, LsuInit, Serial!NoAnswer
<1>2. 0 \in WordNo /\ 0 \in Lane
  <2>1. WordSpan \in Nat /\ WordSpan # 0
    BY AccessAssumption
  <2> QED BY <2>1 DEF WordNo, Lane
<1>3. lsu \in LsuType
  <2>1. [i \in Lane |-> 0] \in Word
    BY AccessAssumption DEF Word, Byte
  <2> QED BY <1>1, <1>2, <2>1 DEF LsuType, LsuReset, FsmStates
<1>4. Len(pend) = 0 /\ pend \in Seq(RequestType) /\ fault \in Seq(WordNo)
  BY <1>1, EmptySeq
<1>5. SecondPart /\ TrapIsPrecise /\ lsu.cs = "IDLE"
  BY <1>1 DEF SecondPart, TrapIsPrecise, LsuReset
<1>6. mem \in Memory /\ before \in Memory
  BY LsuBusAssumption DEF Init, Memory
<1> QED BY <1>1, <1>3, <1>4, <1>5, <1>6 DEF LsuInv, Shape

\* Every clock edge keeps the invariant.
LEMMA LsuStepKeeps == LsuInv /\ [Next]_vars => LsuInv'
<1> SUFFICES ASSUME LsuInv, [Next]_vars PROVE LsuInv'
  OBVIOUS
<1>1. CASE Next
  <2>1. PICK gnt \in BOOLEAN, rvalid \in BOOLEAN, err \in BOOLEAN : Clock(gnt, rvalid, err)
    BY <1>1 DEF Next
  <2>2. CASE acc = NoAccess
    BY <2>1, <2>2, FreeEdge
  <2>3. CASE acc # NoAccess /\ first
    BY <2>1, <2>3, FirstEdge
  <2>4. CASE acc # NoAccess /\ ~first /\ Leaves(rvalid)
    BY <2>1, <2>4, LeavingEdge
  <2>5. CASE acc # NoAccess /\ ~first /\ ~Leaves(rvalid)
    BY <2>1, <2>5, WaitingEdge
  <2> QED BY <2>2, <2>3, <2>4, <2>5
<1>2. CASE UNCHANGED vars
  BY <1>2 DEF vars, lsuVars, busVars, LsuInv, Shape, SecondPart, TrapIsPrecise,
              Outstanding, Failure
<1> QED BY <1>1, <1>2

\* The invariant holds in every reachable state.
LEMMA LsuInvariant == Spec => []LsuInv
  BY LsuInitially, LsuStepKeeps, PTL DEF Spec

\* A grant shows in the requests outstanding, even when an answer comes with it.
LEMMA GrantShows ==
  ASSUME LsuInv, NEW gnt \in BOOLEAN, NEW rvalid \in BOOLEAN, NEW err \in BOOLEAN,
         Clock(gnt, rvalid, err), gnt
  PROVE  GrantedNow
<1>1. PendMoves(gnt, rvalid)
  BY PendEdge
<1>2. DataReq /\ (rvalid => Len(pend) # 0 /\ ~first)
  BY EdgeFacts
<1>3. CASE ~rvalid
  BY <1>1, <1>3 DEF PendMoves, GrantedNow
<1>4. CASE rvalid
  <2>1. Outstanding /\ Failure /\ ~LsuReq
    BY <1>2, <1>4 DEF LsuInv, LsuReq
  <2>2. lsu.cs = "WAIT_RVALID_MIS" /\ Len(pend) = 1
    BY <1>2, <1>4, <2>1 DEF DataReq, Outstanding
  <2>3. lsu.addr_last = pend[1].addr.word /\ lsu.addr_last \in WordNo
    <3>1. ~lsu.lsu_err
      BY <2>1, <2>2 DEF Failure
    <3> QED BY <2>1, <2>2, <3>1 DEF Failure, LsuInv, Shape, LsuType
  <2>4. DataAddr.word # pend[1].addr.word
    BY <2>2, <2>3, NextWordMoves DEF DataAddr, AddrIncr
  <2>5. Len(pend') = 1 /\ pend'[1].addr.word = DataAddr.word
    BY <1>1, <1>4, <2>2 DEF PendMoves
  <2> QED BY <2>2, <2>4, <2>5 DEF GrantedNow
<1> QED BY <1>3, <1>4

\* A request that is not granted is made again, the same.
LEMMA RequestStays ==
  ASSUME LsuInv, NEW rvalid \in BOOLEAN, NEW err \in BOOLEAN,
         Clock(FALSE, rvalid, err), DataReq
  PROVE  DataReq' /\ Request' = Request
<1> DEFINE h == lsu.handle_misaligned
<1>1. acc # NoAccess /\ acc \in Access /\ DataAddr.word \in WordNo /\ IdStage(rvalid, err)
  BY Edge, EdgeFacts
<1>2. PICK data \in Word : LsuStep(FALSE, rvalid, data, err)
  BY Edge
<1>3. lsu \in LsuType /\ SecondPart
  BY DEF LsuInv, Shape
<1>4. ~Leaves(rvalid)
  BY DEF DataReq, LsuReq, Leaves, RespValid
<1>5. acc' = acc
  BY <1>1, <1>4 DEF IdStage
<1>6. CASE lsu.cs = "IDLE"
  <2>1. ~h /\ LsuReq
    BY <1>3, <1>6 DEF SecondPart, DataReq
  <2>2. Becomes(IF Split(acc) THEN "WAIT_GNT_MIS" ELSE "WAIT_GNT", h, FALSE, lsu.addr_last)
    BY <1>1, <1>2, <1>3, <1>6, <2>1, UnitMoves
  <2> QED BY <1>5, <1>6, <2>1, <2>2
          DEF Becomes, DataReq, Request, DataAddr, AddrIncr
<1>7. CASE lsu.cs \in {"WAIT_GNT_MIS", "WAIT_GNT"}
  <2>1. Becomes(lsu.cs, h, lsu.lsu_err, lsu.addr_last)
    BY <1>1, <1>2, <1>3, <1>7, UnitMoves
  <2> QED BY <1>5, <1>7, <2>1 DEF Becomes, DataReq, Request, DataAddr, AddrIncr
<1>8. CASE lsu.cs = "WAIT_RVALID_MIS"
  <2>1. h
    BY <1>3, <1>8 DEF SecondPart
  <2>2. h = TRUE
    BY <1>3, <2>1 DEF LsuType
  <2>3. \/ Becomes("WAIT_GNT", TRUE, err, lsu.addr_last)
        \/ Becomes(lsu.cs, h, lsu.lsu_err, lsu.addr_last)
    BY <1>1, <1>2, <1>3, <1>8, UnitMoves
  <2> QED BY <1>5, <1>8, <2>2, <2>3 DEF Becomes, DataReq, Request, DataAddr, AddrIncr
<1> QED BY <1>6, <1>7, <1>8 DEF DataReq, LsuReq, LsuInv

--------------------------------------------------------------------------------
(* The data: how far the access in the ID stage has got, and what the      *)
(* memory and the unit hold of it.                                         *)

\* The request of a part of an access.
Part(a, second) ==
  [addr |-> [word |-> PartWord(a, second), off |-> a.off], we |-> a.we,
   be |-> DataBe(a, second), wdata |-> DataWdata(a)]

\* Nothing was done yet, or the first of two parts: a store is in memory, what a
\* load read is kept.
NothingDone == mem = before

FirstDone ==
  /\ mem = IF acc.we /\ ~lsu.lsu_err THEN PartStored(before, acc, FALSE) ELSE before
  /\ ~acc.we => lsu.lsu_err \/ lsu.rdata_q \in Reads(before, acc.word)

Progress ==
  /\ lsu.cs = "WAIT_GNT_MIS" => Split(acc) /\ NothingDone
  /\ lsu.cs = "WAIT_RVALID_MIS" =>
       /\ Split(acc) /\ NothingDone /\ Captured
       /\ pend[1] = Part(acc, FALSE) /\ lsu.addr_last = acc.word
  /\ lsu.cs = "WAIT_RVALID_MIS_GNTS_DONE" =>
       /\ Split(acc) /\ NothingDone /\ Captured
       /\ pend[1] = Part(acc, FALSE) /\ pend[2] = Part(acc, TRUE)
  /\ lsu.cs = "WAIT_GNT" =>
       /\ lsu.handle_misaligned <=> Split(acc)
       /\ IF Split(acc) THEN FirstDone /\ lsu.addr_last = acc.word ELSE NothingDone
  /\ lsu.cs = "IDLE" =>
       /\ Captured
       /\ IF Split(acc) THEN FirstDone /\ pend[1] = Part(acc, TRUE)
                        ELSE NothingDone /\ pend[1] = Part(acc, FALSE) /\ ~lsu.lsu_err

\* The inductive invariant of the refinement.
DataInv ==
  /\ LsuInv
  /\ first => before = mem
  /\ ~first => Progress

\* What the answer to a part does to the memory, and what it delivers.
LEMMA PartAnswered ==
  ASSUME LsuInv, NEW gnt \in BOOLEAN, NEW rvalid \in BOOLEAN, NEW err \in BOOLEAN,
         Clock(gnt, rvalid, err), NEW second \in BOOLEAN,
         rvalid => pend[1] = Part(acc, second)
  PROVE  /\ mem' = IF rvalid /\ ~err /\ acc.we THEN PartStored(mem, acc, second) ELSE mem
         /\ rvalid => RData(rvalid) = Reads(mem, PartWord(acc, second))
<1>1. Answering(rvalid, err)
  BY DEF Clock
<1>2. CASE rvalid
  <2>1. Head(pend) = Part(acc, second)
    BY <1>2, EdgeFacts, HeadTailProperties DEF LsuInv, Shape
  <2>2. /\ Head(pend).addr.word = PartWord(acc, second) /\ Head(pend).we = acc.we
        /\ Head(pend).wdata = DataWdata(acc) /\ Head(pend).be = DataBe(acc, second)
    BY <2>1 DEF Part
  <2> QED BY <1>1, <1>2, <2>2 DEF Answering, PartStored, RData
<1>3. CASE ~rvalid
  BY <1>1, <1>3 DEF Answering
<1> QED BY <1>2, <1>3

\* A request is that of the part which the unit is at.
LEMMA PartRequested ==
  ASSUME LsuInv, acc # NoAccess
  PROVE  /\ ~lsu.handle_misaligned /\ DataAddr.word = acc.word => Request = Part(acc, FALSE)
         /\ lsu.handle_misaligned /\ DataAddr.word = NextWord(acc.word) =>
              Request = Part(acc, TRUE)
<1>1. lsu.handle_misaligned \in BOOLEAN
  BY DEF LsuInv, Shape, LsuType
<1>2. DataAddr = [word |-> DataAddr.word, off |-> acc.off]
  BY DEF DataAddr
<1>3. CASE lsu.handle_misaligned = TRUE
  BY <1>2, <1>3 DEF Request, Part, PartWord
<1>4. CASE lsu.handle_misaligned = FALSE
  BY <1>2, <1>4 DEF Request, Part, PartWord
<1> QED BY <1>1, <1>3, <1>4

\* Between two accesses.
LEMMA FreeData ==
  ASSUME DataInv, NEW gnt \in BOOLEAN, NEW rvalid \in BOOLEAN, NEW err \in BOOLEAN,
         Clock(gnt, rvalid, err), acc = NoAccess \/ Leaves(rvalid)
  PROVE  first' /\ before' = mem'
<1>1. IdStage(rvalid, err)
  BY Edge DEF DataInv
<1> QED BY <1>1 DEF Clock, IdStage

\* While an access is in the ID stage.
LEMMA BusyData ==
  ASSUME DataInv, NEW gnt \in BOOLEAN, NEW rvalid \in BOOLEAN, NEW err \in BOOLEAN,
         Clock(gnt, rvalid, err), acc # NoAccess, ~Leaves(rvalid)
  PROVE  acc' = acc /\ first' = FALSE /\ before' = before /\ resp' = resp
<1>1. IdStage(rvalid, err) /\ \E data \in RData(rvalid) : resp' = Response(rvalid, data, err)
  BY Edge DEF DataInv
<1> QED BY <1>1 DEF Clock, IdStage, Response

\* The first cycle of an access.
LEMMA FirstData ==
  ASSUME DataInv, NEW gnt \in BOOLEAN, NEW rvalid \in BOOLEAN, NEW err \in BOOLEAN,
         Clock(gnt, rvalid, err), acc # NoAccess, first
  PROVE  Progress'
<1>1. lsu.cs = "IDLE" /\ Len(pend) = 0 /\ mem = before /\ ~lsu.handle_misaligned
      /\ lsu \in LsuType /\ LsuInv
  BY DEF DataInv, LsuInv, SecondPart, Shape
<1>2. ~rvalid
  BY <1>1, EdgeFacts
<1>3. acc' = acc /\ before' = before
  BY BusyData DEF Leaves
<1>4. mem' = mem
  BY <1>2 DEF Clock, Answering
<1>5. DataAddr.word = acc.word
  BY <1>1 DEF DataAddr, AddrIncr
<1>6. Request = Part(acc, FALSE)
  BY <1>1, <1>5, PartRequested
<1>7. gnt => pend'[1] = Part(acc, FALSE)
  <2>1. PendMoves(gnt, rvalid)
    BY <1>1, PendEdge
  <2>2. gnt => Len(pend') = 1
    BY <1>1, <1>2, <2>1 DEF PendMoves
  <2> QED BY <1>6, <2>1, <2>2 DEF PendMoves
<1>8. LsuReq
  BY DEF LsuReq
<1>9. acc \in Access /\ DataAddr.word \in WordNo
  BY <1>1, Edge
<1>10. PICK data \in Word : LsuStep(gnt, rvalid, data, err)
  BY <1>1, Edge
<1>11. \/ gnt /\ Split(acc) /\ Captures /\ Becomes("WAIT_RVALID_MIS", TRUE, FALSE, DataAddr.word)
       \/ gnt /\ ~Split(acc) /\ Captures /\ Becomes("IDLE", FALSE, FALSE, DataAddr.word)
       \/ ~gnt /\ Becomes(IF Split(acc) THEN "WAIT_GNT_MIS" ELSE "WAIT_GNT",
                          lsu.handle_misaligned, FALSE, lsu.addr_last)
  BY <1>1, <1>8, <1>9, <1>10, UnitMoves, UnitCaptures
<1> QED BY <1>1, <1>3, <1>4, <1>5, <1>7, <1>11
        DEF Progress, NothingDone, Captured, Captures, Becomes

\* The cycles in which the access waits.
LEMMA WaitingData ==
  ASSUME DataInv, NEW gnt \in BOOLEAN, NEW rvalid \in BOOLEAN, NEW err \in BOOLEAN,
         Clock(gnt, rvalid, err), acc # NoAccess, ~first, ~Leaves(rvalid)
  PROVE  Progress'
<1>1. LsuInv /\ Progress /\ Outstanding /\ SecondPart /\ Failure /\ lsu \in LsuType
  BY DEF DataInv, LsuInv, Shape
<1>2. acc' = acc /\ before' = before
  BY BusyData
<1>3. (err => rvalid) /\ (rvalid => Len(pend) # 0) /\ (gnt => DataReq) /\ PendMoves(gnt, rvalid)
  BY <1>1, EdgeFacts, PendEdge
<1>4. acc \in Access /\ DataAddr.word \in WordNo
  BY <1>1, Edge
<1>5. PICK data \in RData(rvalid) : data \in Word /\ LsuStep(gnt, rvalid, data, err)
  BY <1>1, Edge
<1> USE DEF Becomes, NothingDone, FirstDone
<1>6. CASE lsu.cs = "IDLE"
  <2>1. ~rvalid /\ ~gnt
    BY <1>3, <1>6 DEF Leaves, RespValid, DataReq, LsuReq
  <2>2. lsu' = lsu /\ pend' = pend /\ mem' = mem
    BY <1>1, <1>3, <1>4, <1>5, <1>6, <2>1, UnitMoves
    DEF PendMoves, LsuReq, Clock, Answering
  <2> QED BY <1>1, <1>2, <1>6, <2>2 DEF Progress, Captured
<1>7. CASE lsu.cs = "WAIT_GNT_MIS"
  <2>1. ~rvalid /\ Len(pend) = 0 /\ ~lsu.handle_misaligned /\ DataAddr.word = acc.word
    BY <1>1, <1>3, <1>7 DEF Outstanding, SecondPart, DataAddr, AddrIncr
  <2>2. mem' = mem /\ Split(acc) /\ mem = before
    BY <1>1, <1>7, <2>1 DEF Progress, Clock, Answering
  <2>3. gnt => pend'[1] = Part(acc, FALSE)
    <3>1. Request = Part(acc, FALSE)
      BY <1>1, <2>1, PartRequested
    <3>2. gnt => Len(pend') = 1
      BY <1>3, <2>1 DEF PendMoves
    <3> QED BY <1>3, <3>1, <3>2 DEF PendMoves
  <2>4. \/ gnt /\ Captures /\ Becomes("WAIT_RVALID_MIS", TRUE, lsu.lsu_err, DataAddr.word)
        \/ ~gnt /\ lsu' = lsu
    BY <1>1, <1>4, <1>5, <1>7, UnitMoves, UnitCaptures
  <2> QED BY <1>2, <1>7, <2>1, <2>2, <2>3, <2>4 DEF Progress, Captured, Captures
<1>8. CASE lsu.cs = "WAIT_RVALID_MIS"
  <2>1. /\ Split(acc) /\ mem = before /\ Captured /\ pend[1] = Part(acc, FALSE)
        /\ lsu.addr_last = acc.word /\ lsu.handle_misaligned /\ Len(pend) = 1
    BY <1>1, <1>8 DEF Progress, SecondPart, Outstanding
  <2>2. Request = Part(acc, TRUE)
    BY <1>1, <1>8, <2>1, PartRequested DEF DataAddr, AddrIncr
  <2>3. gnt => pend'[Len(pend')] = Part(acc, TRUE)
    BY <1>3, <2>2 DEF PendMoves
  <2>4. /\ mem' = IF rvalid /\ ~err /\ acc.we THEN PartStored(before, acc, FALSE) ELSE before
        /\ rvalid => data \in Reads(before, acc.word)
    BY <1>1, <1>5, <2>1, PartAnswered DEF PartWord
  <2>5. Holds /\ lsu'.rdata_q = IF rvalid /\ ~lsu.we THEN data ELSE lsu.rdata_q
    BY <1>1, <1>4, <1>5, <1>8, UnitCaptures
  <2>6. Captured'
    BY <1>2, <2>1, <2>5 DEF Captured, Holds
  <2>7. rvalid /\ lsu'.lsu_err = err => FirstDone'
    BY <1>2, <2>1, <2>4, <2>5 DEF Captured
  <2>8. \/ rvalid /\ gnt
           /\ Becomes("IDLE", FALSE, err, IF err THEN lsu.addr_last ELSE DataAddr.word)
        \/ rvalid /\ ~gnt /\ Becomes("WAIT_GNT", TRUE, err, lsu.addr_last)
        \/ ~rvalid /\ gnt /\ Becomes("WAIT_RVALID_MIS_GNTS_DONE", FALSE, lsu.lsu_err, lsu.addr_last)
        \/ ~rvalid /\ ~gnt /\ Becomes(lsu.cs, lsu.handle_misaligned, lsu.lsu_err, lsu.addr_last)
    BY <1>1, <1>4, <1>5, <1>8, UnitMoves
  <2>9. CASE rvalid /\ gnt
    <3>1. Len(pend') = 1
      BY <1>3, <2>1, <2>9 DEF PendMoves
    <3>2. lsu'.cs = "IDLE" /\ lsu'.lsu_err = err
      BY <2>8, <2>9
    <3>3. pend'[1] = Part(acc, TRUE) /\ FirstDone'
      BY <2>3, <2>7, <2>9, <3>1, <3>2
    <3> QED BY <1>2, <2>1, <2>6, <3>2, <3>3 DEF Progress
  <2>10. CASE rvalid /\ ~gnt
    BY <1>2, <2>1, <2>7, <2>8, <2>10 DEF Progress
  <2>11. CASE ~rvalid /\ gnt
    <3>1. Len(pend') = 2
      BY <1>3, <2>1, <2>11 DEF PendMoves
    <3>2. lsu'.cs = "WAIT_RVALID_MIS_GNTS_DONE"
      BY <2>8, <2>11
    <3>3. pend'[2] = Part(acc, TRUE) /\ mem' = before
      BY <2>3, <2>4, <2>11, <3>1
    <3>4. pend'[1] = Part(acc, FALSE)
      BY <1>3, <2>1, <2>11 DEF PendMoves
    <3> QED BY <1>2, <2>1, <2>6, <3>2, <3>3, <3>4 DEF Progress
  <2>12. CASE ~rvalid /\ ~gnt
    <3>1. pend' = pend /\ mem' = before
      BY <1>3, <2>4, <2>12 DEF PendMoves
    <3> QED BY <1>2, <1>8, <2>1, <2>6, <2>8, <2>12, <3>1 DEF Progress
  <2> QED BY <2>9, <2>10, <2>11, <2>12
<1>9. CASE lsu.cs = "WAIT_GNT"
  <2>1. ~rvalid /\ Len(pend) = 0
    BY <1>1, <1>3, <1>9 DEF Outstanding
  <2>2. mem' = mem
    BY <2>1 DEF Clock, Answering
  <2>3. CASE ~gnt
    <3>1. lsu' = lsu
      BY <1>1, <1>4, <1>5, <1>9, <2>3, UnitCaptures
    <3> QED BY <1>1, <1>2, <1>9, <2>2, <3>1 DEF Progress
  <2>4. CASE gnt
    <3>1. /\ Captures /\ lsu'.rdata_q = lsu.rdata_q
          /\ Becomes("IDLE", FALSE, lsu.lsu_err,
                     IF lsu.lsu_err THEN lsu.addr_last ELSE DataAddr.word)
      BY <1>1, <1>4, <1>5, <1>9, <2>4, UnitMoves, UnitCaptures
    <3>2. pend'[1] = Request
      BY <1>3, <2>1, <2>4 DEF PendMoves
    <3>3. CASE Split(acc)
      <4>1. lsu.handle_misaligned /\ lsu.addr_last = acc.word /\ FirstDone
        BY <1>1, <1>9, <3>3 DEF Progress
      <4>2. Request = Part(acc, TRUE)
        BY <1>1, <1>9, <4>1, PartRequested DEF DataAddr, AddrIncr
      <4> QED BY <1>2, <2>2, <3>1, <3>2, <3>3, <4>1, <4>2 DEF Progress, Captured, Captures
    <3>4. CASE ~Split(acc)
      <4>1. ~lsu.handle_misaligned /\ mem = before /\ ~lsu.lsu_err
        BY <1>1, <1>9, <3>4 DEF Progress, Failure
      <4>2. Request = Part(acc, FALSE)
        BY <1>1, <1>9, <4>1, PartRequested DEF DataAddr, AddrIncr
      <4> QED BY <1>2, <2>2, <3>1, <3>2, <3>4, <4>1, <4>2 DEF Progress, Captured, Captures
    <3> QED BY <3>3, <3>4
  <2> QED BY <2>3, <2>4
<1>10. CASE lsu.cs = "WAIT_RVALID_MIS_GNTS_DONE"
  <2>1. /\ Split(acc) /\ mem = before /\ Captured /\ pend[1] = Part(acc, FALSE)
        /\ pend[2] = Part(acc, TRUE) /\ Len(pend) = 2 /\ ~gnt
    BY <1>1, <1>3, <1>10 DEF Progress, Outstanding, DataReq, LsuReq
  <2>2. /\ mem' = IF rvalid /\ ~err /\ acc.we THEN PartStored(before, acc, FALSE) ELSE before
        /\ rvalid => data \in Reads(before, acc.word)
    BY <1>1, <1>5, <2>1, PartAnswered DEF PartWord
  <2>3. Holds /\ lsu'.rdata_q = IF rvalid /\ ~lsu.we THEN data ELSE lsu.rdata_q
    BY <1>1, <1>4, <1>5, <1>10, UnitCaptures
  <2>4. Captured'
    BY <1>2, <2>1, <2>3 DEF Captured, Holds
  <2>5. \/ rvalid /\ Becomes("IDLE", lsu.handle_misaligned, err,
                             IF err THEN lsu.addr_last ELSE DataAddr.word)
        \/ ~rvalid /\ Becomes(lsu.cs, lsu.handle_misaligned, lsu.lsu_err, lsu.addr_last)
    BY <1>1, <1>4, <1>5, <1>10, UnitMoves
  <2>6. CASE rvalid
    <3>1. FirstDone'
      BY <1>2, <2>1, <2>2, <2>3, <2>5, <2>6 DEF Captured
    <3> QED BY <1>2, <1>3, <2>1, <2>4, <2>5, <2>6, <3>1 DEF Progress, PendMoves
  <2>7. CASE ~rvalid
    BY <1>2, <1>3, <1>10, <2>1, <2>2, <2>4, <2>5, <2>7 DEF Progress, PendMoves
  <2> QED BY <2>6, <2>7
<1> QED BY <1>1, <1>6, <1>7, <1>8, <1>9, <1>10 DEF LsuType, FsmStates

\* The abstract specification means by an access what the unit's module means.
LEMMA SameMeaning ==
  /\ \A m, a : Serial!Loaded(m, a) = Loaded(m, a)
  /\ \A m, a : Serial!Stored(m, a) = Stored(m, a)
  /\ \A m, a, ks : Serial!StoredBytes(m, a, ks) = StoredBytes(m, a, ks)
  /\ \A a : Serial!FirstBytes(a) = FirstBytes(a) /\ Serial!SecondBytes(a) = SecondBytes(a)
  /\ \A a, k : Serial!Place(a, k) = Place(a, k)
  /\ \A m, a : Serial!WithDevices(m, a) = WithReads(m, a, DeviceWords)
<1> USE DEF Serial!Place, Place, Serial!NextWord, NextWord, Serial!BytesOf, BytesOf,
            Serial!FirstBytes, FirstBytes, Serial!SecondBytes, SecondBytes,
            Serial!Lane, Lane
<1>1. \A m, a : Serial!Loaded(m, a) = Loaded(m, a)
  BY DEF Serial!Loaded, Loaded, Serial!Extend, Extend
<1>2. \A m, a, ks : Serial!StoredBytes(m, a, ks) = StoredBytes(m, a, ks)
  BY DEF Serial!StoredBytes, StoredBytes
<1>3. \A m, a : Serial!Stored(m, a) = Stored(m, a)
  BY DEF Serial!Stored, Stored, Serial!StoredBytes, StoredBytes
<1>4. \A a : Serial!FirstBytes(a) = FirstBytes(a) /\ Serial!SecondBytes(a) = SecondBytes(a)
  OBVIOUS
<1>5. \A a, k : Serial!Place(a, k) = Place(a, k)
  OBVIOUS
<1>6. \A m, a : Serial!WithDevices(m, a) = WithReads(m, a, DeviceWords)
  BY DEF Serial!WithDevices, WithReads, Touched
<1> QED BY <1>1, <1>2, <1>3, <1>4, <1>5, <1>6

--------------------------------------------------------------------------------
(* The refinement: every clock edge is a step of the abstract memory or    *)
(* leaves it unchanged.                                                    *)

\* The memory that the abstract specification sees.
AbstractMem == IF acc = NoAccess THEN mem ELSE before

\* The cycle of the last answer.
LEMMA LastAnswer ==
  ASSUME DataInv, NEW gnt \in BOOLEAN, NEW rvalid \in BOOLEAN, NEW err \in BOOLEAN,
         Clock(gnt, rvalid, err), acc # NoAccess, Leaves(rvalid)
  PROVE  /\ acc \in Access /\ Captured /\ before \in Memory
         /\ acc' \in IF RespKind(err) = "error" THEN {NoAccess} ELSE Accesses \cup {NoAccess}
         /\ AbstractMem = before /\ AbstractMem' = mem'
         /\ Split(acc) =>
              /\ FirstDone
              /\ mem' = IF ~err /\ acc.we THEN PartStored(mem, acc, TRUE) ELSE mem
         /\ ~Split(acc) =>
              /\ mem = before /\ ~lsu.lsu_err
              /\ mem' = IF ~err /\ acc.we THEN PartStored(mem, acc, FALSE) ELSE mem
         /\ RData(rvalid) = Reads(mem, IF Split(acc) THEN NextWord(acc.word) ELSE acc.word)
<1>1. rvalid /\ lsu.cs = "IDLE" /\ ~first /\ LsuInv /\ Progress /\ before \in Memory
  BY DEF Leaves, RespValid, DataInv, LsuInv, Shape
<1>2. acc \in Access /\ IdStage(rvalid, err)
  BY <1>1, Edge
<1>3. acc' \in IF RespKind(err) = "error" THEN {NoAccess} ELSE Accesses \cup {NoAccess}
  BY <1>2 DEF IdStage
<1>4. AbstractMem = before /\ AbstractMem' = mem'
  BY FreeData DEF AbstractMem
<1>5. CASE Split(acc)
  <2>1. FirstDone /\ pend[1] = Part(acc, TRUE)
    BY <1>1, <1>5 DEF Progress
  <2> QED BY <1>1, <1>2, <1>3, <1>4, <1>5, <2>1, PartAnswered DEF Progress, PartWord
<1>6. CASE ~Split(acc)
  <2>1. mem = before /\ pend[1] = Part(acc, FALSE) /\ ~lsu.lsu_err
    BY <1>1, <1>6 DEF Progress, NothingDone
  <2> QED BY <1>1, <1>2, <1>3, <1>4, <1>6, <2>1, PartAnswered DEF Progress, PartWord
<1> QED BY <1>5, <1>6

\* An answer with an error: the access fails, and a store of two words may have
\* written one of them.
LEMMA ErrorFails ==
  ASSUME DataInv, NEW gnt \in BOOLEAN, NEW rvalid \in BOOLEAN, NEW err \in BOOLEAN,
         Clock(gnt, rvalid, err), acc # NoAccess, Leaves(rvalid), RespKind(err) = "error"
  PROVE  Serial!Fail
<1>1. PICK data \in RData(rvalid) : resp' = Response(rvalid, data, err)
  BY Edge DEF DataInv
<1>2. resp' = Serial!Answer("error", Serial!NoData)
  BY <1>1 DEF Response
<1>3. acc' = NoAccess
  BY LastAnswer
<1>4. \/ AbstractMem' = AbstractMem
      \/ /\ acc.we /\ SecondBytes(acc) # {}
         /\ \E ks \in {FirstBytes(acc), SecondBytes(acc)} :
              AbstractMem' = StoredBytes(AbstractMem, acc, ks)
  <2>1. lsu.lsu_err \/ err
    BY DEF RespKind
  <2>2. CASE ~acc.we \/ ~Split(acc)
    BY <2>1, <2>2, LastAnswer DEF FirstDone
  <2>3. CASE acc.we /\ Split(acc)
    <3>1. /\ StoredBytes(before, acc, FirstBytes(acc)) = PartStored(before, acc, FALSE)
          /\ StoredBytes(before, acc, SecondBytes(acc)) = PartStored(before, acc, TRUE)
      BY <2>3, LastAnswer, PartIsStored DEF PartBytes, Memory
    <3>2. SecondBytes(acc) # {}
      BY <2>3, LastAnswer, SplitMeans
    <3> QED BY <2>1, <2>3, <3>1, <3>2, LastAnswer DEF FirstDone
  <2> QED BY <2>2, <2>3
<1>5. \/ AbstractMem' = AbstractMem
      \/ /\ acc.we /\ Serial!SecondBytes(acc) # {}
         /\ \E ks \in {Serial!FirstBytes(acc), Serial!SecondBytes(acc)} :
              AbstractMem' = Serial!StoredBytes(AbstractMem, acc, ks)
  BY <1>4, SameMeaning
<1> QED BY <1>2, <1>3, <1>5 DEF Serial!Fail, AbstractMem

\* The answer to a store: it was made whole, and once.
LEMMA StoreHappens ==
  ASSUME DataInv, NEW gnt \in BOOLEAN, NEW rvalid \in BOOLEAN, NEW err \in BOOLEAN,
         Clock(gnt, rvalid, err), acc # NoAccess, Leaves(rvalid), RespKind(err) # "error", acc.we
  PROVE  Serial!Store
<1>1. PICK data \in RData(rvalid) : resp' = Response(rvalid, data, err)
  BY Edge DEF DataInv
<1>2. ~lsu.lsu_err /\ ~err /\ RespKind(err) = "store"
  BY LastAnswer DEF RespKind, Captured
<1>3. resp' = Serial!Answer("store", Serial!NoData)
  BY <1>1, <1>2 DEF Response
<1>4. AbstractMem' = Stored(AbstractMem, acc)
  <2>1. Stored(before, acc) =
          IF Split(acc) THEN PartStored(PartStored(before, acc, FALSE), acc, TRUE)
                        ELSE PartStored(before, acc, FALSE)
    BY LastAnswer, PartsMakeTheStore DEF Memory
  <2> QED BY <1>2, <2>1, LastAnswer DEF FirstDone
<1>5. AbstractMem' = Serial!Stored(AbstractMem, acc)
  BY <1>4, SameMeaning
<1>6. acc' \in Accesses \cup {NoAccess}
  BY LastAnswer
<1> QED BY <1>3, <1>5, <1>6 DEF Serial!Store, AbstractMem

\* The answer to a load: what it brings was in memory at that instant.
LEMMA LoadHappens ==
  ASSUME DataInv, NEW gnt \in BOOLEAN, NEW rvalid \in BOOLEAN, NEW err \in BOOLEAN,
         Clock(gnt, rvalid, err), acc # NoAccess, Leaves(rvalid), RespKind(err) # "error", ~acc.we
  PROVE  Serial!Load
<1>1. PICK data \in RData(rvalid) : resp' = Response(rvalid, data, err)
  BY Edge DEF DataInv
<1>2. ~lsu.lsu_err /\ ~err /\ RespKind(err) = IF acc.float THEN "frdata" ELSE "rdata"
  BY LastAnswer DEF RespKind, Captured
<1>3. RespData(data) = DataRdataExt(acc.off, acc.size, acc.sext, lsu.rdata_q, data)
  BY LastAnswer DEF RespData, Captured
<1>4. mem = before /\ AbstractMem' = AbstractMem /\ AbstractMem = before
  BY LastAnswer DEF FirstDone
<1>5. PICK n \in Serial!WithDevices(AbstractMem, acc) : Loaded(n, acc) = RespData(data)
  <2>1. data \in ReadIn(before, DeviceWords, IF Split(acc) THEN NextWord(acc.word) ELSE acc.word)
    BY <1>1, <1>4, LastAnswer DEF Reads, ReadIn
  <2>2. Split(acc) => lsu.rdata_q \in ReadIn(before, DeviceWords, acc.word)
    BY <1>2, <1>4, LastAnswer DEF FirstDone, Reads, ReadIn
  <2>3. acc \in Access
    BY LastAnswer
  <2>4. \E n \in WithReads(before, acc, DeviceWords) :
          Loaded(n, acc) = DataRdataExt(acc.off, acc.size, acc.sext, lsu.rdata_q, data)
    BY <2>1, <2>2, <2>3, ReadAtOnce
  <2> QED BY <1>3, <1>4, <2>4, SameMeaning
<1>6. resp' = Serial!LoadAnswer(acc, Serial!Loaded(n, acc))
  BY <1>1, <1>2, <1>5, SameMeaning DEF Response, Serial!LoadAnswer
<1>7. acc' \in Accesses \cup {NoAccess}
  BY LastAnswer
<1> QED BY <1>4, <1>5, <1>6, <1>7 DEF Serial!Load, AbstractMem

\* No other cycle shows.
LEMMA OtherCycles ==
  ASSUME DataInv, NEW gnt \in BOOLEAN, NEW rvalid \in BOOLEAN, NEW err \in BOOLEAN,
         Clock(gnt, rvalid, err), ~Leaves(rvalid)
  PROVE  Serial!Begin \/ UNCHANGED Serial!vars
<1>1. CASE acc = NoAccess
  <2>1. mem' = mem /\ resp' = resp
    <3>1. ~rvalid
      BY <1>1, EdgeFacts DEF DataInv, LsuInv
    <3>2. PICK data \in RData(rvalid) : resp' = Response(rvalid, data, err)
      BY Edge DEF DataInv
    <3> QED BY <3>1, <3>2 DEF Clock, Answering, Response
  <2>2. before' = mem'
    BY <1>1, FreeData
  <2>3. acc' \in Accesses \cup {NoAccess}
    BY Edge DEF DataInv, Shape
  <2> QED BY <1>1, <2>1, <2>2, <2>3 DEF Serial!Begin, Serial!vars
<1>2. CASE acc # NoAccess
  BY <1>2, BusyData DEF Serial!vars
<1> QED BY <1>1, <1>2

\* Every clock edge keeps the invariant.
LEMMA DataStepKeeps == DataInv /\ [Next]_vars => DataInv'
<1> SUFFICES ASSUME DataInv, [Next]_vars PROVE DataInv'
  OBVIOUS
<1>1. LsuInv'
  BY LsuStepKeeps DEF DataInv
<1>2. CASE Next
  <2>1. PICK gnt \in BOOLEAN, rvalid \in BOOLEAN, err \in BOOLEAN : Clock(gnt, rvalid, err)
    BY <1>2 DEF Next
  <2>2. CASE acc = NoAccess \/ Leaves(rvalid)
    BY <1>1, <2>1, <2>2, FreeData DEF DataInv
  <2>3. CASE acc # NoAccess /\ first
    <3>1. ~Leaves(rvalid)
      BY <2>3 DEF Leaves
    <3>2. first' = FALSE
      BY <2>1, <2>3, <3>1, BusyData
    <3> QED BY <1>1, <2>1, <2>3, <3>2, FirstData DEF DataInv
  <2>4. CASE acc # NoAccess /\ ~first /\ ~Leaves(rvalid)
    <3>1. first' = FALSE
      BY <2>1, <2>4, BusyData
    <3> QED BY <1>1, <2>1, <2>4, <3>1, WaitingData DEF DataInv
  <2> QED BY <2>2, <2>3, <2>4
<1>3. CASE UNCHANGED vars
  <2>1. Progress => Progress'
    BY <1>3 DEF vars, lsuVars, busVars, Progress, NothingDone, FirstDone, Captured
  <2> QED BY <1>1, <1>3, <2>1 DEF vars, lsuVars, busVars, DataInv
<1> QED BY <1>2, <1>3

\* The invariant holds in every reachable state.
LEMMA DataInvariant == Spec => []DataInv
<1>1. Init => DataInv
  BY LsuInitially DEF Init, LsuInit, DataInv
<1> QED BY <1>1, DataStepKeeps, PTL DEF Spec

\* Every clock edge is a step of the abstract memory or leaves it unchanged.
LEMMA EdgeIsSerial == DataInv /\ [Next]_vars => [Serial!Next]_(Serial!vars)
<1> SUFFICES ASSUME DataInv, [Next]_vars PROVE Serial!Next \/ UNCHANGED Serial!vars
  OBVIOUS
<1>1. CASE Next
  <2>1. PICK gnt \in BOOLEAN, rvalid \in BOOLEAN, err \in BOOLEAN : Clock(gnt, rvalid, err)
    BY <1>1 DEF Next
  <2>2. CASE Leaves(rvalid)
    <3>1. acc # NoAccess
      BY <2>2 DEF Leaves
    <3>2. CASE RespKind(err) = "error"
      BY <2>1, <2>2, <3>1, <3>2, ErrorFails DEF Serial!Next
    <3>3. CASE RespKind(err) # "error" /\ acc.we
      BY <2>1, <2>2, <3>1, <3>3, StoreHappens DEF Serial!Next
    <3>4. CASE RespKind(err) # "error" /\ ~acc.we
      BY <2>1, <2>2, <3>1, <3>4, LoadHappens DEF Serial!Next
    <3> QED BY <3>2, <3>3, <3>4
  <2>3. CASE ~Leaves(rvalid)
    BY <2>1, <2>3, OtherCycles DEF Serial!Next
  <2> QED BY <2>2, <2>3
<1>2. CASE UNCHANGED vars
  BY <1>2 DEF vars, lsuVars, busVars, Serial!vars
<1> QED BY <1>1, <1>2

\* The registers of the unit keep their types: the word kept from the first answer is
\* a word of bytes, the address one of the address space.
THEOREM LsuIsTyped == Spec => []LsuTypeOK
<1>1. LsuInv => LsuTypeOK
  BY DEF LsuInv, Shape, LsuTypeOK
<1> QED BY <1>1, LsuInvariant, PTL

\* Whatever the bus delays or answers, loads and stores of any alignment happen one at
\* a time, each once and at one instant, as their type says.
THEOREM LsuIsSerialMemory == Spec => Serial!Spec
<1>1. Init => Serial!Init
  BY DEF Init, LsuInit, Serial!Init
<1> QED BY <1>1, DataInvariant, EdgeIsSerial, PTL DEF Spec, Serial!Spec

\* Whatever the bus delays, an instruction leaves only when nothing is outstanding.
THEOREM NothingIsLeftBehind == Spec => []NothingLeftBehind
<1>1. LsuInv => NothingLeftBehind
  BY EmptySeq DEF LsuInv, Shape, NothingLeftBehind
<1> QED BY <1>1, LsuInvariant, PTL

\* An access ends with an exception exactly when a part of it failed, and the
\* address for mtval is that of the first part that did.
THEOREM TrapsArePrecise == Spec => []TrapIsPrecise
<1>1. LsuInv => TrapIsPrecise
  BY DEF LsuInv, TrapIsPrecise
<1> QED BY <1>1, LsuInvariant, PTL

\* A request not granted keeps its address, byte enables and data.
THEOREM RequestIsHeld == Spec => RequestHeld
<1> DEFINE Held == DataReq /\ ~GrantedNow => DataReq' /\ Request' = Request
<1>1. LsuInv /\ [Next]_vars => [Held]_vars
  <2> SUFFICES ASSUME LsuInv, Next, DataReq, ~GrantedNow PROVE DataReq' /\ Request' = Request
    OBVIOUS
  <2>1. PICK gnt \in BOOLEAN, rvalid \in BOOLEAN, err \in BOOLEAN : Clock(gnt, rvalid, err)
    BY DEF Next
  <2>2. ~gnt
    BY <2>1, GrantShows
  <2>3. Clock(FALSE, rvalid, err)
    BY <2>1, <2>2
  <2> QED BY <2>3, RequestStays
<1> QED BY <1>1, LsuInvariant, PTL DEF Spec, RequestHeld
================================================================================
