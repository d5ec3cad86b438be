--------------------------- MODULE FetchStage_proofs ---------------------------
(***************************************************************************)
(* Proofs about the fetch stage, for every memory, ring size, boot address *)
(* and set of targets: the prefetch buffer's account of what is on the     *)
(* bus, the stability of its request, and the room in its FIFO; then that  *)
(* the stage hands over the stream of instructions it owes.                *)
(***************************************************************************)
EXTENDS FetchStage, FiniteSetTheorems, SequenceTheorems, TLAPS

\* How many of the (at most two) requests outstanding have an answer that counts.
Keeps(s, i)  == IF i <= Len(s) /\ ~s[i] THEN 1 ELSE 0
Kept(s)      == Keeps(s, 1) + Keeps(s, 2)

\* The request that waits for its grant needs an entry too unless it is discarded.
Reserved == IF valid_req_q /\ ~discard_req_q THEN 1 ELSE 0

FlowType ==
  /\ entries \in Seq(Entry) /\ outstanding \in Seq(BOOLEAN)
  /\ pending \in Seq(0 .. Size - 1)
  /\ stored_addr \in Halves /\ fetch_addr \in Halves
  /\ valid_req_q \in BOOLEAN /\ discard_req_q \in BOOLEAN /\ core_busy_q \in BOOLEAN

\* A request is made with a place for it in the tracker and, unless it is
\* discarded, an entry for its answer, and both are kept until the answer comes.
Traffic ==
  /\ FlowType
  /\ Len(pending) = Len(outstanding)
  /\ Len(outstanding) <= 2 /\ (valid_req_q => Len(outstanding) < 2)
  /\ Len(entries) + Kept(outstanding) + Reserved <= 3
  /\ RequestHeld

\* Behind a shut clock gate nothing is on the bus.
Gate ==
  ~core_busy_q => ctrl_fsm \in {"RESET", "SLEEP"} /\ ~valid_req_q /\ outstanding = <<>>

\* The inductive invariant.
FlowInv == Traffic /\ Gate

\* The cardinality of a set of indices that has at most two.
LEMMA SmallSets ==
  ASSUME NEW K, K \subseteq {1, 2}
  PROVE  /\ IsFiniteSet(K)
         /\ Cardinality(K) = (IF 1 \in K THEN 1 ELSE 0) + (IF 2 \in K THEN 1 ELSE 0)
<1>1. /\ IsFiniteSet({}) /\ Cardinality({}) = 0
      /\ IsFiniteSet({1}) /\ Cardinality({1}) = 1
      /\ IsFiniteSet({2}) /\ Cardinality({2}) = 1
  BY FS_EmptySet, FS_Singleton
<1>2. IsFiniteSet({1, 2}) /\ Cardinality({1, 2}) = 2
  <2>1. {1, 2} = {1} \cup {2} /\ 2 \notin {1}
    OBVIOUS
  <2> HIDE <2>1
  <2>2. /\ IsFiniteSet({1} \cup {2})
        /\ Cardinality({1} \cup {2}) = IF 2 \in {1} THEN Cardinality({1}) ELSE Cardinality({1}) + 1
    BY <1>1, FS_AddElement, Zenon
  <2> QED BY <1>1, <2>1, <2>2
<1>3. CASE 1 \in K /\ 2 \in K
  <2>1. K = {1, 2}
    BY <1>3
  <2> QED BY <1>2, <1>3, <2>1
<1>4. CASE 1 \in K /\ 2 \notin K
  <2>1. K = {1}
    BY <1>4
  <2> QED BY <1>1, <1>4, <2>1
<1>5. CASE 1 \notin K /\ 2 \in K
  <2>1. K = {2}
    BY <1>5
  <2> QED BY <1>1, <1>5, <2>1
<1>6. CASE 1 \notin K /\ 2 \notin K
  <2>1. K = {}
    BY <1>6
  <2> QED BY <1>1, <1>6, <2>1
<1> QED BY <1>3, <1>4, <1>5, <1>6

\* Kept is the number that NeverOverflows counts.
LEMMA KeptCounts ==
  ASSUME NEW s \in Seq(BOOLEAN), Len(s) <= 2
  PROVE  Cardinality({i \in DOMAIN s : ~s[i]}) = Kept(s)
<1>1. DOMAIN s = 1 .. Len(s) /\ Len(s) \in Nat
  BY LenProperties
<1>2. /\ {i \in DOMAIN s : ~s[i]} \subseteq {1, 2}
      /\ 1 \in {i \in DOMAIN s : ~s[i]} <=> 1 <= Len(s) /\ ~s[1]
      /\ 2 \in {i \in DOMAIN s : ~s[i]} <=> 2 <= Len(s) /\ ~s[2]
  BY <1>1
<1> QED BY <1>2, SmallSets DEF Kept, Keeps

\* Nothing is on the bus after power-up.
LEMMA Initially == Init => FlowInv
<1> SUFFICES ASSUME Init PROVE FlowInv
  OBVIOUS
<1>1. FlowType
  BY EmptySeq, FetchAssumption DEF Init, FlowType
<1>2. Len(entries) = 0 /\ Len(outstanding) = 0 /\ Len(pending) = 0
  BY EmptySeq DEF Init
<1>3. Kept(outstanding) = 0 /\ Reserved = 0 /\ RequestHeld
  BY <1>2 DEF Init, Kept, Keeps, Reserved, RequestHeld
<1> QED BY <1>1, <1>2, <1>3 DEF Init, FlowInv, Traffic, Gate

\* The set of requests outstanding as a cycle leaves it, before the answer.
Marked(req, branch, gnt) ==
  LET granted == ValidReq(req, branch) /\ gnt
      late    == granted /\ Discarded(branch)
  IN  [i \in DOMAIN outstanding |-> outstanding[i] \/ branch = "set" \/ late]
        \o (IF granted THEN <<late>> ELSE <<>>)

\* An answer has one word, of a request that is outstanding.
LEMMA AnswerType ==
  ASSUME Traffic, NEW answer \in Answers, answer # <<>>
  PROVE  /\ pending # <<>> /\ outstanding # <<>> /\ Len(pending) >= 1
         /\ answer \in Seq(Entry) /\ Len(answer) = 1
<1>1. pending # <<>> /\ answer = <<[at |-> Head(pending), err |-> Head(pending) \in image.bad]>>
  BY DEF Answers
<1>2. Head(pending) \in 0 .. Size - 1 /\ Len(pending) \in Nat /\ Len(pending) # 0
  BY <1>1, HeadTailProperties, LenProperties, EmptySeq DEF Traffic, FlowType
<1>3. outstanding # <<>>
  BY <1>2 DEF Traffic, FlowType
<1> QED BY <1>1, <1>2, <1>3 DEF Entry

\* No more requests count than are outstanding.
LEMMA KeptBound ==
  ASSUME NEW s \in Seq(BOOLEAN), Len(s) <= 2
  PROVE  Kept(s) \in 0 .. Len(s)
  BY LenProperties DEF Kept, Keeps

\* The FIFO grows by the word that counts at most, and a branch empties it.
LEMMA FifoGrows ==
  ASSUME FlowType, NEW in \in Seq(Entry), Len(in) <= 1, Len(entries) <= 3,
         NEW ready \in BOOLEAN, NEW clear \in BOOLEAN, NEW addr,
         FifoStep(in, ready, clear, addr)
  PROVE  /\ entries' \in Seq(Entry)
         /\ clear => entries' = <<>>
         /\ Len(entries') <= Len(entries) + Len(in)
<1>1. Visible(in) \in Seq(Entry) /\ Len(Visible(in)) = Len(entries) + Len(in)
  BY DEF Visible, FlowType
<1>2. Pushed(in) \in Seq(Entry) /\ Len(Pushed(in)) <= Len(entries) + Len(in)
  BY <1>1 DEF Pushed, FlowType
<1>3. OutValid(in) => Pushed(in) # <<>>
  BY <1>1, FetchAssumption DEF OutValid, Pushed, Depth, FlowType
<1>4. Pushed(in) # <<>> => /\ Tail(Pushed(in)) \in Seq(Entry)
                           /\ Len(Tail(Pushed(in))) = Len(Pushed(in)) - 1
  BY <1>2
<1>5. CASE clear
  BY <1>5 DEF FifoStep, FlowType
<1>6. CASE ~clear
  BY <1>2, <1>3, <1>4, <1>6 DEF FifoStep
<1> QED BY <1>5, <1>6

Late(req, branch, gnt) == ValidReq(req, branch) /\ gnt /\ Discarded(branch)

\* A request is granted only while the tracker has a place.
LEMMA RoomToGrant ==
  ASSUME Traffic, NEW req, NEW branch, ValidReq(req, branch)
  PROVE  Len(outstanding) < 2
  BY FetchAssumption DEF Traffic, ValidReq, ValidNewReq

\* The tracker before the answer: the grant adds a bit, branches mark the others.
LEMMA MarkedBits ==
  ASSUME Traffic, NEW req, NEW branch, NEW gnt \in BOOLEAN
  PROVE  LET m == Marked(req, branch, gnt)
             n == Len(outstanding)
         IN  /\ m \in Seq(BOOLEAN)
             /\ Len(m) = IF ValidReq(req, branch) /\ gnt THEN n + 1 ELSE n
             /\ \A i \in 1 .. n :
                  m[i] <=> outstanding[i] \/ branch = "set" \/ Late(req, branch, gnt)
             /\ ValidReq(req, branch) /\ gnt => (m[n + 1] <=> Late(req, branch, gnt))
<1> DEFINE n    == Len(outstanding)
           late == Late(req, branch, gnt)
           old  == [i \in DOMAIN outstanding |-> outstanding[i] \/ branch = "set" \/ late]
           new  == IF ValidReq(req, branch) /\ gnt THEN <<late>> ELSE <<>>
<1>1. n \in Nat /\ DOMAIN outstanding = 1 .. n
  BY LenProperties DEF Traffic, FlowType
<1>2. late \in BOOLEAN
  BY DEF Late
<1>3. old \in Seq(BOOLEAN) /\ Len(old) = n
      /\ \A i \in 1 .. n : old[i] <=> outstanding[i] \/ branch = "set" \/ late
  <2>1. old = [i \in 1 .. n |-> outstanding[i] \/ branch = "set" \/ late]
    BY <1>1
  <2>2. old \in [1 .. n -> BOOLEAN]
    BY <2>1
  <2>3. old \in Seq(BOOLEAN) /\ Len(old) = n
    BY <1>1, <2>2, SeqDef, LenProperties
  <2> QED BY <2>1, <2>3
<1>4. new \in Seq(BOOLEAN) /\ Len(new) \in {0, 1}
      /\ (ValidReq(req, branch) /\ gnt => Len(new) = 1 /\ new[1] = late)
      /\ (~(ValidReq(req, branch) /\ gnt) => Len(new) = 0)
  <2>1. \A b \in BOOLEAN : <<b>> \in Seq(BOOLEAN) /\ Len(<<b>>) = 1 /\ <<b>>[1] = b
    OBVIOUS
  <2> HIDE DEF late
  <2>2. <<late>> \in Seq(BOOLEAN) /\ Len(<<late>>) = 1 /\ <<late>>[1] = late
    BY <1>2, <2>1
  <2>3. CASE ValidReq(req, branch) /\ gnt
    BY <2>2, <2>3
  <2>4. CASE ~(ValidReq(req, branch) /\ gnt)
    BY <2>4, EmptySeq
  <2> QED BY <2>3, <2>4
<1>5. Marked(req, branch, gnt) = old \o new
  BY DEF Marked, Late
<1> HIDE DEF old, new, late, n
<1>6. /\ old \o new \in Seq(BOOLEAN) /\ Len(old \o new) = n + Len(new)
      /\ \A i \in 1 .. n : (old \o new)[i] = old[i]
      /\ Len(new) = 1 => (old \o new)[n + 1] = new[1]
  BY <1>1, <1>3, <1>4, ConcatProperties
<1> QED BY <1>1, <1>3, <1>4, <1>5, <1>6 DEF n, late

\* What an answer takes away, and what a cycle leaves of the requests that count.
Counts(answer) == IF Answered(answer) /\ ~Head(outstanding) THEN 1 ELSE 0
New(req, branch, gnt) ==
  IF ValidReq(req, branch) /\ gnt /\ ~Late(req, branch, gnt) THEN 1 ELSE 0

\* The tracker after the cycle has bits for the requests outstanding, of which no
\* more count than the places that were reserved.
LEMMA KeptAfter ==
  ASSUME Traffic, NEW req, NEW branch, NEW gnt \in BOOLEAN, NEW answer,
         Track(req, branch, gnt, answer)
  PROVE  /\ outstanding' \in Seq(BOOLEAN)
         /\ Len(outstanding') = Len(outstanding)
              + (IF ValidReq(req, branch) /\ gnt THEN 1 ELSE 0)
              - (IF Answered(answer) THEN 1 ELSE 0)
         /\ Len(outstanding') <= 2
         /\ Kept(outstanding') <= IF branch = "set" THEN New(req, branch, gnt)
              ELSE Kept(outstanding) + New(req, branch, gnt) - Counts(answer)
<1> DEFINE m    == Marked(req, branch, gnt)
           n    == Len(outstanding)
           late == Late(req, branch, gnt)
           g    == ValidReq(req, branch) /\ gnt
<1>1. outstanding' = IF Answered(answer) THEN Tail(m) ELSE m
  BY DEF Track, Marked
<1>2. /\ m \in Seq(BOOLEAN) /\ Len(m) = IF g THEN n + 1 ELSE n
      /\ \A i \in 1 .. n : m[i] <=> outstanding[i] \/ branch = "set" \/ late
      /\ g => (m[n + 1] <=> late)
  BY MarkedBits
<1>3. n \in {0, 1, 2} /\ (g => n \in {0, 1})
  <2>1. n \in Nat /\ n <= 2
    BY LenProperties DEF Traffic, FlowType
  <2>2. g => n < 2
    BY RoomToGrant
  <2> HIDE DEF g, n
  <2> QED BY <2>1, <2>2
<1>4. Answered(answer) => n \in {1, 2} /\ Head(outstanding) = outstanding[1]
  <2>1. Answered(answer) => outstanding # <<>>
    BY DEF Answered
  <2>2. outstanding # <<>> => n # 0
    BY EmptySeq DEF Traffic, FlowType
  <2>3. Head(outstanding) = outstanding[1]
    BY DEF Traffic, FlowType
  <2> QED BY <1>3, <2>1, <2>2, <2>3
<1>5. late => g
  BY DEF Late
<1>6. New(req, branch, gnt) = IF g /\ ~late THEN 1 ELSE 0
  BY DEF New
<1>7. Counts(answer) = IF Answered(answer) /\ ~Head(outstanding) THEN 1 ELSE 0
  BY DEF Counts
<1> HIDE DEF m, n, late, g
<1>8. Kept(m) <= IF branch = "set" THEN New(req, branch, gnt)
                 ELSE Kept(outstanding) + New(req, branch, gnt)
  <2>1. CASE n = 0
    BY <1>2, <1>3, <1>5, <1>6, <2>1 DEF Kept, Keeps, n
  <2>2. CASE n = 1
    BY <1>2, <1>3, <1>5, <1>6, <2>2 DEF Kept, Keeps, n
  <2>3. CASE n = 2
    BY <1>2, <1>3, <1>5, <1>6, <2>3 DEF Kept, Keeps, n
  <2> QED BY <1>3, <2>1, <2>2, <2>3
<1>9. ASSUME Answered(answer)
      PROVE  /\ Tail(m) \in Seq(BOOLEAN) /\ Len(Tail(m)) = Len(m) - 1
             /\ Kept(Tail(m)) = Kept(m) - (IF m[1] THEN 0 ELSE 1)
  <2>1. m # <<>> /\ Len(m) \in {1, 2}
    BY <1>2, <1>3, <1>4, <1>9, EmptySeq
  <2>2. /\ Tail(m) \in Seq(BOOLEAN) /\ Len(Tail(m)) = Len(m) - 1
        /\ Len(m) = 2 => Tail(m)[1] = m[2]
    BY <1>2, <2>1, HeadTailProperties
  <2> QED BY <2>1, <2>2 DEF Kept, Keeps
<1>10. /\ outstanding' \in Seq(BOOLEAN)
       /\ Len(outstanding') = n + (IF g THEN 1 ELSE 0) - (IF Answered(answer) THEN 1 ELSE 0)
       /\ Len(outstanding') <= 2
  <2>1. CASE Answered(answer)
    <3>1. outstanding' = Tail(m)
      BY <1>1, <2>1, Zenon
    <3> QED BY <1>2, <1>3, <1>9, <2>1, <3>1
  <2>2. CASE ~Answered(answer)
    <3>1. outstanding' = m
      BY <1>1, <2>2, Zenon
    <3> QED BY <1>2, <1>3, <2>2, <3>1
  <2> QED BY <2>1, <2>2
<1>11. New(req, branch, gnt) \in {0, 1} /\ Counts(answer) \in {0, 1}
  BY <1>6, <1>7
<1>12. /\ Kept(m) \in {0, 1, 2} /\ Kept(outstanding) \in {0, 1, 2}
       /\ Answered(answer) /\ ~outstanding[1] => Kept(outstanding) \in {1, 2}
  <2>1. \A s : Kept(s) \in {0, 1, 2} /\ (1 <= Len(s) /\ ~s[1] => Kept(s) \in {1, 2})
    BY DEF Kept, Keeps
  <2>2. Answered(answer) => 1 <= Len(outstanding)
    BY <1>4 DEF n
  <2> HIDE DEF Kept
  <2> QED BY <2>1, <2>2
<1> DEFINE Bound == IF branch = "set" THEN New(req, branch, gnt)
                    ELSE Kept(outstanding) + New(req, branch, gnt) - Counts(answer)
<1>13. CASE ~Answered(answer)
  <2>1. outstanding' = m /\ Counts(answer) = 0
    BY <1>1, <1>7, <1>13, Zenon
  <2>2. Kept(outstanding') <= Bound
    BY <1>8, <1>11, <1>12, <2>1
  <2> QED BY <1>10, <2>2 DEF n, g
<1>14. CASE Answered(answer)
  <2>1. m[1] <=> outstanding[1] \/ branch = "set" \/ late
    BY <1>2, <1>3, <1>4, <1>14
  <2>2. Kept(outstanding') = Kept(m) - (IF m[1] THEN 0 ELSE 1)
    BY <1>1, <1>9, <1>14
  <2>3. Counts(answer) = IF outstanding[1] THEN 0 ELSE 1
    BY <1>4, <1>7, <1>14
  <2>4. CASE branch = "set"
    BY <1>8, <1>10, <1>11, <1>12, <2>2, <2>4 DEF n, g
  <2>5. CASE branch # "set" /\ ~late
    <3>1. Kept(outstanding') <= Bound
      BY <1>8, <1>11, <1>12, <2>1, <2>2, <2>3, <2>5
    <3> QED BY <1>10, <3>1 DEF n, g
  <2>6. CASE branch # "set" /\ late
    <3>1. Kept(m) = 0
      BY <1>2, <1>3, <1>5, <2>6 DEF Kept, Keeps
    <3>2. Kept(outstanding') <= Bound
      BY <1>11, <1>12, <1>14, <2>1, <2>2, <2>3, <2>6, <3>1
    <3> QED BY <1>10, <3>2 DEF n, g
  <2> QED BY <2>4, <2>5, <2>6
<1> QED BY <1>13, <1>14

\* The bus and the tracker count alike.
LEMMA BusCounts ==
  ASSUME Traffic, NEW at \in 0 .. Size - 1, NEW asks, NEW gnt \in BOOLEAN,
         NEW answer \in Answers, Bus(asks, at, gnt, answer)
  PROVE  /\ pending' \in Seq(0 .. Size - 1)
         /\ Len(pending') = Len(pending) + (IF gnt THEN 1 ELSE 0)
                              - (IF answer # <<>> THEN 1 ELSE 0)
         /\ gnt => asks
         /\ waiting' = IF asks /\ ~gnt THEN at ELSE None
<1> DEFINE rest == IF answer = <<>> THEN pending ELSE Tail(pending)
           new  == IF gnt THEN <<at>> ELSE <<>>
<1>1. pending \in Seq(0 .. Size - 1) /\ Len(pending) \in Nat
  BY LenProperties DEF Traffic, FlowType
<1>2. rest \in Seq(0 .. Size - 1)
      /\ Len(rest) = Len(pending) - (IF answer # <<>> THEN 1 ELSE 0)
  <2>1. CASE answer = <<>>
    BY <1>1, <2>1
  <2>2. CASE answer # <<>>
    <3>1. pending # <<>>
      BY <2>2, AnswerType
    <3> QED BY <1>1, <2>2, <3>1, HeadTailProperties
  <2> QED BY <2>1, <2>2
<1>3. new \in Seq(0 .. Size - 1) /\ Len(new) = IF gnt THEN 1 ELSE 0
  <2>1. CASE gnt
    BY <2>1
  <2>2. CASE ~gnt
    BY <2>2, EmptySeq
  <2> QED BY <2>1, <2>2
<1>4. pending' = rest \o new /\ (gnt => asks) /\ waiting' = IF asks /\ ~gnt THEN at ELSE None
  BY DEF Bus
<1> HIDE DEF rest, new
<1>5. rest \o new \in Seq(0 .. Size - 1) /\ Len(rest \o new) = Len(rest) + Len(new)
  BY <1>2, <1>3, ConcatProperties
<1> QED BY <1>1, <1>2, <1>3, <1>4, <1>5

\* Addresses stay in the memory.
LEMMA AddressTypes ==
  /\ \A h \in Halves, n \in Nat : Ahead(h, n) \in Halves
  /\ \A h \in Halves : NextWord(h) \in Halves /\ WordOf(h) \in 0 .. Size - 1
<1>1. Size \in Nat /\ Size # 0
  BY ImageAssumption
<1>2. \A i \in Nat : i % (2 * Size) \in 0 .. 2 * Size - 1
  BY <1>1
<1>3. \A h \in Halves, n \in Nat : h + n \in Nat
  BY <1>1 DEF Halves
<1>4. \A h \in Halves, n \in Nat : Ahead(h, n) \in Halves
  BY <1>2, <1>3 DEF Ahead, Halves
<1>5. \A h \in Halves : h - (h % 2) \in Halves /\ WordOf(h) \in 0 .. Size - 1
  BY <1>1 DEF Halves, WordOf
<1> QED BY <1>4, <1>5 DEF NextWord

\* A request not granted is stored, with its address.
LEMMA RequestStored ==
  ASSUME Traffic, NEW req, NEW branch, NEW addr \in Halves, NEW gnt \in BOOLEAN,
         Requests(req, branch, addr, gnt)
  PROVE  /\ valid_req_q' = (ValidReq(req, branch) /\ ~gnt)
         /\ discard_req_q' = Discarded(branch)
         /\ valid_req_q' => stored_addr' = InstrAddr(branch, addr)
         /\ InstrAddr(branch, addr) \in Halves
         /\ stored_addr' \in Halves /\ fetch_addr' \in Halves
<1>1. stored_addr \in Halves /\ fetch_addr \in Halves
  BY DEF Traffic, FlowType
<1>2. /\ valid_req_q' = (ValidReq(req, branch) /\ ~gnt)
      /\ discard_req_q' = Discarded(branch)
      /\ valid_req_q' => stored_addr' = InstrAddr(branch, addr)
  BY DEF Requests, ValidReq, InstrAddr
<1>3. InstrAddr(branch, addr) \in Halves
  BY <1>1 DEF InstrAddr
<1>4. stored_addr' \in Halves
  BY <1>1, <1>3 DEF Requests
<1>5. fetch_addr' \in Halves
  BY <1>1, AddressTypes DEF Requests
<1> QED BY <1>2, <1>3, <1>4, <1>5

\* A cycle of the core keeps the account.
LEMMA CycleKeeps ==
  ASSUME Traffic, NEW req \in BOOLEAN, NEW ready \in BOOLEAN, NEW clear, NEW branch,
         NEW addr \in Halves, NEW gnt \in BOOLEAN, NEW answer \in Answers,
         CycleWith(req, ready, clear, branch, addr, gnt, answer)
  PROVE  /\ Traffic'
         /\ ValidReq(req, branch) \in BOOLEAN
         /\ ~Busy(req, branch) => ~valid_req_q' /\ outstanding' = <<>>
<1> DEFINE asks == ValidReq(req, branch)
           in   == FifoIn(answer)
<1>1. /\ Requests(req, branch, addr, gnt) /\ Track(req, branch, gnt, answer)
      /\ FifoStep(in, ready, branch = "set", addr)
      /\ Bus(asks, WordOf(InstrAddr(branch, addr)), gnt, answer)
      /\ core_busy_q' = (CtrlBusy \/ Busy(req, branch))
  BY DEF CycleWith, PrefetchStep
<1>2. asks \in BOOLEAN
  BY DEF ValidReq
<1>3. /\ valid_req_q' = (asks /\ ~gnt) /\ discard_req_q' = Discarded(branch)
      /\ valid_req_q' => stored_addr' = InstrAddr(branch, addr)
      /\ WordOf(InstrAddr(branch, addr)) \in 0 .. Size - 1
      /\ stored_addr' \in Halves /\ fetch_addr' \in Halves
  BY <1>1, RequestStored, AddressTypes
<1>4. /\ pending' \in Seq(0 .. Size - 1)
      /\ Len(pending') = Len(pending) + (IF gnt THEN 1 ELSE 0)
                           - (IF answer # <<>> THEN 1 ELSE 0)
      /\ gnt => asks
      /\ waiting' = IF asks /\ ~gnt THEN WordOf(InstrAddr(branch, addr)) ELSE None
  <2> DEFINE at == WordOf(InstrAddr(branch, addr))
  <2> HIDE DEF at, asks
  <2>1. at \in 0 .. Size - 1
    BY <1>3 DEF at
  <2>2. Bus(asks, at, gnt, answer)
    BY <1>1 DEF at
  <2>3. /\ pending' \in Seq(0 .. Size - 1)
        /\ Len(pending') = Len(pending) + (IF gnt THEN 1 ELSE 0)
                             - (IF answer # <<>> THEN 1 ELSE 0)
        /\ gnt => asks
        /\ waiting' = IF asks /\ ~gnt THEN at ELSE None
    BY <2>1, <2>2, BusCounts
  <2> QED BY <2>3 DEF at
<1>5. Answered(answer) <=> answer # <<>>
  BY AnswerType DEF Answered
<1>6. /\ outstanding' \in Seq(BOOLEAN)
      /\ Len(outstanding') = Len(outstanding) + (IF asks /\ gnt THEN 1 ELSE 0)
                               - (IF Answered(answer) THEN 1 ELSE 0)
      /\ Len(outstanding') <= 2
      /\ Kept(outstanding') <= IF branch = "set" THEN New(req, branch, gnt)
           ELSE Kept(outstanding) + New(req, branch, gnt) - Counts(answer)
  BY <1>1, KeptAfter
<1>7. /\ in \in Seq(Entry) /\ Len(in) = Counts(answer)
      /\ Counts(answer) \in {0, 1}
  <2>1. CASE Answered(answer) /\ ~Head(outstanding)
    <3>1. answer \in Seq(Entry) /\ Len(answer) = 1
      BY <2>1, AnswerType DEF Answered
    <3> QED BY <2>1, <3>1 DEF FifoIn, Counts
  <2>2. CASE ~(Answered(answer) /\ ~Head(outstanding))
    BY <2>2, EmptySeq DEF FifoIn, Counts
  <2> QED BY <2>1, <2>2
<1>8. Len(entries) \in Nat /\ Kept(outstanding) \in 0 .. Len(outstanding)
      /\ Len(outstanding) \in Nat /\ Reserved \in {0, 1}
  BY LenProperties, KeptBound DEF Traffic, FlowType, Reserved
<1>9. /\ entries' \in Seq(Entry)
      /\ branch = "set" => entries' = <<>>
      /\ Len(entries') <= Len(entries) + Counts(answer)
  <2>1. Len(entries) <= 3 /\ FlowType
    BY <1>8 DEF Traffic
  <2>2. Len(in) <= 1 /\ in \in Seq(Entry)
    BY <1>7
  <2> DEFINE set == branch = "set"
  <2>3. FifoStep(in, ready, set, addr) /\ set \in BOOLEAN
    BY <1>1
  <2> HIDE DEF in, set
  <2>4. /\ entries' \in Seq(Entry) /\ (set => entries' = <<>>)
        /\ Len(entries') <= Len(entries) + Len(in)
    BY <2>1, <2>2, <2>3, FifoGrows
  <2> QED BY <1>7, <2>4 DEF set
<1>10. Reserved' = IF asks /\ ~gnt /\ ~Discarded(branch) THEN 1 ELSE 0
  BY <1>2, <1>3 DEF Reserved
<1>11. Len(entries') + Kept(outstanding') + Reserved' <= 3
  <2>1. Len(entries') \in Nat /\ Kept(outstanding') \in Nat
    BY <1>6, <1>9, KeptBound, LenProperties
  <2>2. New(req, branch, gnt) + Reserved' = IF asks /\ ~Discarded(branch) THEN 1 ELSE 0
    BY <1>2, <1>10 DEF New, Late, Discarded
  <2>3. New(req, branch, gnt) \in {0, 1}
    BY DEF New
  <2> HIDE DEF Kept
  <2>4. CASE branch = "set"
    <3>1. Len(entries') = 0
      BY <1>9, <2>4, EmptySeq
    <3> QED BY <1>6, <1>10, <2>1, <2>2, <2>3, <2>4, <3>1
  <2>5. CASE branch # "set"
    <3>1. Len(entries') + Kept(outstanding') <=
            Len(entries) + Kept(outstanding) + New(req, branch, gnt)
      BY <1>6, <1>7, <1>8, <1>9, <2>1, <2>3, <2>5
    <3>2. asks /\ ~Discarded(branch) => Len(entries) + Kept(outstanding) + 1 <= 3
      <4>1. CASE valid_req_q
        <5>1. ~Discarded(branch) => Reserved = 1
          BY <2>5, <4>1 DEF Discarded, Reserved
        <5> QED BY <1>8, <5>1 DEF Traffic
      <4>2. CASE ~valid_req_q
        <5>1. asks => Len(entries) + Len(outstanding) < 3
          BY <2>5, <4>2, FetchAssumption DEF ValidReq, ValidNewReq, FifoReady, Depth
        <5> QED BY <1>8, <5>1
      <4> QED BY <4>1, <4>2
    <3>3. Len(entries) + Kept(outstanding) <= 3
      BY <1>8 DEF Traffic
    <3> QED BY <1>8, <1>10, <2>1, <2>2, <2>3, <3>1, <3>2, <3>3
  <2> QED BY <2>4, <2>5
<1>12. Len(pending') = Len(outstanding')
  BY <1>2, <1>4, <1>5, <1>6 DEF Traffic
<1>13. valid_req_q' => Len(outstanding') < 2
  <2>1. asks => Len(outstanding) < 2
    BY RoomToGrant
  <2>2. asks /\ ~gnt => Len(outstanding') <= Len(outstanding)
    BY <1>6, <1>8
  <2>3. Len(outstanding') \in Nat
    BY <1>6, LenProperties
  <2>4. valid_req_q' => asks /\ ~gnt
    BY <1>3
  <2>5. Len(outstanding) \in Nat
    BY <1>8
  <2> HIDE DEF asks
  <2> QED BY <2>1, <2>2, <2>3, <2>4, <2>5
<1>14. RequestHeld'
  BY <1>3, <1>4 DEF RequestHeld
<1>15. FlowType'
  <2>1. discard_req_q' \in BOOLEAN /\ valid_req_q' \in BOOLEAN /\ core_busy_q' \in BOOLEAN
    BY <1>1, <1>2, <1>3 DEF Discarded, CtrlBusy, Busy
  <2> QED BY <1>3, <1>4, <1>6, <1>9, <2>1 DEF FlowType
<1>16. ~Busy(req, branch) => ~valid_req_q' /\ outstanding' = <<>>
  <2>1. ~Busy(req, branch) => ~asks /\ outstanding = <<>>
    BY DEF Busy
  <2>2. ~asks /\ outstanding = <<>> => Len(outstanding') = 0
    BY <1>6, EmptySeq DEF Answered
  <2>3. Len(outstanding') = 0 => outstanding' = <<>>
    BY <1>6, EmptySeq
  <2> QED BY <1>3, <2>1, <2>2, <2>3
<1> QED BY <1>2, <1>6, <1>11, <1>12, <1>13, <1>14, <1>15, <1>16 DEF Traffic

\* The boot address and the targets are addresses.
LEMMA TargetsAreAddresses == Boot \in Halves /\ \A addr \in Targets : addr \in Halves
  BY FetchAssumption

\* A step of the controller with a cycle of the core keeps the invariant.
LEMMA CycleStep ==
  ASSUME Traffic, NEW req \in BOOLEAN, NEW ready \in BOOLEAN, NEW clear, NEW branch,
         NEW addr \in Halves, Cycle(req, ready, clear, branch, addr),
         CtrlBusy \/ ctrl_fsm' \in {"RESET", "SLEEP"}
  PROVE  FlowInv'
<1>1. PICK gnt \in BOOLEAN, answer \in Answers :
        CycleWith(req, ready, clear, branch, addr, gnt, answer)
  BY DEF Cycle
<1>2. Traffic' /\ (~Busy(req, branch) => ~valid_req_q' /\ outstanding' = <<>>)
  BY <1>1, CycleKeeps
<1>3. core_busy_q' = (CtrlBusy \/ Busy(req, branch))
  BY <1>1 DEF CycleWith
<1>4. Gate'
  BY <1>2, <1>3 DEF Gate
<1> QED BY <1>2, <1>4 DEF FlowInv

\* With the clock shut the core asks for nothing, and no answer is to come.
LEMMA GatedIsIdle ==
  ASSUME FlowInv, Gated
  PROVE  /\ ctrl_fsm \in {"RESET", "SLEEP"} /\ ~valid_req_q /\ outstanding = <<>>
         /\ UNCHANGED <<image, prefetchVars, ctrl_fsm, id, turn, pending>>
         /\ waiting' = None /\ core_busy_q' \in BOOLEAN
<1> DEFINE req == ctrl_fsm \notin {"RESET", "WAIT_SLEEP", "SLEEP"}
<1>1. /\ ctrl_fsm \in {"RESET", "SLEEP"} /\ ~valid_req_q /\ outstanding = <<>>
      /\ UNCHANGED <<image, prefetchVars, ctrl_fsm, id, turn>>
  BY DEF Gated, FlowInv, Gate
<1>2. ~ValidReq(req, "none")
  BY <1>1 DEF ValidReq, ValidNewReq
<1>3. pending = <<>>
  BY <1>1, EmptySeq DEF FlowInv, Traffic, FlowType
<1>4. PICK gnt \in BOOLEAN, answer \in Answers :
        /\ Bus(ValidReq(req, "none"), WordOf(InstrAddr("none", Boot)), gnt, answer)
        /\ core_busy_q' = (CtrlBusy \/ Busy(req, "none"))
  BY DEF Gated
<1>5. answer = <<>> /\ ~gnt
  BY <1>2, <1>3, <1>4 DEF Answers, Bus
<1>6. pending' = pending /\ waiting' = None
  <2>1. pending' = pending \o <<>> /\ waiting' = None
    BY <1>2, <1>4, <1>5 DEF Bus
  <2> QED BY <1>3, <2>1, EmptySeq, ConcatEmptySeq DEF FlowInv, Traffic, FlowType
<1>7. core_busy_q' \in BOOLEAN
  BY <1>4 DEF CtrlBusy, Busy, ValidReq
<1> QED BY <1>1, <1>6, <1>7

\* A cycle with the clock shut keeps the invariant.
LEMMA GatedStep ==
  ASSUME FlowInv, Gated
  PROVE  FlowInv'
<1>1. /\ ctrl_fsm \in {"RESET", "SLEEP"} /\ ~valid_req_q /\ outstanding = <<>>
      /\ UNCHANGED <<ctrl_fsm, pending>> /\ waiting' = None /\ core_busy_q' \in BOOLEAN
  BY GatedIsIdle
<1>2. UNCHANGED <<entries, outstanding, valid_req_q, discard_req_q, stored_addr, fetch_addr>>
  BY GatedIsIdle DEF prefetchVars
<1>3. Traffic'
  BY <1>1, <1>2 DEF FlowInv, Traffic, FlowType, Reserved, RequestHeld, Kept, Keeps
<1>4. Gate'
  BY <1>1, <1>2 DEF Gate
<1> QED BY <1>3, <1>4 DEF FlowInv

\* The reset of core and bus clears both sides of the account.
LEMMA ResetStep ==
  ASSUME FlowInv, Reset
  PROVE  FlowInv'
<1>1. /\ entries' = <<>> /\ outstanding' = <<>> /\ pending' = <<>> /\ waiting' = None
      /\ valid_req_q' = FALSE /\ discard_req_q' = FALSE /\ core_busy_q' = FALSE
      /\ ctrl_fsm' = "RESET" /\ UNCHANGED <<stored_addr, fetch_addr>>
  BY DEF Reset, PrefetchReset
<1>2. FlowType'
  BY <1>1, EmptySeq DEF FlowInv, Traffic, FlowType
<1>3. Len(entries') = 0 /\ Len(outstanding') = 0 /\ Len(pending') = 0
  BY <1>1, EmptySeq
<1>4. Kept(outstanding') = 0 /\ Reserved' = 0
  BY <1>1, <1>3 DEF Kept, Keeps, Reserved
<1>5. RequestHeld'
  BY <1>1 DEF RequestHeld
<1> QED BY <1>1, <1>2, <1>3, <1>4, <1>5 DEF FlowInv, Traffic, Gate

\* Every step keeps the invariant.
LEMMA FlowStep == FlowInv /\ [Next]_vars => FlowInv'
<1> SUFFICES ASSUME FlowInv, [Next]_vars PROVE FlowInv'
  OBVIOUS
<1> USE TargetsAreAddresses
<1>1. Traffic
  BY DEF FlowInv
<1>2. CASE BootReset
  BY <1>1, <1>2, CycleStep DEF BootReset, CtrlBusy
<1>3. CASE BootSet
  BY <1>1, <1>3, CycleStep DEF BootSet, CtrlBusy
<1>4. CASE Run
  <2>1. PICK ready, clear \in BOOLEAN, branch \in {"none", "spec", "set"}, addr \in Targets :
          Cycle(TRUE, ready, clear, branch, addr)
    BY <1>4 DEF Run
  <2>2. CtrlBusy
    BY <1>4 DEF Run, CtrlBusy
  <2> QED BY <1>1, <2>1, <2>2, CycleStep
<1>5. CASE Wfi
  BY <1>1, <1>5, CycleStep DEF Wfi, CtrlBusy
<1>6. CASE WaitSleep
  BY <1>1, <1>6, CycleStep DEF WaitSleep
<1>7. CASE Asleep
  BY <1>1, <1>7, CycleStep DEF Asleep
<1>8. CASE WakeUp
  BY <1>1, <1>8, CycleStep DEF WakeUp, CtrlBusy
<1>9. CASE Gated
  BY <1>9, GatedStep
<1>10. CASE Reset
  BY <1>10, ResetStep
<1>11. CASE UNCHANGED vars
  BY <1>11 DEF vars, prefetchVars, stageVars, FlowInv, Traffic, Gate, FlowType,
               Reserved, RequestHeld, Kept, Keeps
<1> QED BY <1>2, <1>3, <1>4, <1>5, <1>6, <1>7, <1>8, <1>9, <1>10, <1>11 DEF Next, Clock

\* The invariant holds in every reachable state.
LEMMA FlowInvariant == Spec => []FlowInv
  BY Initially, FlowStep, PTL DEF Spec

\* For every memory, boot address and set of targets, and any bus: the prefetch
\* buffer and the bus agree at all times on how many answers are to come, also
\* behind a shut clock gate.
THEOREM NoAnswerIsLost == Spec => []AnswersAreAwaited
<1>1. FlowInv => AnswersAreAwaited
  BY DEF FlowInv, Traffic, AnswersAreAwaited
<1> QED BY <1>1, FlowInvariant, PTL

\* A request not granted stays on the bus with its address, through branches,
\* sleep and reset.
THEOREM RequestIsStable == Spec => []RequestHeld
<1>1. FlowInv => RequestHeld
  BY DEF FlowInv, Traffic
<1> QED BY <1>1, FlowInvariant, PTL

\* No word that counts ever comes to a full FIFO.
THEOREM FifoHasRoom == Spec => []NeverOverflows
<1>1. FlowInv => NeverOverflows
  <2> SUFFICES ASSUME FlowInv PROVE NeverOverflows
    OBVIOUS
  <2>1. Cardinality({i \in DOMAIN outstanding : ~outstanding[i]}) = Kept(outstanding)
    BY KeptCounts DEF FlowInv, Traffic, FlowType
  <2>2. Len(entries) \in Nat /\ Kept(outstanding) \in Int /\ Reserved \in {0, 1}
    BY LenProperties, KeptBound DEF FlowInv, Traffic, FlowType, Reserved
  <2>3. Len(entries) + Kept(outstanding) + Reserved <= 3
    BY DEF FlowInv, Traffic
  <2> HIDE DEF Kept
  <2> QED BY <2>1, <2>2, <2>3, FetchAssumption DEF NeverOverflows, Depth
<1> QED BY <1>1, FlowInvariant, PTL

--------------------------------------------------------------------------------
(* What the stage hands over: the words of the entries, of the requests and of *)
(* the fetch address, in line.                                                *)

\* The word after w in the memory.
Following(w) == IF w = Size - 1 THEN 0 ELSE w + 1

\* The words of s are those of the memory from w on, with their errors; and the
\* word that comes after them.
Line(s, w) ==
  /\ s # <<>> => s[1].at = w
  /\ \A i \in 1 .. Len(s) - 1 : s[i + 1].at = Following(s[i].at)
  /\ \A i \in 1 .. Len(s) : s[i].err = (s[i].at \in image.bad)
After(s, w) == IF s = <<>> THEN w ELSE Following(s[Len(s)].at)

\* Where the addresses of the fetch path lead.
LEMMA WordsFollow ==
  ASSUME NEW h \in Halves
  PROVE  /\ Following(WordOf(h)) \in 0 .. Size - 1
         /\ WordOf(Ahead(h, 1)) = IF IsOdd(h) THEN Following(WordOf(h)) ELSE WordOf(h)
         /\ Ahead(h, 1) = IF IsOdd(h) THEN 2 * Following(WordOf(h)) ELSE h + 1
         /\ WordOf(Ahead(h, 2)) = Following(WordOf(h))
         /\ WordOf(NextWord(h)) = Following(WordOf(h))
         /\ h = 2 * WordOf(h) + (h % 2) /\ h % 2 \in {0, 1}
<1>1. Size \in Nat /\ Size # 0
  BY ImageAssumption
<1>2. h \in Nat /\ h < 2 * Size
  BY <1>1 DEF Halves
<1>3. /\ Ahead(h, 1) = IF h + 1 < 2 * Size THEN h + 1 ELSE 0
      /\ Ahead(h, 2) = IF h + 2 < 2 * Size THEN h + 2 ELSE h + 2 - 2 * Size
      /\ \A g \in Nat : g + 2 <= 2 * Size =>
           Ahead(g, 2) = IF g + 2 < 2 * Size THEN g + 2 ELSE 0
  <2> DEFINE m == 2 * Size
  <2>1. m \in Nat /\ m >= 2 /\ h < m
    BY <1>1, <1>2
  <2>2. \A g, n : Ahead(g, n) = (g + n) % m
    BY DEF Ahead
  <2> HIDE DEF m
  <2>3. /\ (h + 1) % m = IF h + 1 < m THEN h + 1 ELSE 0
        /\ (h + 2) % m = IF h + 2 < m THEN h + 2 ELSE h + 2 - m
        /\ \A g \in Nat : g + 2 <= m => (g + 2) % m = IF g + 2 < m THEN g + 2 ELSE 0
    BY <1>2, <2>1
  <2>4. /\ Ahead(h, 1) = IF h + 1 < m THEN h + 1 ELSE 0
        /\ Ahead(h, 2) = IF h + 2 < m THEN h + 2 ELSE h + 2 - m
        /\ \A g \in Nat : g + 2 <= m => Ahead(g, 2) = IF g + 2 < m THEN g + 2 ELSE 0
    BY <2>2, <2>3
  <2> QED BY <2>4 DEF m
<1>4. h = 2 * WordOf(h) + (h % 2) /\ h % 2 \in {0, 1} /\ WordOf(h) \in 0 .. Size - 1
  BY <1>1, <1>2 DEF WordOf
<1>5. \A g \in Nat : WordOf(2 * g) = g /\ WordOf(2 * g + 1) = g
  BY DEF WordOf
<1>6. NextWord(h) = IF 2 * WordOf(h) + 2 < 2 * Size THEN 2 * WordOf(h) + 2 ELSE 0
  <2>1. /\ h - (h % 2) = 2 * WordOf(h) /\ 2 * WordOf(h) + 2 <= 2 * Size
        /\ 2 * WordOf(h) \in Nat
    BY <1>1, <1>4
  <2> QED BY <1>3, <2>1 DEF NextWord
<1>7. Following(WordOf(h)) \in 0 .. Size - 1
  BY <1>1, <1>4 DEF Following
<1>8. CASE WordOf(h) = Size - 1
  <2>1. Following(WordOf(h)) = 0
    BY <1>8 DEF Following
  <2>2. NextWord(h) = 0 /\ Ahead(h, 2) = h % 2
    BY <1>1, <1>3, <1>4, <1>6, <1>8
  <2>3. WordOf(0) = 0 /\ WordOf(1) = 0
    BY <1>5
  <2>4. IsOdd(h) => Ahead(h, 1) = 0
    BY <1>1, <1>3, <1>4, <1>8 DEF IsOdd
  <2>5. ~IsOdd(h) => Ahead(h, 1) = h + 1 /\ h = 2 * WordOf(h)
    BY <1>1, <1>3, <1>4, <1>8 DEF IsOdd
  <2>6. ~IsOdd(h) => WordOf(Ahead(h, 1)) = WordOf(h)
    BY <1>4, <1>5, <2>5
  <2> QED BY <1>4, <1>7, <2>1, <2>2, <2>3, <2>4, <2>5, <2>6
<1>9. CASE WordOf(h) # Size - 1
  <2>1. Following(WordOf(h)) = WordOf(h) + 1
    BY <1>9 DEF Following
  <2>2. NextWord(h) = 2 * (WordOf(h) + 1) /\ Ahead(h, 2) = 2 * (WordOf(h) + 1) + (h % 2)
    BY <1>1, <1>3, <1>4, <1>6, <1>9
  <2>3. /\ WordOf(2 * (WordOf(h) + 1)) = WordOf(h) + 1
        /\ WordOf(2 * (WordOf(h) + 1) + 1) = WordOf(h) + 1
    BY <1>4, <1>5
  <2>4. IsOdd(h) => Ahead(h, 1) = 2 * (WordOf(h) + 1)
    BY <1>1, <1>3, <1>4, <1>9 DEF IsOdd
  <2>5. ~IsOdd(h) => Ahead(h, 1) = h + 1 /\ h = 2 * WordOf(h)
    BY <1>1, <1>3, <1>4, <1>9 DEF IsOdd
  <2>6. ~IsOdd(h) => WordOf(Ahead(h, 1)) = WordOf(h)
    BY <1>4, <1>5, <2>5
  <2>7. WordOf(Ahead(h, 2)) = WordOf(h) + 1
    BY <1>4, <2>2, <2>3
  <2> QED BY <1>4, <1>7, <2>1, <2>2, <2>3, <2>4, <2>5, <2>6, <2>7
<1> QED BY <1>8, <1>9

\* A line without its first word, and with one more.
LEMMA LineTail ==
  ASSUME NEW s \in Seq(Entry), s # <<>>, NEW w, Line(s, w)
  PROVE  /\ Line(Tail(s), Following(w))
         /\ After(Tail(s), Following(w)) = After(s, w)
<1> DEFINE t == Tail(s)
           n == Len(s)
<1>1. n \in Nat /\ n >= 1 /\ s[1].at = w
  BY EmptySeq, LenProperties DEF Line
<1>2. t \in Seq(Entry) /\ Len(t) = n - 1 /\ \A i \in 1 .. n - 1 : t[i] = s[i + 1]
  BY HeadTailProperties
<1>3. \A i \in 1 .. n - 1 : s[i + 1].at = Following(s[i].at)
  BY DEF Line
<1>4. \A i \in 1 .. n : s[i].err = (s[i].at \in image.bad)
  BY DEF Line
<1> HIDE DEF t, n
<1>5. t # <<>> => Len(t) >= 1
  BY <1>2, EmptySeq, LenProperties
<1>6. t # <<>> => t[1].at = Following(w)
  BY <1>1, <1>2, <1>3, <1>5
<1>7. ASSUME NEW i \in 1 .. Len(t) - 1
      PROVE  t[i + 1].at = Following(t[i].at)
  <2>1. i + 1 \in 1 .. n - 1 /\ i \in 1 .. n - 1
    BY <1>1, <1>2
  <2>2. t[i] = s[i + 1] /\ t[i + 1] = s[(i + 1) + 1]
    BY <1>2, <2>1, Zenon
  <2> QED BY <1>3, <2>1, <2>2
<1>8. \A i \in 1 .. Len(t) : t[i].err = (t[i].at \in image.bad)
  BY <1>1, <1>2, <1>4
<1>9. After(t, Following(w)) = After(s, w)
  <2>1. CASE t = <<>>
    <3>1. n = 1
      BY <1>1, <1>2, <2>1, EmptySeq
    <3> QED BY <1>1, <2>1, <3>1 DEF After, n
  <2>2. CASE t # <<>>
    <3>1. t[Len(t)] = s[n]
      BY <1>1, <1>2, <1>5, <2>2
    <3> QED BY <2>2, <3>1 DEF After, n
  <2> QED BY <2>1, <2>2
<1> QED BY <1>6, <1>7, <1>8, <1>9 DEF Line, t

\* A line with the word that follows at its end.
LEMMA LineGrows ==
  ASSUME NEW s \in Seq(Entry), NEW w, Line(s, w), NEW e \in Entry,
         e.at = After(s, w), e.err = (e.at \in image.bad)
  PROVE  /\ Line(s \o <<e>>, w)
         /\ After(s \o <<e>>, w) = Following(After(s, w))
<1> DEFINE t == s \o <<e>>
           n == Len(s)
<1>1. n \in Nat
  BY LenProperties
<1>2. <<e>> \in Seq(Entry) /\ Len(<<e>>) = 1 /\ <<e>>[1] = e
  OBVIOUS
<1>3. /\ t \in Seq(Entry) /\ Len(t) = n + 1 /\ t[n + 1] = e
      /\ \A i \in 1 .. n : t[i] = s[i]
  BY <1>1, <1>2, ConcatProperties
<1>4. s # <<>> => n >= 1 /\ s[1].at = w
  BY <1>1, EmptySeq DEF Line
<1>5. s = <<>> => n = 0
  BY EmptySeq
<1>6. \A i \in 1 .. n - 1 : s[i + 1].at = Following(s[i].at)
  BY DEF Line
<1>7. \A i \in 1 .. n : s[i].err = (s[i].at \in image.bad)
  BY DEF Line
<1>8. e.at = IF s = <<>> THEN w ELSE Following(s[n].at)
  BY DEF After
<1> HIDE DEF t, n
<1>9. t # <<>>
  BY <1>1, <1>3, EmptySeq
<1>10. t[1].at = w
  BY <1>1, <1>3, <1>4, <1>5, <1>8
<1>11. ASSUME NEW i \in 1 .. n
       PROVE  t[i + 1].at = Following(t[i].at)
  <2>1. CASE i = n
    BY <1>1, <1>3, <1>5, <1>8, <2>1
  <2>2. CASE i # n
    BY <1>1, <1>3, <1>6, <2>2
  <2> QED BY <2>1, <2>2
<1>12. ASSUME NEW i \in 1 .. n + 1
       PROVE  t[i].err = (t[i].at \in image.bad)
  BY <1>1, <1>3, <1>7
<1>13. After(t, w) = Following(e.at)
  BY <1>3, <1>9 DEF After
<1>14. Len(t) - 1 = n
  BY <1>1, <1>3
<1>15. Line(t, w)
  BY <1>3, <1>10, <1>11, <1>12, <1>14 DEF Line
<1>16. After(t, w) = Following(After(s, w))
  BY <1>13
<1> QED BY <1>15, <1>16 DEF t

\* The word the FIFO takes next.
Expected == After(entries, WordOf(instr_addr))

\* What is handed over of an instruction: its address, whether one of its words
\* came with an error, its halves, and whether only the second word did.
Parcel(h, err, parts, plus2) ==
  [addr |-> h, err |-> err, parts |-> IF err THEN <<>> ELSE parts, plus2 |-> err /\ plus2]

\* An instruction is made of one half, or of two.
LEMMA InstructionAt ==
  ASSUME NEW h \in Halves, image \in Images
  PROVE  /\ Compressed(image, h) => Instruction(image, h) = Parcel(h, FALSE, <<h>>, FALSE)
         /\ ~Compressed(image, h) =>
              LET last == Ahead(h, 1)
              IN  Instruction(image, h) =
                    Parcel(h, WordOf(h) \in image.bad \/ WordOf(last) \in image.bad,
                           <<h, last>>, WordOf(h) \notin image.bad)
<1> DEFINE Whole(last) ==
      Parcel(h, WordOf(h) \in image.bad \/ WordOf(last) \in image.bad,
             IF last = h THEN <<h>> ELSE <<h, last>>, WordOf(h) \notin image.bad)
<1>1. Instruction(image, h) = Whole(Ahead(h, Length(image, h) - 1))
  BY DEF Instruction, Parcel
<1>2. h \in Nat /\ Size \in Nat /\ Size >= 1 /\ h < 2 * Size
  BY ImageAssumption DEF Halves
<1>3. Ahead(h, 0) = h
  <2> DEFINE m == 2 * Size
  <2>1. h < m /\ m \in Nat
    BY <1>2
  <2>2. Ahead(h, 0) = (h + 0) % m
    BY DEF Ahead
  <2> HIDE DEF m
  <2> QED BY <1>2, <2>1, <2>2
<1>4. Ahead(h, 1) # h
  BY <1>2, WordsFollow DEF IsOdd
<1> HIDE DEF Whole
<1>5. CASE Compressed(image, h)
  <2>1. Length(image, h) - 1 = 0
    BY <1>5 DEF Length
  <2>2. Instruction(image, h) = Whole(h)
    BY <1>1, <1>3, <2>1
  <2>3. WordOf(h) \notin image.bad
    BY <1>5 DEF Compressed
  <2>4. Whole(h) = Parcel(h, FALSE, <<h>>, FALSE)
    BY <2>3 DEF Whole, Parcel
  <2> QED BY <1>5, <2>2, <2>4
<1>6. CASE ~Compressed(image, h)
  <2> DEFINE last == Ahead(h, 1)
  <2>1. Length(image, h) - 1 = 1
    BY <1>6 DEF Length
  <2>2. Instruction(image, h) = Whole(last)
    BY <1>1, <2>1
  <2>3. (IF last = h THEN <<h>> ELSE <<h, last>>) = <<h, last>>
    BY <1>4
  <2> HIDE DEF last
  <2>4. Whole(last) =
          Parcel(h, WordOf(h) \in image.bad \/ WordOf(last) \in image.bad,
                 <<h, last>>, WordOf(h) \notin image.bad)
    BY <2>3, Zenon DEF Whole
  <2> QED BY <1>6, <2>2, <2>4 DEF last
<1> QED BY <1>5, <1>6

\* Two halves, one after the other.
LEMMA TwoHalves ==
  ASSUME NEW p, NEW q
  PROVE  <<p>> \o <<q>> = <<p, q>>
<1>1. /\ <<p>> \in Seq({p, q}) /\ <<q>> \in Seq({p, q})
      /\ Len(<<p>>) = 1 /\ Len(<<q>>) = 1 /\ <<p>>[1] = p /\ <<q>>[1] = q
  OBVIOUS
<1>2. /\ <<p>> \o <<q>> \in Seq({p, q}) /\ Len(<<p>> \o <<q>>) = 2
      /\ (<<p>> \o <<q>>)[1] = p /\ (<<p>> \o <<q>>)[2] = q
  BY <1>1, ConcatProperties
<1>3. <<p, q>> \in Seq({p, q}) /\ Len(<<p, q>>) = 2 /\ <<p, q>>[1] = p /\ <<p, q>>[2] = q
  OBVIOUS
<1> DEFINE s == <<p>> \o <<q>>
           t == <<p, q>>
<1>4. s \in Seq({p, q}) /\ t \in Seq({p, q}) /\ Len(s) = 2 /\ Len(t) = 2
      /\ s[1] = t[1] /\ s[2] = t[2]
  BY <1>2, <1>3
<1> HIDE DEF s, t
<1>5. \A i \in 1 .. Len(s) : s[i] = t[i]
  BY <1>4
<1>6. s = t
  BY <1>4, <1>5, SeqEqual
<1> QED BY <1>6 DEF s, t

\* What the FIFO shows at its output is the instruction at its address.
LEMMA OutIsInstruction ==
  ASSUME image \in Images, instr_addr \in Halves, NEW in, Visible(in) \in Seq(Entry),
         Line(Visible(in), WordOf(instr_addr)), OutValid(in)
  PROVE  /\ Shortens(in) <=> Compressed(image, instr_addr)
         /\ Out(in) = Instruction(image, instr_addr)
<1> DEFINE h == instr_addr
           w == WordOf(h)
           v == Visible(in)
<1>1. v # <<>> /\ Len(v) \in Nat /\ Len(v) >= 1
  BY EmptySeq, LenProperties DEF OutValid
<1>2. v[1].at = w /\ v[1].err = (w \in image.bad)
  BY <1>1 DEF Line
<1>3. h = 2 * w + (h % 2) /\ h % 2 \in {0, 1} /\ w \in Nat
  BY WordsFollow, AddressTypes
<1>4. BeginsShort(v[1], h % 2) <=> Compressed(image, h)
  BY <1>2, <1>3 DEF BeginsShort, Compressed
<1>5. Shortens(in) <=> Compressed(image, h)
  BY <1>4 DEF Shortens
<1> DEFINE split == IsOdd(h) /\ ~Shortens(in)
           err   == v[1].err \/ (split /\ v[2].err)
           parts == <<2 * v[1].at + (h % 2)>> \o
                      (IF Shortens(in) THEN <<>>
                       ELSE IF split THEN <<2 * v[2].at>> ELSE <<2 * v[1].at + 1>>)
           plus2 == split /\ v[2].err /\ ~v[1].err
<1>6. Out(in) = Parcel(h, err, parts, plus2)
  BY Zenon DEF Out, Parcel
<1>7. 2 * v[1].at + (h % 2) = h
  BY <1>2, <1>3
<1>8. CASE Compressed(image, h)
  <2>1. w \notin image.bad
    BY <1>8 DEF Compressed
  <2>2. err = FALSE /\ plus2 = FALSE
    BY <1>2, <1>5, <1>8, <2>1
  <2>3. parts = <<h>>
    <3>1. parts = <<h>> \o <<>>
      BY <1>5, <1>7, <1>8
    <3> QED BY <3>1
  <2> HIDE DEF err, parts, plus2
  <2>4. Out(in) = Parcel(h, FALSE, <<h>>, FALSE)
    BY <1>6, <2>2, <2>3
  <2> QED BY <1>5, <1>8, <2>4, InstructionAt
<1>9. CASE ~Compressed(image, h) /\ ~IsOdd(h)
  <2>1. h + 1 = Ahead(h, 1) /\ WordOf(Ahead(h, 1)) = w /\ h = 2 * w
    BY <1>3, <1>9, WordsFollow DEF IsOdd
  <2>2. err = (w \in image.bad \/ WordOf(Ahead(h, 1)) \in image.bad) /\ plus2 = FALSE
    BY <1>2, <1>9, <2>1
  <2>3. parts = <<h, Ahead(h, 1)>>
    <3>1. 2 * v[1].at + 1 = Ahead(h, 1)
      BY <1>2, <2>1
    <3>2. parts = <<h>> \o <<Ahead(h, 1)>>
      BY <1>5, <1>7, <1>9, <3>1
    <3> QED BY <3>2, TwoHalves
  <2> DEFINE bad == w \in image.bad \/ WordOf(Ahead(h, 1)) \in image.bad
  <2>4. bad /\ plus2 <=> bad /\ w \notin image.bad
    BY <2>1, <2>2
  <2> HIDE DEF err, parts, plus2, bad
  <2>5. Out(in) = Parcel(h, bad, <<h, Ahead(h, 1)>>, w \notin image.bad)
    <3>1. Parcel(h, bad, <<h, Ahead(h, 1)>>, plus2) =
            Parcel(h, bad, <<h, Ahead(h, 1)>>, w \notin image.bad)
      BY <2>4 DEF Parcel
    <3>2. err = bad
      BY <2>2 DEF bad
    <3> QED BY <1>6, <2>3, <3>1, <3>2
  <2> QED BY <1>5, <1>9, <2>5, InstructionAt DEF bad
<1>10. CASE ~Compressed(image, h) /\ IsOdd(h)
  <2> DEFINE u == Following(w)
  <2>1. Ahead(h, 1) = 2 * u /\ WordOf(Ahead(h, 1)) = u /\ h % 2 = 1 /\ split
    BY <1>3, <1>5, <1>10, WordsFollow DEF IsOdd
  <2>2. Len(v) > 1
    BY <1>4, <1>10, <2>1 DEF OutValid
  <2>3. v[2].at = u /\ v[2].err = (u \in image.bad)
    <3>1. 1 \in 1 .. Len(v) - 1 /\ 2 \in 1 .. Len(v)
      BY <1>1, <2>2
    <3> QED BY <1>2, <3>1 DEF Line
  <2>4. err = (w \in image.bad \/ WordOf(Ahead(h, 1)) \in image.bad)
    BY <1>2, <2>1, <2>3
  <2>5. parts = <<h, Ahead(h, 1)>>
    <3>1. 2 * v[2].at = Ahead(h, 1)
      BY <2>1, <2>3
    <3>2. parts = <<h>> \o <<Ahead(h, 1)>>
      BY <1>5, <1>7, <1>10, <2>1, <3>1
    <3> QED BY <3>2, TwoHalves
  <2> DEFINE bad == w \in image.bad \/ WordOf(Ahead(h, 1)) \in image.bad
  <2>6. bad /\ plus2 <=> bad /\ w \notin image.bad
    BY <1>2, <2>1, <2>3
  <2> HIDE DEF err, parts, plus2, bad
  <2>7. Out(in) = Parcel(h, bad, <<h, Ahead(h, 1)>>, w \notin image.bad)
    <3>1. Parcel(h, bad, <<h, Ahead(h, 1)>>, plus2) =
            Parcel(h, bad, <<h, Ahead(h, 1)>>, w \notin image.bad)
      BY <2>6 DEF Parcel
    <3>2. err = bad
      BY <2>4 DEF bad
    <3> QED BY <1>6, <2>5, <3>1, <3>2
  <2> QED BY <1>5, <1>10, <2>7, InstructionAt DEF bad
<1> QED BY <1>8, <1>9, <1>10

\* The FIFO stays in line, and expects the word after the one that came.
LEMMA FifoInStep ==
  ASSUME image \in Images, instr_addr \in Halves, entries \in Seq(Entry),
         Line(entries, WordOf(instr_addr)),
         NEW in, in = <<>> \/ (Len(entries) < Depth /\ in = <<[at |-> Expected,
                                                    err |-> Expected \in image.bad]>>),
         in \in Seq(Entry),
         NEW ready \in BOOLEAN, NEW addr, FifoStep(in, ready, FALSE, addr)
  PROVE  /\ Line(entries', WordOf(instr_addr'))
         /\ After(entries', WordOf(instr_addr')) =
              IF in = <<>> THEN Expected ELSE Following(Expected)
         /\ instr_addr' \in Halves
         /\ ready /\ OutValid(in) =>
              /\ Out(in) = Instruction(image, instr_addr)
              /\ instr_addr' = Ahead(instr_addr, Length(image, instr_addr))
         /\ ~(ready /\ OutValid(in)) => instr_addr' = instr_addr
<1> DEFINE h == instr_addr
           w == WordOf(h)
           v == Visible(in)
           x == IF in = <<>> THEN Expected ELSE Following(Expected)
<1>1. v \in Seq(Entry) /\ Line(v, w) /\ After(v, w) = x
  <2>1. CASE in = <<>>
    <3>1. v = entries
      BY <2>1, ConcatEmptySeq DEF Visible
    <3> QED BY <2>1, <3>1 DEF Expected
  <2>2. CASE in # <<>>
    <3> DEFINE e == [at |-> Expected, err |-> Expected \in image.bad]
    <3>1. in = <<e>> /\ e.at = Expected /\ e.err = (e.at \in image.bad)
      BY <2>2
    <3>2. e \in Entry
      <4>1. in[1] = e /\ Len(in) = 1
        BY <3>1
      <4> HIDE DEF e
      <4>2. in[1] \in Entry
        <5>1. 1 \in 1 .. Len(in)
          BY <4>1
        <5> QED BY <5>1, ElementOfSeq
      <4> QED BY <4>1, <4>2
    <3> HIDE DEF e
    <3>3. /\ Line(entries \o <<e>>, w)
          /\ After(entries \o <<e>>, w) = Following(After(entries, w))
      BY <3>1, <3>2, LineGrows DEF Expected
    <3>4. v \in Seq(Entry)
      BY ConcatProperties DEF Visible
    <3> QED BY <2>2, <3>1, <3>3, <3>4 DEF Visible, Expected
  <2> QED BY <2>1, <2>2
<1>2. Pushed(in) = v
  <2>1. CASE in = <<>>
    <3>1. v = entries
      BY <2>1, ConcatEmptySeq DEF Visible
    <3> QED BY <3>1 DEF Pushed
  <2>2. CASE in # <<>>
    <3>1. Len(entries) < Depth
      BY <2>2
    <3>2. Len(entries) \in Nat /\ Depth = 3
      BY LenProperties, FetchAssumption DEF Depth
    <3>3. \A n \in Nat : n < 3 => n # 3
      OBVIOUS
    <3>4. Len(entries) # Depth
      BY <3>1, <3>2, <3>3, Zenon
    <3> QED BY <3>4 DEF Pushed
  <2> QED BY <2>1, <2>2
<1>3. CASE ~(ready /\ OutValid(in))
  <2>1. entries' = v /\ instr_addr' = h
    BY <1>2, <1>3 DEF FifoStep
  <2> QED BY <1>1, <1>3, <2>1
<1>4. CASE ready /\ OutValid(in)
  <2>1. (Shortens(in) <=> Compressed(image, h)) /\ Out(in) = Instruction(image, h)
    BY <1>1, <1>4, OutIsInstruction
  <2>2. instr_addr' = Ahead(h, IF Shortens(in) THEN 1 ELSE 2)
    BY <1>4 DEF FifoStep
  <2>3. instr_addr' = Ahead(h, Length(image, h))
    BY <2>1, <2>2 DEF Length
  <2>4. instr_addr' \in Halves
    BY <2>2, AddressTypes
  <2>5. entries' = IF Pops(in) THEN Tail(v) ELSE v
    BY <1>2, <1>4 DEF FifoStep
  <2>6. CASE Pops(in)
    <3>1. WordOf(instr_addr') = Following(w)
      BY <2>2, <2>6, WordsFollow DEF Pops
    <3>2. v # <<>> /\ entries' = Tail(v)
      BY <1>4, <2>5, <2>6 DEF OutValid
    <3> HIDE DEF v, w, x
    <3>3. Line(Tail(v), Following(w)) /\ After(Tail(v), Following(w)) = After(v, w)
      BY <1>1, <3>2, LineTail
    <3> QED BY <1>1, <1>4, <2>1, <2>3, <2>4, <3>1, <3>2, <3>3 DEF x
  <2>7. CASE ~Pops(in)
    <3>1. WordOf(instr_addr') = w
      BY <2>2, <2>7, WordsFollow DEF Pops
    <3>2. entries' = v
      BY <2>5, <2>7
    <3> QED BY <1>1, <1>4, <2>1, <2>3, <2>4, <3>1, <3>2
  <2> QED BY <2>6, <2>7
<1> QED BY <1>3, <1>4

\* The word k words further.
Further(w, k) == IF k = 0 THEN w ELSE IF k = 1 THEN Following(w) ELSE Following(Following(w))

\* The requests that count are the latest, and ask for the words from e on.
Queue(o, p, e) ==
  /\ Len(o) = 2 /\ ~o[1] => ~o[2]
  /\ Len(o) >= 1 /\ ~o[1] => p[1] = e
  /\ Len(o) = 2 /\ ~o[2] => p[2] = IF o[1] THEN e ELSE Following(e)

\* The request that waits for its grant and the one to be made next follow.
Trail(o, p, valid, discard, stored, fetch, e) ==
  /\ Queue(o, p, e)
  /\ valid /\ discard => Kept(o) = 0
  /\ LET next == Further(e, Kept(o))
     IN  IF valid /\ ~discard THEN stored = next /\ fetch = Following(next)
         ELSE fetch = next

TrailFrom(e) ==
  Trail(outstanding, pending, valid_req_q, discard_req_q,
        WordOf(stored_addr), WordOf(fetch_addr), e)

\* The discard bits after a cycle, one by one: those of before shifted by an
\* answer, and that of the request granted.
LEMMA BitsAfter ==
  ASSUME Traffic, NEW req, NEW branch, NEW gnt \in BOOLEAN, NEW answer,
         Track(req, branch, gnt, answer)
  PROVE  LET n    == Len(outstanding)
             g    == ValidReq(req, branch) /\ gnt
             a    == Answered(answer)
             mark == branch = "set" \/ Late(req, branch, gnt)
         IN  /\ n \in 0 .. 2 /\ (g => n < 2) /\ (a => n > 0)
             /\ Len(outstanding') = n + (IF g THEN 1 ELSE 0) - (IF a THEN 1 ELSE 0)
             /\ ~a => /\ n >= 1 => (outstanding'[1] <=> outstanding[1] \/ mark)
                      /\ n = 2 => (outstanding'[2] <=> outstanding[2] \/ mark)
                      /\ g => (outstanding'[n + 1] <=> Late(req, branch, gnt))
             /\ a => /\ n = 2 => (outstanding'[1] <=> outstanding[2] \/ mark)
                     /\ g => (outstanding'[n] <=> Late(req, branch, gnt))
<1> DEFINE m    == Marked(req, branch, gnt)
           n    == Len(outstanding)
           late == Late(req, branch, gnt)
           g    == ValidReq(req, branch) /\ gnt
           a    == Answered(answer)
           mark == branch = "set" \/ late
<1>1. outstanding' = IF a THEN Tail(m) ELSE m
  BY DEF Track, Marked
<1>2. /\ m \in Seq(BOOLEAN) /\ Len(m) = IF g THEN n + 1 ELSE n
      /\ \A i \in 1 .. n : m[i] <=> outstanding[i] \/ mark
      /\ g => (m[n + 1] <=> late)
  BY MarkedBits
<1>3. n \in 0 .. 2
  BY LenProperties DEF Traffic, FlowType
<1>4. g => n < 2
  BY RoomToGrant
<1>5. a => n > 0
  <2>1. a => outstanding # <<>>
    BY DEF Answered
  <2> QED BY <1>3, <2>1, EmptySeq DEF Traffic, FlowType
<1>6. Len(outstanding') = n + (IF g THEN 1 ELSE 0) - (IF a THEN 1 ELSE 0)
  BY KeptAfter
<1> HIDE DEF m, n, g, a, mark, late
<1>7. CASE ~a
  <2>1. outstanding' = m
    BY <1>1, <1>7
  <2> QED BY <1>2, <1>3, <1>4, <1>5, <1>6, <1>7, <2>1 DEF n, g, a, mark, late
<1>8. CASE a
  <2>1. m # <<>>
    BY <1>2, <1>3, <1>5, <1>8, EmptySeq
  <2>2. Len(m) >= 1 /\ Len(m) \in Nat
    BY <1>2, <1>3, <1>5, <1>8
  <2>3. \A i \in 1 .. Len(m) - 1 : Tail(m)[i] = m[i + 1]
    BY <1>2, <2>1, HeadTailProperties
  <2>4. outstanding' = Tail(m)
    BY <1>1, <1>8
  <2>5. n = 2 => outstanding'[1] = m[2]
    <3>1. n = 2 => 1 \in 1 .. Len(m) - 1
      BY <1>2
    <3> QED BY <2>3, <2>4, <3>1
  <2>6. g => outstanding'[n] = m[n + 1]
    <3>1. g => n \in 1 .. Len(m) - 1
      BY <1>2, <1>3, <1>5, <1>8
    <3> QED BY <2>3, <2>4, <3>1
  <2>7. n = 2 => (outstanding'[1] <=> outstanding[2] \/ mark)
    <3>1. n = 2 => 2 \in 1 .. n
      OBVIOUS
    <3> QED BY <1>2, <2>5, <3>1
  <2>8. g => (outstanding'[n] <=> late)
    BY <1>2, <2>6
  <2> QED BY <1>3, <1>4, <1>5, <1>6, <1>8, <2>7, <2>8 DEF n, g, a, mark, late
<1> QED BY <1>7, <1>8

\* The words on the bus after a cycle, in the same way.
LEMMA WordsAfter ==
  ASSUME Traffic, NEW at \in 0 .. Size - 1, NEW asks, NEW gnt \in BOOLEAN,
         NEW answer \in Answers, Bus(asks, at, gnt, answer)
  PROVE  LET n == Len(pending)
             a == answer # <<>>
         IN  /\ gnt => asks
             /\ ~a => /\ \A i \in 1 .. n : pending'[i] = pending[i]
                      /\ gnt => pending'[n + 1] = at
             /\ a => /\ n >= 1
                     /\ \A i \in 1 .. n - 1 : pending'[i] = pending[i + 1]
                     /\ gnt => pending'[n] = at
                     /\ answer = <<[at |-> pending[1], err |-> pending[1] \in image.bad]>>
<1> DEFINE n    == Len(pending)
           a    == answer # <<>>
           rest == IF answer = <<>> THEN pending ELSE Tail(pending)
           new  == IF gnt THEN <<at>> ELSE <<>>
<1>1. pending \in Seq(0 .. Size - 1) /\ n \in Nat
  BY LenProperties DEF Traffic, FlowType
<1>2. a => pending # <<>> /\ n >= 1
  BY AnswerType
<1>3. a => answer = <<[at |-> pending[1], err |-> pending[1] \in image.bad]>>
  BY <1>1, <1>2 DEF Answers
<1>4. /\ rest \in Seq(0 .. Size - 1) /\ Len(rest) = n - (IF a THEN 1 ELSE 0)
      /\ ~a => \A i \in 1 .. n : rest[i] = pending[i]
      /\ a => \A i \in 1 .. n - 1 : rest[i] = pending[i + 1]
  <2>1. CASE ~a
    BY <1>1, <2>1
  <2>2. CASE a
    BY <1>1, <1>2, <2>2, HeadTailProperties
  <2> QED BY <2>1, <2>2
<1>5. new \in Seq(0 .. Size - 1) /\ Len(new) = (IF gnt THEN 1 ELSE 0) /\ (gnt => new[1] = at)
  <2>1. CASE gnt
    BY <2>1
  <2>2. CASE ~gnt
    BY <2>2, EmptySeq
  <2> QED BY <2>1, <2>2
<1>6. pending' = rest \o new /\ (gnt => asks)
  BY DEF Bus
<1> HIDE DEF rest, new, a, n
<1>7. /\ \A i \in 1 .. Len(rest) : (rest \o new)[i] = rest[i]
      /\ gnt => (rest \o new)[Len(rest) + 1] = new[1]
  BY <1>1, <1>4, <1>5, ConcatProperties
<1>8. gnt => pending'[Len(rest) + 1] = at
  BY <1>5, <1>6, <1>7
<1>9. \A i \in 1 .. Len(rest) : pending'[i] = rest[i]
  BY <1>6, <1>7
<1>10. CASE ~a
  <2>1. Len(rest) = n
    BY <1>1, <1>4, <1>10
  <2> QED BY <1>4, <1>6, <1>8, <1>9, <1>10, <2>1 DEF a, n
<1>11. CASE a
  <2>1. Len(rest) = n - 1 /\ n - 1 + 1 = n
    BY <1>1, <1>4, <1>11
  <2> QED BY <1>2, <1>3, <1>4, <1>6, <1>8, <1>9, <1>11, <2>1 DEF a, n
<1> QED BY <1>10, <1>11

\* Whether the answer is one that counts, and the word expected after it.
Takes(answer)   == answer # <<>> /\ ~outstanding[1]
Then(answer, e) == IF Takes(answer) THEN Following(e) ELSE e

\* A cycle that marks no request.
LEMMA QueueKeeps ==
  ASSUME Traffic, NEW e, Queue(outstanding, pending, e),
         NEW req, NEW branch, branch # "set", NEW gnt \in BOOLEAN, NEW answer \in Answers,
         NEW at \in 0 .. Size - 1, ~Late(req, branch, gnt),
         gnt => at = Further(e, Kept(outstanding)),
         Track(req, branch, gnt, answer), Bus(ValidReq(req, branch), at, gnt, answer)
  PROVE  /\ Queue(outstanding', pending', Then(answer, e))
         /\ Kept(outstanding') = Kept(outstanding) + (IF gnt THEN 1 ELSE 0)
                                   - (IF Takes(answer) THEN 1 ELSE 0)
         /\ Takes(answer) => answer = <<[at |-> e, err |-> e \in image.bad]>>
         /\ Takes(answer) => Kept(outstanding) >= 1
         /\ gnt => Len(outstanding) < 2
<1> DEFINE n == Len(outstanding)
           a == answer # <<>>
<1>1. Answered(answer) <=> a
  BY AnswerType DEF Answered
<1>2. gnt => ValidReq(req, branch)
  BY DEF Bus
<1>3. n = Len(pending)
  BY DEF Traffic
<1>4. /\ n \in 0 .. 2 /\ (gnt => n < 2) /\ (a => n > 0)
      /\ Len(outstanding') = n + (IF gnt THEN 1 ELSE 0) - (IF a THEN 1 ELSE 0)
      /\ ~a => /\ n >= 1 => (outstanding'[1] <=> outstanding[1])
               /\ n = 2 => (outstanding'[2] <=> outstanding[2])
               /\ gnt => ~outstanding'[n + 1]
      /\ a => /\ n = 2 => (outstanding'[1] <=> outstanding[2])
              /\ gnt => ~outstanding'[n]
  <2> DEFINE g    == ValidReq(req, branch) /\ gnt
             b    == Answered(answer)
             mark == branch = "set" \/ Late(req, branch, gnt)
  <2>1. /\ n \in 0 .. 2 /\ (g => n < 2) /\ (b => n > 0)
        /\ Len(outstanding') = n + (IF g THEN 1 ELSE 0) - (IF b THEN 1 ELSE 0)
        /\ ~b => /\ n >= 1 => (outstanding'[1] <=> outstanding[1] \/ mark)
                 /\ n = 2 => (outstanding'[2] <=> outstanding[2] \/ mark)
                 /\ g => (outstanding'[n + 1] <=> Late(req, branch, gnt))
        /\ b => /\ n = 2 => (outstanding'[1] <=> outstanding[2] \/ mark)
                /\ g => (outstanding'[n] <=> Late(req, branch, gnt))
    BY BitsAfter
  <2>2. (g <=> gnt) /\ (b <=> a) /\ ~mark
    BY <1>1, <1>2
  <2> HIDE DEF g, b, mark, a, n
  <2> QED BY <2>1, <2>2
<1>5. /\ ~a => /\ \A i \in 1 .. n : pending'[i] = pending[i]
               /\ gnt => pending'[n + 1] = at
      /\ a => /\ \A i \in 1 .. n - 1 : pending'[i] = pending[i + 1]
              /\ gnt => pending'[n] = at
              /\ answer = <<[at |-> pending[1], err |-> pending[1] \in image.bad]>>
  BY <1>3, WordsAfter
<1>6. Takes(answer) <=> a /\ ~outstanding[1]
  BY DEF Takes
<1>7. Takes(answer) => pending[1] = e
  BY <1>4, <1>6 DEF Queue
<1>8. Takes(answer) => answer = <<[at |-> e, err |-> e \in image.bad]>>
  BY <1>5, <1>6, <1>7
<1> DEFINE e2 == Then(answer, e)
<1>9. e2 = IF a /\ ~outstanding[1] THEN Following(e) ELSE e
  BY <1>6 DEF Then
<1> HIDE DEF a, e2
<1>10. CASE n = 0
  <2>1. Kept(outstanding) = 0
    BY <1>10 DEF Kept, Keeps
  <2>2. ~a /\ (gnt => at = e) /\ e2 = e
    BY <1>4, <1>9, <1>10, <2>1 DEF Further
  <2>3. Queue(outstanding', pending', e2)
    BY <1>4, <1>5, <1>10, <2>2 DEF Queue
  <2>4. Kept(outstanding') = IF gnt THEN 1 ELSE 0
    BY <1>4, <1>10, <2>2 DEF Kept, Keeps
  <2> QED BY <1>4, <1>6, <1>8, <2>1, <2>2, <2>3, <2>4 DEF e2
<1>11. CASE n = 1
  <2>1. Kept(outstanding) = IF outstanding[1] THEN 0 ELSE 1
    BY <1>11 DEF Kept, Keeps
  <2>2. gnt => at = IF outstanding[1] THEN e ELSE Following(e)
    BY <2>1 DEF Further
  <2>3. ~outstanding[1] => pending[1] = e
    BY <1>11 DEF Queue
  <2>4. CASE a
    <3>1. Len(outstanding') = IF gnt THEN 1 ELSE 0
      BY <1>4, <1>11, <2>4
    <3>2. Queue(outstanding', pending', e2)
      BY <1>4, <1>5, <1>9, <1>11, <2>2, <2>4, <3>1 DEF Queue
    <3>3. Kept(outstanding') = IF gnt THEN 1 ELSE 0
      BY <1>4, <1>11, <2>4, <3>1 DEF Kept, Keeps
    <3> QED BY <1>4, <1>6, <1>8, <1>11, <2>1, <2>4, <3>2, <3>3 DEF e2
  <2>5. CASE ~a
    <3>1. Len(outstanding') = IF gnt THEN 2 ELSE 1
      BY <1>4, <1>11, <2>5
    <3>2. Queue(outstanding', pending', e2)
      BY <1>4, <1>5, <1>9, <1>11, <2>2, <2>3, <2>5, <3>1 DEF Queue
    <3>3. Kept(outstanding') = (IF outstanding[1] THEN 0 ELSE 1) + (IF gnt THEN 1 ELSE 0)
      BY <1>4, <1>11, <2>5, <3>1 DEF Kept, Keeps
    <3> QED BY <1>4, <1>6, <1>8, <1>11, <2>1, <2>5, <3>2, <3>3 DEF e2
  <2> QED BY <2>4, <2>5
<1>12. CASE n = 2
  <2>1. ~gnt /\ (~outstanding[1] => ~outstanding[2])
    BY <1>4, <1>12 DEF Queue
  <2>2. Kept(outstanding) = (IF outstanding[1] THEN 0 ELSE 1) + (IF outstanding[2] THEN 0 ELSE 1)
    BY <1>12 DEF Kept, Keeps
  <2>3. /\ ~outstanding[1] => pending[1] = e
        /\ ~outstanding[2] => pending[2] = IF outstanding[1] THEN e ELSE Following(e)
    BY <1>12 DEF Queue
  <2>4. CASE a
    <3>1. Len(outstanding') = 1 /\ pending'[1] = pending[2]
      BY <1>4, <1>5, <1>12, <2>1, <2>4
    <3>2. Queue(outstanding', pending', e2)
      BY <1>4, <1>9, <1>12, <2>3, <2>4, <3>1 DEF Queue
    <3>3. Kept(outstanding') = IF outstanding[2] THEN 0 ELSE 1
      BY <1>4, <1>12, <2>4, <3>1 DEF Kept, Keeps
    <3> QED BY <1>4, <1>6, <1>8, <1>12, <2>1, <2>2, <2>4, <3>2, <3>3 DEF e2
  <2>5. CASE ~a
    <3>1. Len(outstanding') = 2 /\ pending'[1] = pending[1] /\ pending'[2] = pending[2]
      BY <1>4, <1>5, <1>12, <2>1, <2>5
    <3>2. Queue(outstanding', pending', e2)
      BY <1>4, <1>9, <1>12, <2>1, <2>3, <2>5, <3>1 DEF Queue
    <3>3. Kept(outstanding') = Kept(outstanding)
      BY <1>4, <1>12, <2>2, <2>5, <3>1 DEF Kept, Keeps
    <3> QED BY <1>4, <1>6, <1>8, <1>12, <2>1, <2>2, <2>5, <3>2, <3>3 DEF e2
  <2> QED BY <2>4, <2>5
<1>13. n = 0 \/ n = 1 \/ n = 2
  BY <1>4
<1> QED BY <1>10, <1>11, <1>12, <1>13

\* A cycle that marks all: of the requests, the one granted in it may count.
LEMMA QueueCleared ==
  ASSUME Traffic, NEW e, NEW req, NEW branch, NEW gnt \in BOOLEAN, NEW answer \in Answers,
         NEW at \in 0 .. Size - 1, branch = "set" \/ Late(req, branch, gnt),
         gnt /\ ~Late(req, branch, gnt) => at = e,
         Track(req, branch, gnt, answer), Bus(ValidReq(req, branch), at, gnt, answer)
  PROVE  /\ Queue(outstanding', pending', e)
         /\ Kept(outstanding') = IF gnt /\ ~Late(req, branch, gnt) THEN 1 ELSE 0
<1> DEFINE n    == Len(outstanding)
           a    == answer # <<>>
           late == Late(req, branch, gnt)
<1>1. Answered(answer) <=> a
  BY AnswerType DEF Answered
<1>2. gnt => ValidReq(req, branch)
  BY DEF Bus
<1>3. n = Len(pending)
  BY DEF Traffic
<1>4. /\ n \in 0 .. 2 /\ (gnt => n < 2) /\ (a => n > 0)
      /\ Len(outstanding') = n + (IF gnt THEN 1 ELSE 0) - (IF a THEN 1 ELSE 0)
      /\ ~a => /\ n >= 1 => outstanding'[1]
               /\ n = 2 => outstanding'[2]
               /\ gnt => (outstanding'[n + 1] <=> late)
      /\ a => /\ n = 2 => outstanding'[1]
              /\ gnt => (outstanding'[n] <=> late)
  <2> DEFINE g    == ValidReq(req, branch) /\ gnt
             b    == Answered(answer)
             mark == branch = "set" \/ Late(req, branch, gnt)
  <2>1. /\ n \in 0 .. 2 /\ (g => n < 2) /\ (b => n > 0)
        /\ Len(outstanding') = n + (IF g THEN 1 ELSE 0) - (IF b THEN 1 ELSE 0)
        /\ ~b => /\ n >= 1 => (outstanding'[1] <=> outstanding[1] \/ mark)
                 /\ n = 2 => (outstanding'[2] <=> outstanding[2] \/ mark)
                 /\ g => (outstanding'[n + 1] <=> Late(req, branch, gnt))
        /\ b => /\ n = 2 => (outstanding'[1] <=> outstanding[2] \/ mark)
                /\ g => (outstanding'[n] <=> Late(req, branch, gnt))
    BY BitsAfter
  <2>2. (g <=> gnt) /\ (b <=> a) /\ mark
    BY <1>1, <1>2
  <2> HIDE DEF g, b, mark, a, n
  <2> QED BY <2>1, <2>2 DEF late
<1>5. /\ ~a /\ gnt => pending'[n + 1] = at
      /\ a /\ gnt => pending'[n] = at
  BY <1>3, WordsAfter
<1> HIDE DEF n, a, late
<1>6. gnt /\ ~late => at = e
  BY DEF late
<1>7. CASE n = 0
  <2>1. ~a /\ Len(outstanding') = IF gnt THEN 1 ELSE 0
    BY <1>4, <1>7
  <2> QED BY <1>4, <1>5, <1>6, <1>7, <2>1 DEF Queue, Kept, Keeps, late
<1>8. CASE n = 1
  <2>1. CASE a
    <3>1. Len(outstanding') = IF gnt THEN 1 ELSE 0
      BY <1>4, <1>8, <2>1
    <3> QED BY <1>4, <1>5, <1>6, <1>8, <2>1, <3>1 DEF Queue, Kept, Keeps, late
  <2>2. CASE ~a
    <3>1. Len(outstanding') = IF gnt THEN 2 ELSE 1
      BY <1>4, <1>8, <2>2
    <3> QED BY <1>4, <1>5, <1>6, <1>8, <2>2, <3>1 DEF Queue, Kept, Keeps, late
  <2> QED BY <2>1, <2>2
<1>9. CASE n = 2
  <2>1. ~gnt /\ Len(outstanding') = IF a THEN 1 ELSE 2
    BY <1>4, <1>9
  <2> QED BY <1>4, <1>9, <2>1 DEF Queue, Kept, Keeps
<1> QED BY <1>4, <1>7, <1>8, <1>9

\* A branch: the queue starts anew at its target.
LEMMA TrailTurns ==
  ASSUME Traffic, NEW req, NEW addr \in Halves, NEW gnt \in BOOLEAN, NEW answer \in Answers,
         Requests(req, "set", addr, gnt), Track(req, "set", gnt, answer),
         Bus(ValidReq(req, "set"), WordOf(InstrAddr("set", addr)), gnt, answer)
  PROVE  Trail(outstanding', pending', valid_req_q', discard_req_q',
               WordOf(stored_addr'), WordOf(fetch_addr'), WordOf(addr))
<1> DEFINE at   == WordOf(InstrAddr("set", addr))
           e    == WordOf(addr)
           asks == ValidReq(req, "set")
           late == Late(req, "set", gnt)
<1>1. at \in 0 .. Size - 1
  BY RequestStored, AddressTypes
<1>2. gnt => asks
  BY DEF Bus
<1>3. late <=> gnt /\ valid_req_q
  BY DEF Late, ValidReq, Discarded
<1>4. ~valid_req_q => at = e
  BY DEF InstrAddr
<1>5. /\ Queue(outstanding', pending', e)
      /\ Kept(outstanding') = IF gnt /\ ~late THEN 1 ELSE 0
  <2> HIDE DEF at, e
  <2>1. gnt /\ ~Late(req, "set", gnt) => at = e
    BY <1>3, <1>4
  <2>2. Bus(ValidReq(req, "set"), at, gnt, answer)
    BY DEF at
  <2> QED BY <1>1, <2>1, <2>2, QueueCleared
<1>6. /\ valid_req_q' = (asks /\ ~gnt) /\ discard_req_q' = valid_req_q
      /\ valid_req_q' => stored_addr' = InstrAddr("set", addr)
  BY RequestStored DEF Discarded, Traffic, FlowType
<1>7. fetch_addr' = IF asks /\ ~valid_req_q THEN Ahead(addr, 2) ELSE addr
  BY DEF Requests, ValidReq
<1>8. WordOf(Ahead(addr, 2)) = Following(e)
  BY WordsFollow
<1>9. valid_req_q \in BOOLEAN
  BY DEF Traffic, FlowType
<1> HIDE DEF at, e, asks, late
<1>10. WordOf(fetch_addr') = IF asks /\ ~valid_req_q THEN Following(e) ELSE e
  BY <1>7, <1>8 DEF e
<1>11. valid_req_q' => WordOf(stored_addr') = at
  BY <1>6 DEF at
<1>12. CASE valid_req_q
  <2>1. Kept(outstanding') = 0 /\ Further(e, 0) = e /\ discard_req_q'
    BY <1>3, <1>5, <1>6, <1>12 DEF Further
  <2>2. WordOf(fetch_addr') = e
    BY <1>10, <1>12
  <2> QED BY <1>5, <2>1, <2>2 DEF Trail, e
<1>13. CASE ~valid_req_q /\ gnt
  <2>1. Kept(outstanding') = 1 /\ Further(e, 1) = Following(e)
    BY <1>3, <1>5, <1>13 DEF Further
  <2>2. WordOf(fetch_addr') = Following(e) /\ ~valid_req_q'
    BY <1>2, <1>6, <1>10, <1>13
  <2> QED BY <1>5, <2>1, <2>2 DEF Trail, e
<1>14. CASE ~valid_req_q /\ ~gnt
  <2>1. Kept(outstanding') = 0 /\ Further(e, 0) = e /\ ~discard_req_q'
    BY <1>5, <1>6, <1>14 DEF Further
  <2>2. CASE asks
    <3>1. WordOf(stored_addr') = e /\ WordOf(fetch_addr') = Following(e) /\ valid_req_q'
      BY <1>4, <1>6, <1>10, <1>11, <1>14, <2>2
    <3> QED BY <1>5, <2>1, <3>1 DEF Trail, e
  <2>3. CASE ~asks
    <3>1. WordOf(fetch_addr') = e /\ ~valid_req_q'
      BY <1>6, <1>10, <2>3
    <3> QED BY <1>5, <2>1, <3>1 DEF Trail, e
  <2> QED BY <2>2, <2>3
<1> QED BY <1>9, <1>12, <1>13, <1>14

\* The words further from the one after e.
LEMMA FurtherOn ==
  ASSUME NEW e, NEW k \in 0 .. 2
  PROVE  /\ k < 2 => Further(e, k + 1) = Following(Further(e, k))
         /\ k >= 1 => Further(Following(e), k - 1) = Further(e, k)
  BY DEF Further

\* Without a branch the queue goes on.
LEMMA TrailGoesOn ==
  ASSUME Traffic, NEW e, TrailFrom(e), NEW req, NEW branch \in {"none", "spec"},
         NEW addr \in Halves, NEW gnt \in BOOLEAN, NEW answer \in Answers,
         Requests(req, branch, addr, gnt), Track(req, branch, gnt, answer),
         Bus(ValidReq(req, branch), WordOf(InstrAddr(branch, addr)), gnt, answer)
  PROVE  /\ Trail(outstanding', pending', valid_req_q', discard_req_q',
                  WordOf(stored_addr'), WordOf(fetch_addr'), Then(answer, e))
         /\ Takes(answer) => answer = <<[at |-> e, err |-> e \in image.bad]>>
<1> DEFINE at   == WordOf(InstrAddr(branch, addr))
           k    == Kept(outstanding)
           asks == ValidReq(req, branch)
           late == Late(req, branch, gnt)
           e2   == Then(answer, e)
<1>1. at \in 0 .. Size - 1
  BY RequestStored, AddressTypes
<1>2. gnt => asks
  BY DEF Bus
<1>3. late <=> gnt /\ valid_req_q /\ discard_req_q
  BY DEF Late, ValidReq, Discarded
<1>4. /\ Queue(outstanding, pending, e)
      /\ valid_req_q /\ discard_req_q => k = 0
      /\ IF valid_req_q /\ ~discard_req_q
         THEN WordOf(stored_addr) = Further(e, k)
              /\ WordOf(fetch_addr) = Following(Further(e, k))
         ELSE WordOf(fetch_addr) = Further(e, k)
  BY DEF TrailFrom, Trail
<1>5. /\ valid_req_q' = (asks /\ ~gnt) /\ discard_req_q' = (valid_req_q /\ discard_req_q)
      /\ valid_req_q' => stored_addr' = InstrAddr(branch, addr)
  BY RequestStored DEF Discarded
<1>6. /\ valid_req_q => at = WordOf(stored_addr) /\ fetch_addr' = fetch_addr /\ asks
      /\ ~valid_req_q /\ asks => at = WordOf(fetch_addr) /\ fetch_addr' = NextWord(fetch_addr)
      /\ ~asks => fetch_addr' = fetch_addr
  BY DEF InstrAddr, Requests, ValidReq, ValidNewReq
<1>7. WordOf(NextWord(fetch_addr)) = Following(WordOf(fetch_addr))
  BY WordsFollow DEF Traffic, FlowType
<1>8. valid_req_q \in BOOLEAN /\ discard_req_q \in BOOLEAN
  BY DEF Traffic, FlowType
<1>9. k \in 0 .. 2
  BY DEF Kept, Keeps
<1>10. Bus(ValidReq(req, branch), at, gnt, answer)
  OBVIOUS
<1>11. valid_req_q' => WordOf(stored_addr') = at
  BY <1>5
<1>12. asks /\ ~(valid_req_q /\ discard_req_q) =>
         at = Further(e, k) /\ WordOf(fetch_addr') = Following(Further(e, k))
  BY <1>4, <1>6, <1>7
<1> HIDE DEF at, k, asks, late, e2
<1>13. CASE valid_req_q /\ discard_req_q
  <2>1. k = 0 /\ ~Takes(answer) /\ e2 = e /\ Further(e, 0) = e
    <3>1. k = 0
      BY <1>4, <1>13
    <3>2. Takes(answer) => Len(outstanding) >= 1
      BY AnswerType, LenProperties, EmptySeq DEF Takes, Traffic, FlowType
    <3>3. ~outstanding[1] => ~(Len(outstanding) >= 1)
      BY <3>1 DEF k, Kept, Keeps
    <3> QED BY <3>1, <3>2, <3>3 DEF Takes, e2, Then, Further
  <2>2. WordOf(fetch_addr') = e
    BY <1>4, <1>6, <1>13, <2>1
  <2>3. discard_req_q'
    BY <1>5, <1>13
  <2>4. Queue(outstanding', pending', e) /\ Kept(outstanding') = 0
    <3>1. CASE gnt
      <4>1. Late(req, branch, gnt)
        BY <1>3, <1>13, <3>1 DEF late
      <4> QED BY <1>1, <1>10, <4>1, QueueCleared
    <3>2. CASE ~gnt
      <4>1. ~Late(req, branch, gnt)
        BY <3>2 DEF Late
      <4>2. /\ Queue(outstanding', pending', Then(answer, e))
            /\ Kept(outstanding') = Kept(outstanding) + (IF gnt THEN 1 ELSE 0)
                                      - (IF Takes(answer) THEN 1 ELSE 0)
        BY <1>1, <1>4, <1>10, <3>2, <4>1, QueueKeeps
      <4> QED BY <2>1, <3>2, <4>2 DEF e2, k
    <3> QED BY <3>1, <3>2
  <2> QED BY <2>1, <2>2, <2>3, <2>4 DEF Trail, e2
<1>14. CASE ~(valid_req_q /\ discard_req_q)
  <2>1. ~Late(req, branch, gnt)
    BY <1>3, <1>14 DEF late
  <2>2. gnt => at = Further(e, Kept(outstanding))
    BY <1>2, <1>12, <1>14 DEF k
  <2>3. /\ Queue(outstanding', pending', e2)
        /\ Kept(outstanding') = k + (IF gnt THEN 1 ELSE 0) - (IF Takes(answer) THEN 1 ELSE 0)
        /\ Takes(answer) => answer = <<[at |-> e, err |-> e \in image.bad]>>
        /\ Takes(answer) => k >= 1
        /\ gnt => Len(outstanding) < 2
    BY <1>1, <1>4, <1>10, <2>1, <2>2, QueueKeeps DEF k, e2
  <2>4. ~discard_req_q'
    BY <1>5, <1>14
  <2>5. gnt => k < 2
    <3>1. k <= Len(outstanding)
      BY KeptBound DEF Traffic, FlowType, k
    <3>2. Len(outstanding) \in Nat
      BY LenProperties DEF Traffic, FlowType
    <3> QED BY <1>9, <2>3, <3>1, <3>2
  <2> DEFINE x == Further(e, k)
  <2>6. Further(e2, Kept(outstanding')) = IF gnt THEN Following(x) ELSE x
    <3>1. gnt => Further(e, k + 1) = Following(x)
      BY <1>9, <2>5, FurtherOn
    <3>2. Takes(answer) => /\ Further(Following(e), k - 1) = x
                           /\ gnt => Further(Following(e), k) = Further(e, k + 1)
      <4>1. k >= 1 => Further(Following(e), k - 1) = x
        BY <1>9, FurtherOn
      <4>2. k < 2 => Further(Following(e), k) = Further(e, k + 1)
        BY <1>9 DEF Further
      <4> QED BY <2>3, <2>5, <4>1, <4>2
    <3>3. e2 = IF Takes(answer) THEN Following(e) ELSE e
      BY DEF e2, Then
    <3> HIDE DEF x
    <3>4. CASE Takes(answer)
      <4>1. Kept(outstanding') = IF gnt THEN k ELSE k - 1
        BY <1>9, <2>3, <3>4
      <4> QED BY <3>1, <3>2, <3>3, <3>4, <4>1
    <3>5. CASE ~Takes(answer)
      <4>1. Kept(outstanding') = IF gnt THEN k + 1 ELSE k
        BY <1>9, <2>3, <3>5
      <4> QED BY <3>1, <3>3, <3>5, <4>1 DEF x
    <3> QED BY <3>4, <3>5
  <2> HIDE DEF x
  <2>7. CASE asks /\ gnt
    <3>1. ~valid_req_q' /\ WordOf(fetch_addr') = Following(x)
      BY <1>5, <1>12, <1>14, <2>7 DEF x
    <3> QED BY <2>3, <2>6, <2>7, <3>1 DEF Trail, e2
  <2>8. CASE asks /\ ~gnt
    <3>1. valid_req_q' /\ WordOf(stored_addr') = x /\ WordOf(fetch_addr') = Following(x)
      BY <1>5, <1>11, <1>12, <1>14, <2>8 DEF x
    <3> QED BY <2>3, <2>4, <2>6, <2>8, <3>1 DEF Trail, e2
  <2>9. CASE ~asks
    <3>1. ~valid_req_q' /\ ~gnt /\ WordOf(fetch_addr') = x
      BY <1>2, <1>4, <1>5, <1>6, <1>8, <2>9 DEF x
    <3> QED BY <2>3, <2>6, <3>1 DEF Trail, e2
  <2> QED BY <2>7, <2>8, <2>9
<1> QED BY <1>8, <1>13, <1>14

\* The entries are the words from the instruction at the head on, and the
\* requests go on where they end.
InStep == Line(entries, WordOf(instr_addr)) /\ TrailFrom(Expected)

\* The fetch address is not reset: out of reset it leads nowhere, and nothing is
\* fetched with it.
Course ==
  IF ctrl_fsm = "RESET" THEN entries = <<>> /\ outstanding = <<>> /\ ~valid_req_q ELSE InStep

\* What the other registers hold, with an instruction of the memory in IF/ID.
StageType ==
  /\ image \in Images /\ instr_addr \in Halves /\ ctrl_fsm \in CtrlStates
  /\ id \in {Instruction(image, h) : h \in Halves} \cup {None}
  /\ waiting \in (0 .. Size - 1) \cup {None} /\ turn \in {0, 1}

\* The inductive invariant of the stream.
StreamInv == FlowInv /\ Course /\ StageType

\* What a cycle hands to the ID stage.
Handed(ready, clear, branch, addr) ==
  \/ /\ branch # "set" /\ ready /\ id' = Instruction(image, instr_addr)
     /\ instr_addr' = Ahead(instr_addr, Length(image, instr_addr)) /\ turn' = 1 - turn
  \/ /\ branch = "set" /\ instr_addr' = addr /\ turn' = 1 - turn
     /\ id' = IF clear THEN None ELSE id
  \/ /\ branch # "set" /\ instr_addr' = instr_addr /\ turn' = turn
     /\ id' = IF clear THEN None ELSE id

\* A cycle of the core keeps the fetch path in step, and hands over the
\* instruction at the head of the FIFO or none.
LEMMA CycleInStep ==
  ASSUME Traffic, image \in Images, instr_addr \in Halves, NEW branch \in {"none", "spec", "set"},
         branch = "set" \/ InStep,
         NEW req, NEW ready \in BOOLEAN, NEW clear \in BOOLEAN, NEW addr \in Halves,
         NEW gnt \in BOOLEAN, NEW answer \in Answers,
         CycleWith(req, ready, clear, branch, addr, gnt, answer)
  PROVE  /\ InStep' /\ image' = image /\ instr_addr' \in Halves
         /\ Handed(ready, clear, branch, addr)
<1> DEFINE in == FifoIn(answer)
<1>1. /\ Requests(req, branch, addr, gnt) /\ Track(req, branch, gnt, answer)
      /\ FifoStep(in, ready, branch = "set", addr)
      /\ ToId(in, ready, clear, branch)
      /\ Bus(ValidReq(req, branch), WordOf(InstrAddr(branch, addr)), gnt, answer)
      /\ image' = image
  BY DEF CycleWith, PrefetchStep
<1>2. ASSUME NEW e,
             Line(entries', WordOf(instr_addr')), After(entries', WordOf(instr_addr')) = e,
             Trail(outstanding', pending', valid_req_q', discard_req_q',
                   WordOf(stored_addr'), WordOf(fetch_addr'), e)
      PROVE  InStep'
  BY <1>1, <1>2 DEF InStep, Line, TrailFrom, Expected, After
<1>3. CASE branch = "set"
  <2>1. entries' = <<>> /\ instr_addr' = addr
    BY <1>1, <1>3 DEF FifoStep
  <2>2. Line(entries', WordOf(instr_addr')) /\ After(entries', WordOf(instr_addr')) = WordOf(addr)
    BY <2>1, EmptySeq DEF Line, After
  <2>3. Trail(outstanding', pending', valid_req_q', discard_req_q',
              WordOf(stored_addr'), WordOf(fetch_addr'), WordOf(addr))
    BY <1>1, <1>3, TrailTurns
  <2>4. InStep'
    BY <1>2, <2>2, <2>3
  <2>5. Handed(ready, clear, branch, addr)
    BY <1>1, <1>3, <2>1 DEF ToId, Handed
  <2> QED BY <1>1, <2>1, <2>4, <2>5
<1>4. CASE branch # "set"
  <2>1. InStep /\ branch \in {"none", "spec"}
    BY <1>4
  <2> DEFINE e == Expected
  <2>2. Line(entries, WordOf(instr_addr)) /\ TrailFrom(e)
    BY <2>1 DEF InStep
  <2>3. /\ Trail(outstanding', pending', valid_req_q', discard_req_q',
                 WordOf(stored_addr'), WordOf(fetch_addr'), Then(answer, e))
        /\ Takes(answer) => answer = <<[at |-> e, err |-> e \in image.bad]>>
    BY <1>1, <2>1, <2>2, TrailGoesOn
  <2>4. /\ Takes(answer) => in = answer /\ Len(entries) < Depth /\ in # <<>>
        /\ ~Takes(answer) => in = <<>>
    <3>1. answer # <<>> => outstanding # <<>> /\ Len(outstanding) >= 1
      BY AnswerType, LenProperties, EmptySeq DEF Traffic, FlowType
    <3>2. Head(outstanding) = outstanding[1]
      BY DEF Traffic, FlowType
    <3>3. Takes(answer) => Kept(outstanding) >= 1
      BY <3>1 DEF Takes, Kept, Keeps
    <3>4. Len(entries) \in Nat /\ Depth = 3 /\ Kept(outstanding) \in Nat /\ Reserved \in {0, 1}
      BY LenProperties, KeptBound, FetchAssumption DEF Traffic, FlowType, Depth, Reserved
    <3>5. Len(entries) + Kept(outstanding) + Reserved <= 3
      BY DEF Traffic
    <3>6. Takes(answer) => Len(entries) < Depth
      BY <3>3, <3>4, <3>5
    <3> QED BY <3>1, <3>2, <3>6 DEF FifoIn, Takes, Answered
  <2>5. in \in Seq(Entry)
    <3>1. CASE Takes(answer)
      BY <2>4, <3>1, AnswerType DEF Takes
    <3>2. CASE ~Takes(answer)
      BY <2>4, <3>2, EmptySeq
    <3> QED BY <3>1, <3>2
  <2>6. in = <<>> \/ (Len(entries) < Depth /\ in = <<[at |-> Expected,
                                                      err |-> Expected \in image.bad]>>)
    BY <2>3, <2>4
  <2>7. Then(answer, e) = IF in = <<>> THEN Expected ELSE Following(Expected)
    BY <2>4 DEF Then
  <2>8. entries \in Seq(Entry)
    BY DEF Traffic, FlowType
  <2>9. FifoStep(in, ready, FALSE, addr)
    BY <1>1, <1>4
  <2> HIDE DEF in, e
  <2>10. /\ Line(entries', WordOf(instr_addr'))
         /\ After(entries', WordOf(instr_addr')) =
              IF in = <<>> THEN Expected ELSE Following(Expected)
         /\ instr_addr' \in Halves
         /\ ready /\ OutValid(in) =>
              /\ Out(in) = Instruction(image, instr_addr)
              /\ instr_addr' = Ahead(instr_addr, Length(image, instr_addr))
         /\ ~(ready /\ OutValid(in)) => instr_addr' = instr_addr
    BY <2>2, <2>5, <2>6, <2>8, <2>9, FifoInStep
  <2>11. InStep'
    BY <1>2, <2>3, <2>7, <2>10
  <2>12. CASE ready /\ OutValid(in)
    <3>1. id' = Out(in) /\ turn' = 1 - turn
      BY <1>1, <1>4, <2>12 DEF ToId
    <3> QED BY <1>1, <1>4, <2>10, <2>11, <2>12, <3>1 DEF Handed
  <2>13. CASE ~(ready /\ OutValid(in))
    <3>1. id' = (IF clear THEN None ELSE id) /\ turn' = turn
      BY <1>1, <1>4, <2>13 DEF ToId
    <3> QED BY <1>1, <1>4, <2>10, <2>11, <2>13, <3>1 DEF Handed
  <2> QED BY <2>12, <2>13
<1> QED BY <1>3, <1>4

\* After power-up nothing has been fetched.
LEMMA InitialCourse == Init => StreamInv
<1> SUFFICES ASSUME Init PROVE StreamInv
  OBVIOUS
<1>1. FlowInv
  BY Initially
<1>2. Course
  BY DEF Init, Course
<1>3. StageType
  BY FetchAssumption DEF Init, StageType, CtrlStates
<1> QED BY <1>1, <1>2, <1>3 DEF StreamInv

\* A cycle of the core, with what the controller makes of it.
LEMMA CycleOfStage ==
  ASSUME StreamInv, NEW branch \in {"none", "spec", "set"},
         ctrl_fsm = "RESET" => branch = "set", ctrl_fsm' \in CtrlStates \ {"RESET"},
         NEW req, NEW ready \in BOOLEAN, NEW clear \in BOOLEAN, NEW addr \in Halves,
         Cycle(req, ready, clear, branch, addr)
  PROVE  Course' /\ StageType' /\ image' = image /\ Handed(ready, clear, branch, addr)
<1>1. PICK gnt \in BOOLEAN, answer \in Answers :
        CycleWith(req, ready, clear, branch, addr, gnt, answer)
  BY DEF Cycle
<1>2. Traffic /\ image \in Images /\ instr_addr \in Halves /\ (branch = "set" \/ InStep)
  BY DEF StreamInv, FlowInv, StageType, Course
<1>3. /\ InStep' /\ image' = image /\ instr_addr' \in Halves
      /\ Handed(ready, clear, branch, addr)
  BY <1>1, <1>2, CycleInStep
<1>4. Course'
  BY <1>3 DEF Course
<1>5. waiting' \in (0 .. Size - 1) \cup {None}
  <2>1. /\ Requests(req, branch, addr, gnt)
        /\ waiting' = IF ValidReq(req, branch) /\ ~gnt
                      THEN WordOf(InstrAddr(branch, addr)) ELSE None
    BY <1>1 DEF CycleWith, PrefetchStep, Bus
  <2>2. WordOf(InstrAddr(branch, addr)) \in 0 .. Size - 1
    BY <1>2, <2>1, RequestStored, AddressTypes
  <2> QED BY <2>1, <2>2
<1>6. id' \in {Instruction(image, h) : h \in Halves} \cup {None} /\ turn' \in {0, 1}
  BY <1>2, <1>3 DEF Handed, StreamInv, StageType
<1> QED BY <1>2, <1>3, <1>4, <1>5, <1>6 DEF StageType

\* The instructions of the abstract stream are those of the memory.
LEMMA SameInstructions ==
  /\ \A m, h : Stream!Instruction(m, h) = Instruction(m, h)
  /\ \A m, h : Stream!Ahead(h, Stream!Length(m, h)) = Ahead(h, Length(m, h))
  /\ Stream!Halves = Halves
<1>1. \A m, h : Stream!Length(m, h) = Length(m, h)
  BY DEF Stream!Length, Length, Stream!Compressed, Compressed, Stream!WordOf, WordOf
<1>2. \A h, n : Stream!Ahead(h, n) = Ahead(h, n)
  BY DEF Stream!Ahead, Ahead
<1>3. \A h : Stream!WordOf(h) = WordOf(h)
  BY DEF Stream!WordOf, WordOf
<1>4. \A m, h : Stream!Instruction(m, h) = Instruction(m, h)
  BY <1>1, <1>2, <1>3 DEF Stream!Instruction, Instruction
<1> QED BY <1>1, <1>2, <1>4 DEF Stream!Halves, Halves

\* The refinement's view of the controller.
IsAsleep == ctrl_fsm \in {"WAIT_SLEEP", "SLEEP"}

\* What a cycle hands over is a step of the stream, awake and asleep.
LEMMA HandedIsStep ==
  ASSUME instr_addr \in Halves, image' = image, NEW ready, NEW clear, NEW branch,
         NEW addr \in Halves, Handed(ready, clear, branch, addr),
         IsAsleep => branch # "set" /\ ~ready /\ clear,
         ~(IsAsleep' <=> IsAsleep) => branch # "set" /\ ~ready /\ clear
  PROVE  [Stream!Next]_(Stream!vars)
<1> USE SameInstructions DEF IsAsleep
<1>1. CASE branch # "set" /\ ready /\ id' = Instruction(image, instr_addr)
           /\ instr_addr' = Ahead(instr_addr, Length(image, instr_addr)) /\ turn' = 1 - turn
  BY <1>1 DEF Stream!Next, Stream!HandOver
<1>2. CASE branch = "set" /\ instr_addr' = addr /\ turn' = 1 - turn
           /\ id' = IF clear THEN None ELSE id
  BY <1>2 DEF Stream!Next, Stream!Redirect
<1>3. CASE branch # "set" /\ instr_addr' = instr_addr /\ turn' = turn
           /\ id' = IF clear THEN None ELSE id
  <2>1. CASE IsAsleep' # IsAsleep
    BY <1>3, <2>1 DEF Stream!Next, Stream!Sleep
  <2>2. CASE IsAsleep' = IsAsleep /\ clear
    BY <1>3, <2>2 DEF Stream!Next, Stream!Leave
  <2>3. CASE IsAsleep' = IsAsleep /\ ~clear
    BY <1>3, <2>3 DEF Stream!vars
  <2> QED BY <2>1, <2>2, <2>3
<1> QED BY <1>1, <1>2, <1>3 DEF Handed

\* Every step keeps the invariant and is a step of the stream or none.
LEMMA StreamStep == StreamInv /\ [Next]_vars => StreamInv' /\ [Stream!Next]_(Stream!vars)
<1> SUFFICES ASSUME StreamInv, [Next]_vars
             PROVE  StreamInv' /\ [Stream!Next]_(Stream!vars)
  OBVIOUS
<1>1. FlowInv'
  BY FlowStep DEF StreamInv
<1>2. instr_addr \in Halves /\ TRUE \in BOOLEAN /\ FALSE \in BOOLEAN
  BY DEF StreamInv, StageType
<1>3. ASSUME NEW branch \in {"none", "spec", "set"}, ctrl_fsm = "RESET" => branch = "set",
             ctrl_fsm' \in CtrlStates \ {"RESET"}, NEW req, NEW ready \in BOOLEAN,
             NEW clear \in BOOLEAN, NEW addr \in Halves, Cycle(req, ready, clear, branch, addr),
             IsAsleep => branch # "set" /\ ~ready /\ clear,
             ~(IsAsleep' <=> IsAsleep) => branch # "set" /\ ~ready /\ clear
      PROVE  StreamInv' /\ [Stream!Next]_(Stream!vars)
  <2>1. Course' /\ StageType' /\ image' = image /\ Handed(ready, clear, branch, addr)
    BY <1>3, CycleOfStage
  <2>2. [Stream!Next]_(Stream!vars)
    BY <1>2, <1>3, <2>1, HandedIsStep
  <2> QED BY <1>1, <2>1, <2>2 DEF StreamInv
<1> USE TargetsAreAddresses DEF CtrlStates, IsAsleep
<1>4. CASE BootReset
  <2>1. /\ ctrl_fsm' \in CtrlStates \ {"RESET"} /\ Boot \in Halves /\ ~IsAsleep /\ ~IsAsleep'
        /\ Cycle(FALSE, TRUE, TRUE, "set", Boot)
    BY <1>4 DEF BootReset
  <2> QED BY <1>2, <1>3, <2>1
<1>5. CASE BootSet
  <2>1. /\ ctrl_fsm' \in CtrlStates \ {"RESET"} /\ Boot \in Halves /\ ~IsAsleep /\ ~IsAsleep'
        /\ Cycle(TRUE, TRUE, TRUE, "set", Boot)
    BY <1>5 DEF BootSet
  <2> QED BY <1>2, <1>3, <2>1
<1>6. CASE Run
  <2>1. PICK ready, clear \in BOOLEAN, branch \in {"none", "spec", "set"}, addr \in Targets :
          Cycle(TRUE, ready, clear, branch, addr)
    BY <1>6 DEF Run
  <2> QED BY <1>3, <1>6, <2>1 DEF Run
<1>7. CASE Wfi
  BY <1>3, <1>7 DEF Wfi
<1>8. CASE WaitSleep
  <2>1. /\ ctrl_fsm # "RESET" /\ ctrl_fsm' \in CtrlStates \ {"RESET"} /\ Boot \in Halves
        /\ Cycle(FALSE, FALSE, TRUE, "none", Boot)
    BY <1>8 DEF WaitSleep
  <2> QED BY <1>2, <1>3, <2>1
<1>9. CASE Asleep
  <2>1. /\ ctrl_fsm # "RESET" /\ ctrl_fsm' \in CtrlStates \ {"RESET"} /\ Boot \in Halves
        /\ Cycle(FALSE, FALSE, TRUE, "none", Boot)
    BY <1>9 DEF Asleep
  <2> QED BY <1>2, <1>3, <2>1
<1>10. CASE WakeUp
  BY <1>3, <1>10 DEF WakeUp
<1>11. CASE Gated
  <2>1. UNCHANGED <<image, prefetchVars, ctrl_fsm, id, turn>>
    BY <1>11, GatedIsIdle DEF StreamInv
  <2>2. UNCHANGED pending /\ waiting' = None
    BY <1>11, GatedIsIdle DEF StreamInv
  <2>3. Course' /\ StageType'
    BY <2>1, <2>2 DEF StreamInv, Course, StageType, InStep, Line, TrailFrom, Trail, Queue,
                      Expected, After, Kept, Keeps, prefetchVars
  <2>4. UNCHANGED Stream!vars
    BY <2>1 DEF Stream!vars, prefetchVars
  <2> QED BY <1>1, <2>3, <2>4 DEF StreamInv
<1>12. CASE Reset
  <2>1. /\ entries' = <<>> /\ valid_req_q' = FALSE /\ outstanding' = <<>>
        /\ ctrl_fsm' = "RESET" /\ id' = None /\ waiting' = None /\ turn' = 1 - turn
        /\ UNCHANGED <<image, instr_addr>>
    BY <1>12 DEF Reset, PrefetchReset
  <2>2. Course' /\ StageType'
    BY <2>1 DEF Course, StageType, StreamInv
  <2>3. Stream!Next
    BY <2>1 DEF Stream!Next, Stream!Reset
  <2> QED BY <1>1, <2>2, <2>3 DEF StreamInv
<1>13. CASE UNCHANGED vars
  <2>1. Course' /\ StageType'
    BY <1>13 DEF StreamInv, Course, StageType, InStep, Line, TrailFrom, Trail, Queue,
                 Expected, After, Kept, Keeps, vars, prefetchVars, stageVars
  <2>2. UNCHANGED Stream!vars
    BY <1>13 DEF Stream!vars, vars, prefetchVars, stageVars
  <2> QED BY <1>1, <2>1, <2>2 DEF StreamInv
<1> QED BY <1>4, <1>5, <1>6, <1>7, <1>8, <1>9, <1>10, <1>11, <1>12, <1>13 DEF Next, Clock

\* The fetch path is in step in every reachable state.
LEMMA StreamInvariant == Spec => []StreamInv
  BY InitialCourse, StreamStep, PTL DEF Spec

\* For every memory, boot address and set of targets, and any bus: the registers
\* have their types; the FIFO never holds more than its depth nor the tracker more
\* than its bits, and the ID stage never sees anything but a whole instruction of
\* the memory.
THEOREM FetchIsTyped == Spec => []TypeOK
<1>1. StreamInv => TypeOK
  <2> SUFFICES ASSUME StreamInv PROVE TypeOK
    OBVIOUS
  <2>1. Kept(outstanding) \in Nat /\ Reserved \in {0, 1} /\ Len(entries) \in Nat
    BY KeptBound, LenProperties DEF StreamInv, FlowInv, Traffic, FlowType, Reserved
  <2>2. Len(entries) <= Depth /\ Len(outstanding) <= NumReqs
    BY <2>1, FetchAssumption DEF StreamInv, FlowInv, Traffic, Depth
  <2> QED BY <2>2 DEF TypeOK, PrefetchTypeOK, StreamInv, StageType, FlowInv, Traffic, FlowType
<1> QED BY <1>1, StreamInvariant, PTL

\* The fetch stage hands over the instructions from the last redirection on, one
\* after the other, none twice and none left out, each whole and with the errors
\* of its own words, and pc_if is always the address of the next one: every step
\* is a step of the stream or changes nothing of it.
THEOREM FetchIsStream == Spec => Stream!Spec
<1>1. Init => Stream!Init
  BY InitialCourse, SameInstructions DEF Init, Stream!Init, StreamInv, StageType
<1>2. StreamInv /\ [Next]_vars => [Stream!Next]_(Stream!vars)
  BY StreamStep
<1> QED BY <1>1, <1>2, StreamInvariant, PTL DEF Spec, Stream!Spec
================================================================================
