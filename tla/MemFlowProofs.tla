--------------------------- MODULE MemFlowProofs ---------------------------
(***************************************************************************)
(* Proofs about the requests and answers on their way between mem_req_loop *)
(* and the read thread, in MemRequests: how many there are at a time, that *)
(* the answer a raised flag waits for is still to come, and that           *)
(* read_requests names the answers in their order.                         *)
(***************************************************************************)
EXTENDS MemRequestsProofs, FiniteSetTheorems

-----------------------------------------------------------------------------
(* Counting the elements of a sequence that are in a set. *)

\* 1 or 0: how much one element adds to a count.
One(e, M) == IF e \in M THEN 1 ELSE 0

LEMMA OneType ==
  ASSUME NEW e, NEW M
  PROVE  One(e, M) \in {0, 1} /\ One(e, M) \in Nat
BY DEF One

LEMMA CountToType ==
  ASSUME NEW s, NEW M, NEW i \in Nat
  PROVE  /\ IsFiniteSet({j \in 1..i : s[j] \in M})
         /\ CountTo(s, M, i) \in Nat
<1>1. IsFiniteSet(1..i)
  BY FS_Interval
<1>2. {j \in 1..i : s[j] \in M} \in SUBSET (1..i)
  OBVIOUS
<1>3. IsFiniteSet({j \in 1..i : s[j] \in M})
  BY <1>1, <1>2, FS_Subset
<1> QED
  BY <1>3, FS_CardinalityType DEF CountTo

LEMMA CountToZero ==
  ASSUME NEW s, NEW M
  PROVE  CountTo(s, M, 0) = 0
<1>1. {j \in 1..0 : s[j] \in M} = {}
  OBVIOUS
<1> QED
  BY <1>1, FS_EmptySet DEF CountTo

LEMMA CountToNext ==
  ASSUME NEW s, NEW M, NEW i \in Nat
  PROVE  CountTo(s, M, i + 1) = CountTo(s, M, i) + One(s[i + 1], M)
<1> DEFINE A == {j \in 1..i : s[j] \in M}
           B == {j \in 1..(i + 1) : s[j] \in M}
<1>1. IsFiniteSet(A) /\ Cardinality(A) \in Nat
  BY CountToType DEF CountTo
<1>2. CASE s[i + 1] \in M
  <2>1. B = A \cup {i + 1} /\ i + 1 \notin A
    BY <1>2
  <2>2. Cardinality(B) = Cardinality(A) + 1
    BY <1>1, <2>1, FS_AddElement
  <2> QED
    BY <1>2, <2>2 DEF CountTo, One
<1>3. CASE s[i + 1] \notin M
  <2>1. B = A
    BY <1>3
  <2> QED
    BY <1>1, <1>3, <2>1 DEF CountTo, One
<1> QED
  BY <1>2, <1>3

\* A count depends on the elements counted only.
LEMMA CountToSame ==
  ASSUME NEW s, NEW t, NEW M, NEW i \in Nat, \A j \in 1..i : s[j] = t[j]
  PROVE  CountTo(s, M, i) = CountTo(t, M, i)
<1>1. {j \in 1..i : s[j] \in M} = {j \in 1..i : t[j] \in M}
  OBVIOUS
<1> QED
  BY <1>1, Zenon DEF CountTo

\* An element put in front adds what it counts for.
LEMMA CountToShift ==
  ASSUME NEW s, NEW t, NEW M, NEW n \in Nat, \A j \in 1..n : t[j] = s[j + 1]
  PROVE  CountTo(s, M, n + 1) = CountTo(t, M, n) + One(s[1], M)
<1> DEFINE T == {j \in 1..n : t[j] \in M}
           R == {j \in 2..(n + 1) : s[j] \in M}
           S == {j \in 1..(n + 1) : s[j] \in M}
<1>1. IsFiniteSet(T) /\ Cardinality(T) \in Nat
  BY CountToType DEF CountTo
<1>2. ExistsBijection(T, R)
  <2> DEFINE f == [j \in T |-> j + 1]
  <2>1. f \in [T -> R]
    OBVIOUS
  <2>2. \A a, b \in T : f[a] = f[b] => a = b
    OBVIOUS
  <2>3. ASSUME NEW r \in R PROVE \E a \in T : f[a] = r
    <3>1. r - 1 \in T /\ f[r - 1] = r
      OBVIOUS
    <3> QED
      BY <3>1
  <2>4. f \in Bijection(T, R)
    BY <2>1, <2>2, <2>3 DEF Bijection, Injection, Surjection, IsInjective
  <2> QED
    BY <2>4 DEF ExistsBijection
<1>3. IsFiniteSet(R) /\ Cardinality(R) = Cardinality(T)
  BY <1>1, <1>2, FS_Bijection
<1>4. CASE s[1] \in M
  <2>1. S = R \cup {1} /\ 1 \notin R
    BY <1>4
  <2>2. Cardinality(S) = Cardinality(R) + 1
    BY <1>3, <2>1, FS_AddElement
  <2>3. CountTo(s, M, n + 1) = Cardinality(S) /\ CountTo(t, M, n) = Cardinality(T)
    BY DEF CountTo
  <2>4. One(s[1], M) = 1
    BY <1>4 DEF One
  <2> HIDE DEF S, R, T
  <2> QED
    BY <1>1, <1>3, <2>2, <2>3, <2>4
<1>5. CASE s[1] \notin M
  <2>1. S = R
    BY <1>5
  <2>2. CountTo(s, M, n + 1) = Cardinality(S) /\ CountTo(t, M, n) = Cardinality(T)
    BY DEF CountTo
  <2>3. One(s[1], M) = 0
    BY <1>5 DEF One
  <2> HIDE DEF S, R, T
  <2> QED
    BY <1>1, <1>3, <2>1, <2>2, <2>3
<1> QED
  BY <1>4, <1>5

\* The rank of an element that is counted is at least 1 and at most the count.
LEMMA RankBounds ==
  ASSUME NEW s, NEW M, NEW n \in Nat, NEW i \in 1..n, s[i] \in M
  PROVE  CountTo(s, M, i) \in 1..CountTo(s, M, n)
<1> DEFINE A == {j \in 1..i : s[j] \in M}
           B == {j \in 1..n : s[j] \in M}
<1>0. i \in Nat
  OBVIOUS
<1>1. IsFiniteSet(A) /\ IsFiniteSet(B) /\ Cardinality(A) \in Nat /\ Cardinality(B) \in Nat
  BY <1>0, CountToType DEF CountTo
<1>2. A \in SUBSET B /\ i \in A
  OBVIOUS
<1>3. Cardinality(A) <= Cardinality(B)
  BY <1>1, <1>2, FS_Subset
<1>4. Cardinality(A) # 0
  BY <1>1, <1>2, FS_EmptySet
<1>5. CountTo(s, M, i) = Cardinality(A) /\ CountTo(s, M, n) = Cardinality(B)
  BY DEF CountTo
<1> HIDE DEF A, B
<1> QED
  BY <1>1, <1>3, <1>4, <1>5

LEMMA CountType ==
  ASSUME NEW S, NEW s \in Seq(S), NEW M
  PROVE  Count(s, M) \in Nat
BY CountToType, LenProperties DEF Count

LEMMA CountEmpty ==
  ASSUME NEW M
  PROVE  Count(<<>>, M) = 0
BY CountToZero DEF Count

LEMMA CountAppend ==
  ASSUME NEW S, NEW s \in Seq(S), NEW e \in S, NEW M
  PROVE  /\ Count(Append(s, e), M) = Count(s, M) + One(e, M)
         /\ \A i \in 1..Len(s) : CountTo(Append(s, e), M, i) = CountTo(s, M, i)
<1> DEFINE t == Append(s, e)
<1>1. /\ Len(s) \in Nat /\ Len(t) = Len(s) + 1 /\ t[Len(s) + 1] = e
      /\ \A j \in 1..Len(s) : t[j] = s[j]
  BY AppendProperties, LenProperties
<1> HIDE DEF t
<1>2. \A i \in 0..Len(s) : CountTo(t, M, i) = CountTo(s, M, i)
  <2> SUFFICES ASSUME NEW i \in 0..Len(s) PROVE CountTo(t, M, i) = CountTo(s, M, i)
    OBVIOUS
  <2>1. i \in Nat /\ \A j \in 1..i : t[j] = s[j]
    BY <1>1
  <2> QED
    BY <2>1, CountToSame
<1>3. CountTo(t, M, Len(s) + 1) = CountTo(t, M, Len(s)) + One(e, M)
  BY <1>1, CountToNext
<1>4. CountTo(t, M, Len(s)) = CountTo(s, M, Len(s))
  BY <1>1, <1>2
<1>5. Count(t, M) = Count(s, M) + One(e, M)
  BY <1>1, <1>3, <1>4 DEF Count
<1> QED
  BY <1>2, <1>5 DEF t

LEMMA CountTail ==
  ASSUME NEW S, NEW s \in Seq(S), s # <<>>, NEW M
  PROVE  /\ Count(s, M) = Count(Tail(s), M) + One(Head(s), M)
         /\ \A i \in 1..Len(Tail(s)) :
              CountTo(s, M, i + 1) = CountTo(Tail(s), M, i) + One(Head(s), M)
<1> DEFINE t == Tail(s)
<1>1. /\ Len(s) \in Nat /\ Len(t) \in Nat /\ Len(s) = Len(t) + 1 /\ s[1] = Head(s)
      /\ \A j \in 1..Len(t) : t[j] = s[j + 1]
  BY HeadTailProperties, LenProperties, EmptySeq
<1> HIDE DEF t
<1>2. ASSUME NEW i \in 0..Len(t)
      PROVE  CountTo(s, M, i + 1) = CountTo(t, M, i) + One(Head(s), M)
  <2>1. i \in Nat /\ \A j \in 1..i : t[j] = s[j + 1]
    BY <1>1
  <2> QED
    BY <1>1, <2>1, CountToShift
<1>3. Len(t) \in 0..Len(t)
  BY <1>1
<1>4. Count(s, M) = Count(t, M) + One(Head(s), M)
  BY <1>1, <1>2, <1>3 DEF Count
<1> QED
  BY <1>2, <1>4 DEF t

-----------------------------------------------------------------------------
(* What a step adds to the requests and answers on their way. *)

LEMMA WayTypes ==
  ASSUME TypeOK
  PROVE  /\ ReadsAsked \in Nat /\ ReadsAnswered \in Nat
         /\ WritesAsked \in Nat /\ WritesAnswered \in Nat
<1>1. /\ m_write_queue \in Seq(Calls) /\ toDevice \in Seq(Calls)
      /\ toHost \in Seq(Replies)
  BY DEF TypeOK, WireTypeOK
<1>2. /\ Count(m_write_queue, MemReads) \in Nat /\ Count(toDevice, MemReads) \in Nat
      /\ Count(m_write_queue, MemWrites) \in Nat /\ Count(toDevice, MemWrites) \in Nat
      /\ Count(toHost, ReadReplies) \in Nat /\ Count(toHost, {Ack("memwrite")}) \in Nat
  BY <1>1, CountType
<1> QED
  BY <1>2 DEF ReadsAsked, ReadsAnswered, WritesAsked, WritesAnswered

\* No call is both a read and a write.
LEMMA CallKinds ==
  /\ \A c \in MemReads : One(c, MemReads) = 1 /\ One(c, MemWrites) = 0
  /\ \A c \in MemWrites : One(c, MemReads) = 0 /\ One(c, MemWrites) = 1
  /\ \A c \in Calls : c.kind = "report" => One(c, MemReads) = 0 /\ One(c, MemWrites) = 0
  /\ MemReads \subseteq Calls /\ MemWrites \subseteq Calls
  /\ \A c \in Calls : c \in MemReads \/ c \in MemWrites \/ c.kind = "report"
BY DEF One, MemReads, MemWrites, Calls

\* A read is answered by one read report from its address, a write by one
\* acknowledgement, and any other call by nothing that could be taken for these.
LEMMA AnswerShape ==
  ASSUME TypeOK, NEW c \in Calls, NEW reply \in Answers(c)
  PROVE  \/ reply = <<>> /\ c \notin MemReads /\ c \notin MemWrites
         \/ \E r \in Replies :
              /\ reply = <<r>>
              /\ r \in ReadReplies <=> c \in MemReads
              /\ r \in {Ack("memwrite")} <=> c \in MemWrites
              /\ c \in MemReads => ReportExtent(r) = CallExtent(c)
<1>0. /\ Status \in Replies /\ Status \notin ReadReplies /\ Status # Ack("memwrite")
      /\ \A of \in {"memwrite", "report"} : Ack(of) \in Replies /\ Ack(of) \notin ReadReplies
      /\ Ack("report") # Ack("memwrite")
      /\ Ack("memwrite") \notin ReadReplies
  BY DEF Status, Ack, Replies, ReadReplies
<1>1. CASE c \in MemReads
  <2>1. c.arg \in Addresses /\ c.kind = "memread" /\ c \notin MemWrites
    BY <1>1 DEF MemReads, MemWrites
  <2>2. reply \in ReadAnswers(c.arg)
    BY <2>1 DEF Answers
  <2>3. PICK f \in BOOLEAN, p \in Payloads \cup PayloadsAt(c.arg) :
             reply = <<ReadReply(c.arg, f, p)>>
    BY <2>2 DEF ReadAnswers, Payloads
  <2>4. PayloadsAt(c.arg) \subseteq Payloads
    BY <2>1, ConstantsAssumption DEF TypeOK, WireTypeOK, PayloadsAt, Payloads
  <2>5. LowBytes[c.arg] \in Nat /\ ReadSize[c.arg] \in Nat
    BY <2>1, AddressNames DEF LowBytes, ReadSize
  <2> DEFINE r == ReadReply(c.arg, f, p)
  <2>6. r \in ReadReplies /\ ReportExtent(r) = CallExtent(c)
    BY <2>4, <2>5 DEF ReadReply, ReadReplies, ReportExtent, CallExtent, Extent
  <2> QED
    BY <1>0, <1>1, <2>1, <2>3, <2>6 DEF Replies
<1>2. CASE c \in MemWrites
  <2>1. c.kind = "memwrite" /\ c \notin MemReads
    BY <1>2 DEF MemReads, MemWrites
  <2>2. reply = <<Ack("memwrite")>>
    BY <2>1 DEF Answers
  <2> QED
    BY <1>0, <1>2, <2>1, <2>2
<1>3. CASE c \notin MemReads /\ c \notin MemWrites
  <2>1. c.kind = "report"
    BY <1>3 DEF Calls, MemWrites, MemReads
  <2>2. reply \in ReportAnswers(c.arg)
    BY <2>1 DEF Answers
  <2>3. reply \in {<<Status>>, <<>>, <<Ack("report")>>}
    BY <2>2 DEF ReportAnswers
  <2> QED
    BY <1>0, <1>3, <2>3
<1> QED
  BY <1>1, <1>2, <1>3

\* Steps that touch no queue of reports.
LEMMA WayStill ==
  ASSUME UNCHANGED <<m_write_queue, toDevice, toHost>>
  PROVE  UNCHANGED <<ReadsAsked, ReadsAnswered, WritesAsked, WritesAnswered>>
BY DEF ReadsAsked, ReadsAnswered, WritesAsked, WritesAnswered

\* A call that joins m_write_queue.
LEMMA WayAsk ==
  ASSUME TypeOK, NEW c \in Calls, m_write_queue' = Append(m_write_queue, c),
         UNCHANGED <<toDevice, toHost>>
  PROVE  /\ ReadsAsked' = ReadsAsked + One(c, MemReads)
         /\ WritesAsked' = WritesAsked + One(c, MemWrites)
         /\ UNCHANGED <<ReadsAnswered, WritesAnswered>>
<1>1. m_write_queue \in Seq(Calls) /\ toDevice \in Seq(Calls)
  BY DEF TypeOK, WireTypeOK
<1>2. /\ Count(m_write_queue', MemReads) = Count(m_write_queue, MemReads) + One(c, MemReads)
      /\ Count(m_write_queue', MemWrites) = Count(m_write_queue, MemWrites) + One(c, MemWrites)
  BY <1>1, CountAppend
<1>3. /\ Count(m_write_queue, MemReads) \in Nat /\ Count(toDevice, MemReads) \in Nat
      /\ Count(m_write_queue, MemWrites) \in Nat /\ Count(toDevice, MemWrites) \in Nat
      /\ One(c, MemReads) \in Nat /\ One(c, MemWrites) \in Nat
  BY <1>1, CountType, OneType
<1> QED
  BY <1>2, <1>3 DEF ReadsAsked, ReadsAnswered, WritesAsked, WritesAnswered

\* write_loop hands the front report on, or loses it.
LEMMA WayWrite ==
  ASSUME TypeOK, WriteLoop
  PROVE  /\ UNCHANGED <<ReadsAnswered, WritesAnswered>>
         /\ ReadsAsked' <= ReadsAsked /\ WritesAsked' <= WritesAsked
         /\ ~WritesMayFail => UNCHANGED <<ReadsAsked, WritesAsked>>
<1> DEFINE c == Head(m_write_queue)
<1>1. m_write_queue \in Seq(Calls) /\ toDevice \in Seq(Calls) /\ m_write_queue # <<>>
  BY DEF TypeOK, WireTypeOK, WriteLoop
<1>2. c \in Calls
  BY <1>1, HeadTailProperties
<1> HIDE DEF c
<1>3. /\ Count(m_write_queue, MemReads) = Count(Tail(m_write_queue), MemReads) + One(c, MemReads)
      /\ Count(m_write_queue, MemWrites) = Count(Tail(m_write_queue), MemWrites) + One(c, MemWrites)
  BY <1>1, CountTail DEF c
<1>4. /\ Count(Append(toDevice, c), MemReads) = Count(toDevice, MemReads) + One(c, MemReads)
      /\ Count(Append(toDevice, c), MemWrites) = Count(toDevice, MemWrites) + One(c, MemWrites)
  BY <1>1, <1>2, CountAppend
<1>5. Tail(m_write_queue) \in Seq(Calls)
  BY <1>1, HeadTailProperties
<1>6. /\ Count(Tail(m_write_queue), MemReads) \in Nat /\ Count(toDevice, MemReads) \in Nat
      /\ Count(Tail(m_write_queue), MemWrites) \in Nat /\ Count(toDevice, MemWrites) \in Nat
      /\ One(c, MemReads) \in Nat /\ One(c, MemWrites) \in Nat
  BY <1>1, <1>5, CountType, OneType
<1>7. /\ m_write_queue' = Tail(m_write_queue) /\ UNCHANGED toHost
      /\ toDevice' = Append(toDevice, c) \/ (WritesMayFail /\ UNCHANGED toDevice)
  BY Zenon DEF WriteLoop, c
<1>8. UNCHANGED <<ReadsAnswered, WritesAnswered>>
  BY <1>7 DEF ReadsAnswered, WritesAnswered
<1>9. CASE toDevice' = Append(toDevice, c)
  <2>1. UNCHANGED <<ReadsAsked, WritesAsked>>
    BY <1>3, <1>4, <1>6, <1>7, <1>9 DEF ReadsAsked, WritesAsked
  <2> QED
    BY <1>8, <2>1, WayTypes
<1>10. CASE WritesMayFail /\ UNCHANGED toDevice
  <2>1. ReadsAsked' <= ReadsAsked /\ WritesAsked' <= WritesAsked
    BY <1>3, <1>6, <1>7, <1>10 DEF ReadsAsked, WritesAsked
  <2> QED
    BY <1>8, <1>10, <2>1
<1> QED
  BY <1>7, <1>9, <1>10

\* The controller answers what it received.
LEMMA WayAnswer ==
  ASSUME TypeOK, DeviceAnswer
  PROVE  \E c \in Calls :
           /\ c = Head(toDevice)
           /\ ReadsAsked = ReadsAsked' + One(c, MemReads)
           /\ ReadsAnswered' = ReadsAnswered + One(c, MemReads)
           /\ WritesAsked = WritesAsked' + One(c, MemWrites)
           /\ WritesAnswered' = WritesAnswered + One(c, MemWrites)
<1> DEFINE c == Head(toDevice)
<1>1. /\ m_write_queue \in Seq(Calls) /\ toDevice \in Seq(Calls) /\ toDevice # <<>>
      /\ toHost \in Seq(Replies)
  BY DEF TypeOK, WireTypeOK, DeviceAnswer
<1>2. c \in Calls /\ Tail(toDevice) \in Seq(Calls)
  BY <1>1, HeadTailProperties
<1> HIDE DEF c
<1>3. /\ Count(toDevice, MemReads) = Count(Tail(toDevice), MemReads) + One(c, MemReads)
      /\ Count(toDevice, MemWrites) = Count(Tail(toDevice), MemWrites) + One(c, MemWrites)
  BY <1>1, CountTail DEF c
<1>4. toDevice' = Tail(toDevice) /\ UNCHANGED m_write_queue
  BY DEF DeviceAnswer
<1>5. /\ Count(Tail(toDevice), MemReads) \in Nat /\ Count(m_write_queue, MemReads) \in Nat
      /\ Count(Tail(toDevice), MemWrites) \in Nat /\ Count(m_write_queue, MemWrites) \in Nat
      /\ One(c, MemReads) \in Nat /\ One(c, MemWrites) \in Nat
      /\ Count(toHost, ReadReplies) \in Nat /\ Count(toHost, {Ack("memwrite")}) \in Nat
  BY <1>1, <1>2, CountType, OneType
<1>6. /\ ReadsAsked = ReadsAsked' + One(c, MemReads)
      /\ WritesAsked = WritesAsked' + One(c, MemWrites)
  BY <1>3, <1>4, <1>5 DEF ReadsAsked, WritesAsked
<1>7. PICK reply \in Answers(c) : toHost' = toHost \o reply
  BY DEF DeviceAnswer, c
<1>8. /\ ReadsAnswered' = ReadsAnswered + One(c, MemReads)
      /\ WritesAnswered' = WritesAnswered + One(c, MemWrites)
  <2>1. CASE reply = <<>> /\ c \notin MemReads /\ c \notin MemWrites
    <3>1. toHost' = toHost
      BY <1>1, <1>7, <2>1, ConcatEmptySeq
    <3> QED
      BY <1>5, <2>1, <3>1 DEF ReadsAnswered, WritesAnswered, One
  <2>2. ASSUME NEW r \in Replies, reply = <<r>>, r \in ReadReplies <=> c \in MemReads,
               r \in {Ack("memwrite")} <=> c \in MemWrites
        PROVE  /\ ReadsAnswered' = ReadsAnswered + One(c, MemReads)
               /\ WritesAnswered' = WritesAnswered + One(c, MemWrites)
    <3>1. toHost' = Append(toHost, r)
      BY <1>1, <1>7, <2>2, AppendIsConcat
    <3>2. /\ Count(toHost', ReadReplies) = Count(toHost, ReadReplies) + One(r, ReadReplies)
          /\ Count(toHost', {Ack("memwrite")})
               = Count(toHost, {Ack("memwrite")}) + One(r, {Ack("memwrite")})
      BY <1>1, <3>1, CountAppend
    <3>3. /\ One(r, ReadReplies) = One(c, MemReads)
          /\ One(r, {Ack("memwrite")}) = One(c, MemWrites)
      BY <2>2 DEF One
    <3> QED
      BY <3>2, <3>3 DEF ReadsAnswered, WritesAnswered
  <2> QED
    BY <1>2, <2>1, <2>2, AnswerShape
<1> QED
  BY <1>2, <1>6, <1>8 DEF c

\* The read thread takes a report.
LEMMA WayIncoming ==
  ASSUME TypeOK, NEW type, Incoming(type), UNCHANGED <<m_write_queue, toDevice>>
  PROVE  \E r \in Replies :
           /\ r = Head(toHost) /\ r.type = type
           /\ ReadsAnswered = ReadsAnswered' + One(r, ReadReplies)
           /\ WritesAnswered = WritesAnswered' + One(r, {Ack("memwrite")})
           /\ UNCHANGED <<ReadsAsked, WritesAsked>>
<1>1. toHost \in Seq(Replies) /\ toHost # <<>>
  BY DEF TypeOK, WireTypeOK, Incoming
<1>2. Head(toHost) \in Replies /\ Head(toHost).type = type
  BY <1>1, HeadTailProperties DEF Incoming
<1>3. /\ Count(toHost, ReadReplies) = Count(Tail(toHost), ReadReplies) + One(Head(toHost), ReadReplies)
      /\ Count(toHost, {Ack("memwrite")})
           = Count(Tail(toHost), {Ack("memwrite")}) + One(Head(toHost), {Ack("memwrite")})
  BY <1>1, CountTail
<1>4. toHost' = Tail(toHost)
  BY DEF Incoming
<1>5. UNCHANGED <<ReadsAsked, WritesAsked>>
  BY DEF ReadsAsked, WritesAsked
<1> QED
  BY <1>2, <1>3, <1>4, <1>5 DEF ReadsAnswered, WritesAnswered

\* What the controller says of its own accord answers no memory request.
LEMMA WayPlug ==
  ASSUME TypeOK, DevicePlug
  PROVE  UNCHANGED <<ReadsAsked, ReadsAnswered, WritesAsked, WritesAnswered>>
<1>1. Status' \in Replies /\ Status' \notin ReadReplies /\ Status' # Ack("memwrite")
  BY DEF Status, Ack, Replies, ReadReplies
<1>2. toHost \in Seq(Replies) /\ toHost' = Append(toHost, Status')
  BY DEF TypeOK, WireTypeOK, DevicePlug
<1>3. /\ Count(toHost', ReadReplies) = Count(toHost, ReadReplies) + One(Status', ReadReplies)
      /\ Count(toHost', {Ack("memwrite")})
           = Count(toHost, {Ack("memwrite")}) + One(Status', {Ack("memwrite")})
  BY <1>1, <1>2, CountAppend
<1>4. /\ Count(toHost, ReadReplies) \in Nat /\ Count(toHost, {Ack("memwrite")}) \in Nat
  BY <1>2, CountType
<1>5. One(Status', ReadReplies) = 0 /\ One(Status', {Ack("memwrite")}) = 0
  BY <1>1 DEF One
<1> QED
  BY <1>3, <1>4, <1>5 DEF DevicePlug, ReadsAsked, ReadsAnswered, WritesAsked, WritesAnswered

-----------------------------------------------------------------------------
(* One request at a time. *)

OnTheWay == ReadsAsked + ReadsAnswered + WritesAsked + WritesAnswered
Busy == wait_for_read \/ wait_for_write \/ pc["memreq"] = "flag"

\* Every memory request on its way, every answer, and the read report in the hands
\* of the read thread is accounted for by one raised flag, or by mem_req_loop
\* being about to raise it.
Accounted ==
  OnTheWay + (IF Matching THEN 1 ELSE 0) <= (IF Busy THEN 1 ELSE 0)

LEMMA AccountedInit == Init => Accounted
<1> SUFFICES ASSUME Init PROVE Accounted
  OBVIOUS
<1>1. m_write_queue = <<>> /\ toDevice = <<>> /\ toHost = <<>> /\ pc["reader"] = "read"
  BY DEF Init
<1>2. /\ ReadsAsked = 0 /\ ReadsAnswered = 0 /\ WritesAsked = 0 /\ WritesAnswered = 0
  BY <1>1, CountEmpty DEF ReadsAsked, ReadsAnswered, WritesAsked, WritesAnswered
<1> QED
  BY <1>1, <1>2 DEF Accounted, OnTheWay, Matching

\* The steps of a caller move no thread in or out of a place that counts.
LEMMA CallPlaces ==
  ASSUME PcTypeOK, NEW t \in Callers, Call(t)
  PROVE  /\ pc'["memreq"] = pc["memreq"]
         /\ \A u \in Callers \ {t} : pc'[u] = pc[u]
         /\ pc[t] \in {"call", "push", "enqueue"} /\ pc'[t] \in {"call", "push", "enqueue"}
         /\ UNCHANGED flagVars
         /\ UNCHANGED <<toDevice, toHost>>
BY DEF PcTypeOK, Threads, Callers, Call, CallReport, CallMemWrite, CallMemRead,
       PushReadRequest, EnqueueRead, NextCall, Goto, wireVars

LEMMA AccountedStep == IInv /\ Accounted /\ [Next]_vars => Accounted'
<1> SUFFICES ASSUME IInv, Accounted, [Next]_vars PROVE Accounted'
  OBVIOUS
<1>0. TypeOK /\ PcTypeOK /\ FlagTypeOK /\ ControlHandover /\ FrontPresent
  BY DEF IInv, TypeOK
<1>t. /\ ReadsAsked \in Nat /\ ReadsAnswered \in Nat
      /\ WritesAsked \in Nat /\ WritesAnswered \in Nat
  BY <1>0, WayTypes
<1>p. /\ ReadsAsked' \in Nat /\ ReadsAnswered' \in Nat
      /\ WritesAsked' \in Nat /\ WritesAnswered' \in Nat
  <2>1. TypeOK'
    BY PcTypeStep, CallTypeStep, FlagTypeStep, WireTypeStep, HandleTypeStep DEF TypeOK
  <2>2. /\ m_write_queue' \in Seq(Calls) /\ toDevice' \in Seq(Calls)
        /\ toHost' \in Seq(Replies)
    BY <2>1 DEF TypeOK, WireTypeOK
  <2>3. /\ Count(m_write_queue', MemReads) \in Nat /\ Count(toDevice', MemReads) \in Nat
        /\ Count(m_write_queue', MemWrites) \in Nat /\ Count(toDevice', MemWrites) \in Nat
        /\ Count(toHost', ReadReplies) \in Nat /\ Count(toHost', {Ack("memwrite")}) \in Nat
    BY <2>2, CountType
  <2> QED
    BY <2>3 DEF ReadsAsked, ReadsAnswered, WritesAsked, WritesAnswered
<1>w. OnTheWay \in Nat /\ OnTheWay' \in Nat
  BY <1>t, <1>p DEF OnTheWay, ReadsAsked, ReadsAnswered, WritesAsked, WritesAnswered
<1>a. /\ Matching => OnTheWay <= 0
      /\ OnTheWay <= 1
      /\ ~Busy => OnTheWay <= 0 /\ ~Matching
      /\ OnTheWay # 0 => Busy
  BY <1>w DEF Accounted
<1>s. ASSUME OnTheWay' <= OnTheWay, Matching' => Matching, Busy => Busy'
      PROVE  Accounted'
  BY <1>s, <1>w DEF Accounted, OnTheWay, ReadsAsked, ReadsAnswered, WritesAsked, WritesAnswered
<1>z. ASSUME OnTheWay' = 0, ~Matching' \/ Busy' PROVE Accounted'
  BY <1>z DEF Accounted
<1>u. ASSUME UNCHANGED <<ReadsAsked, ReadsAnswered, WritesAsked, WritesAnswered>>
      PROVE  OnTheWay' <= OnTheWay
  BY <1>u, <1>w DEF OnTheWay, ReadsAsked, ReadsAnswered, WritesAsked, WritesAnswered
<1>1. ASSUME NEW t \in Callers, Call(t) PROVE Accounted'
  <2>1. ~Matching' \/ UNCHANGED pc["reader"]
    BY <1>0, <1>1, CallPlaces DEF Matching, Callers
  <2>2. (Busy' <=> Busy)
    BY <1>0, <1>1, CallPlaces DEF Busy, flagVars
  <2>3. CASE CallReport(t)
    <3>1. Head(todo[t]) \in Calls /\ Head(todo[t]).kind = "report"
      BY <1>0, <2>3, CallDoneType DEF CallReport, NextCall, TypeOK
    <3>2. UNCHANGED <<ReadsAsked, ReadsAnswered, WritesAsked, WritesAnswered>>
      BY <1>0, <1>t, <2>3, <3>1, WayAsk, CallKinds DEF CallReport
    <3> QED
      BY <1>s, <1>u, <2>1, <2>2, <3>2 DEF Matching
  <2>4. CASE CallMemWrite(t) \/ CallMemRead(t) \/ PushReadRequest(t) \/ EnqueueRead(t)
    <3>1. UNCHANGED <<m_write_queue, toDevice, toHost>>
      BY <2>4 DEF CallMemWrite, CallMemRead, PushReadRequest, EnqueueRead, wireVars
    <3> QED
      BY <1>s, <1>u, <2>1, <2>2, <3>1, WayStill DEF Matching
  <2> QED
    BY <1>1, <2>3, <2>4 DEF Call
<1>2. CASE HandleStatus
  <2>1. PICK r \in Replies : /\ r.type = "status"
                             /\ ReadsAnswered = ReadsAnswered' + One(r, ReadReplies)
                             /\ WritesAnswered = WritesAnswered' + One(r, {Ack("memwrite")})
                             /\ UNCHANGED <<ReadsAsked, WritesAsked>>
    BY <1>0, <1>2, WayIncoming DEF HandleStatus
  <2>2. One(r, ReadReplies) = 0 /\ One(r, {Ack("memwrite")}) = 0
    BY <2>1 DEF One, ReadReplies, Ack
  <2>3. ~Matching' /\ (Busy' <=> Busy)
    BY <1>0, <1>2 DEF HandleStatus, Goto, Matching, Busy, flagVars, PcTypeOK, Threads, Callers
  <2>4. OnTheWay' <= OnTheWay
    BY <1>t, <1>p, <2>1, <2>2 DEF OnTheWay, ReadsAsked, ReadsAnswered, WritesAsked, WritesAnswered
  <2> QED
    BY <1>s, <2>3, <2>4
<1>3. CASE HandleAcknowledgement
  <2>1. PICK r \in Replies : /\ r = Head(toHost) /\ r.type = "ack"
                             /\ ReadsAnswered = ReadsAnswered' + One(r, ReadReplies)
                             /\ WritesAnswered = WritesAnswered' + One(r, {Ack("memwrite")})
                             /\ UNCHANGED <<ReadsAsked, WritesAsked>>
    BY <1>0, <1>3, WayIncoming DEF HandleAcknowledgement
  <2>2. One(r, ReadReplies) = 0
    BY <2>1 DEF One, ReadReplies
  <2>3. ~Matching /\ ~Matching' /\ pc'["memreq"] = pc["memreq"] /\ UNCHANGED wait_for_read
    BY <1>0, <1>3 DEF HandleAcknowledgement, Incoming, Goto, Matching, PcTypeOK, Threads, Callers
  <2>4. CASE r.of = "memwrite"
    <3>1. r = Ack("memwrite")
      BY <2>1, <2>4 DEF Ack, Replies, ReadReplies
    <3>2. One(r, {Ack("memwrite")}) = 1
      BY <3>1 DEF One
    <3>3. OnTheWay = OnTheWay' + 1
      BY <1>t, <1>p, <2>1, <2>2, <3>2 DEF OnTheWay, ReadsAsked, ReadsAnswered, WritesAsked, WritesAnswered
    <3> QED
      <4>1. OnTheWay' = 0
        BY <1>w, <1>a, <3>3 DEF OnTheWay, ReadsAsked, ReadsAnswered, WritesAsked, WritesAnswered
      <4> QED
        BY <1>z, <2>3, <4>1
  <2>5. CASE r.of # "memwrite"
    <3>1. r # Ack("memwrite")
      BY <2>5 DEF Ack
    <3>2. One(r, {Ack("memwrite")}) = 0
      BY <3>1 DEF One
    <3>3. UNCHANGED wait_for_write
      BY <1>3, <2>1, <2>5 DEF HandleAcknowledgement
    <3>4. OnTheWay' <= OnTheWay
      BY <1>t, <1>p, <2>1, <2>2, <3>2 DEF OnTheWay, ReadsAsked, ReadsAnswered, WritesAsked, WritesAnswered
    <3> QED
      BY <1>s, <2>3, <3>3, <3>4 DEF Busy
  <2> QED
    BY <2>4, <2>5
<1>4. CASE LockReadRequests
  <2>1. PICK r \in Replies : /\ r.type = "memread"
                             /\ ReadsAnswered = ReadsAnswered' + One(r, ReadReplies)
                             /\ WritesAnswered = WritesAnswered' + One(r, {Ack("memwrite")})
                             /\ UNCHANGED <<ReadsAsked, WritesAsked>>
    BY <1>0, <1>4, WayIncoming DEF LockReadRequests
  <2>2. One(r, ReadReplies) = 1 /\ One(r, {Ack("memwrite")}) = 0
    BY <2>1 DEF One, Replies, ReadReplies, Ack
  <2>3. ~Matching /\ Matching' /\ (Busy' <=> Busy)
    BY <1>0, <1>4
    DEF LockReadRequests, Incoming, Goto, Matching, Busy, flagVars, PcTypeOK, Threads, Callers
  <2>4. OnTheWay = OnTheWay' + 1
    BY <1>t, <1>p, <2>1, <2>2 DEF OnTheWay, ReadsAsked, ReadsAnswered, WritesAsked, WritesAnswered
  <2> QED
    <3>1. OnTheWay' = 0
      BY <1>w, <1>a, <2>4 DEF OnTheWay, ReadsAsked, ReadsAnswered, WritesAsked, WritesAnswered
    <3> QED
      BY <1>a, <1>w, <1>z, <2>3, <2>4, <3>1
<1>5. CASE LowerReadFlag
  <2>1. Matching /\ ~Matching' /\ UNCHANGED <<m_write_queue, toDevice, toHost>>
    BY <1>0, <1>5 DEF LowerReadFlag, Goto, Matching, wireVars, PcTypeOK, Threads, Callers
  <2>2. UNCHANGED <<ReadsAsked, ReadsAnswered, WritesAsked, WritesAnswered>>
    BY <2>1, WayStill
  <2> QED
    BY <1>w, <1>a, <1>u, <1>z, <2>1, <2>2
<1>6. CASE AckUnlock \/ IgnoreReport \/ AcceptError \/ AcceptData \/ ReadUnlock
             \/ PopReadRequest \/ Return
  <2>2. UNCHANGED <<m_write_queue, toDevice, toHost>>
    BY <1>6
    DEF AckUnlock, IgnoreReport, AcceptError, AcceptData, ReadUnlock, PopReadRequest, Return,
        wireVars
  <2>3. UNCHANGED <<wait_for_read, wait_for_write>>
    BY <1>6
    DEF AckUnlock, IgnoreReport, AcceptError, AcceptData, ReadUnlock, PopReadRequest, Return,
        flagVars
  <2>4. pc'["memreq"] = pc["memreq"] /\ (Matching' => Matching)
    BY <1>0, <1>6
    DEF AckUnlock, IgnoreReport, AcceptError, AcceptData, ReadUnlock, PopReadRequest, Return,
        Goto, Matching, PcTypeOK, Threads, Callers
  <2> QED
    BY <1>s, <1>u, <2>2, <2>3, <2>4, WayStill DEF Busy
<1>7. CASE IssueRequest
  <2>1. queue # <<>> /\ queue \in Seq(MemWrites \cup MemReads)
    BY <1>0, <1>7 DEF IssueRequest, FrontPresent, TypeOK, CallTypeOK
  <2>2. Head(queue) \in MemWrites \cup MemReads
    BY <2>1, HeadTailProperties
  <2>3. /\ ReadsAsked' = ReadsAsked + One(Head(queue), MemReads)
        /\ WritesAsked' = WritesAsked + One(Head(queue), MemWrites)
        /\ UNCHANGED <<ReadsAnswered, WritesAnswered>>
    BY <1>0, <1>7, <2>2, WayAsk, CallKinds DEF IssueRequest
  <2>4. One(Head(queue), MemReads) + One(Head(queue), MemWrites) = 1
    BY <2>2, CallKinds
  <2>5. ~Busy /\ Busy' /\ (Matching' <=> Matching)
    BY <1>0, <1>7
    DEF IssueRequest, Busy, Matching, Goto, ControlHandover, Issuing, PcTypeOK, Threads, Callers
  <2>6. One(Head(queue), MemReads) \in Nat /\ One(Head(queue), MemWrites) \in Nat
    BY OneType
  <2>7. OnTheWay' = OnTheWay + 1
    BY <1>t, <2>3, <2>4, <2>6 DEF OnTheWay, ReadsAsked, ReadsAnswered, WritesAsked, WritesAnswered
  <2> QED
    BY <1>w, <1>a, <2>5, <2>7 DEF Accounted
<1>8. CASE AcquireControl \/ FindEmpty \/ FindRequest \/ RaiseFlag \/ PopRequest
  <2>1. UNCHANGED <<m_write_queue, toDevice, toHost>>
    BY <1>8 DEF AcquireControl, FindEmpty, FindRequest, RaiseFlag, PopRequest, wireVars
  <2>2. (Matching' <=> Matching) /\ (Busy => Busy')
    BY <1>0, <1>8
    DEF AcquireControl, FindEmpty, FindRequest, RaiseFlag, PopRequest, Goto, Matching, Busy,
        flagVars, PcTypeOK, Threads, Callers
  <2> QED
    BY <1>s, <1>u, <2>1, <2>2, WayStill
<1>9. CASE WriteLoop
  <2>1. UNCHANGED pc /\ UNCHANGED flagVars
    BY <1>9 DEF WriteLoop
  <2>2. (Matching' <=> Matching) /\ (Busy' <=> Busy)
    BY <2>1 DEF Matching, Busy, flagVars
  <2>3. /\ ReadsAsked' <= ReadsAsked /\ WritesAsked' <= WritesAsked
        /\ ReadsAnswered' = ReadsAnswered /\ WritesAnswered' = WritesAnswered
    BY <1>0, <1>9, WayWrite
  <2>4. OnTheWay' <= OnTheWay
    BY <1>t, <1>p, <2>3 DEF OnTheWay, ReadsAsked, ReadsAnswered, WritesAsked, WritesAnswered
  <2> QED
    BY <1>s, <2>2, <2>4
<1>10. CASE DeviceAnswer
  <2>1. UNCHANGED pc /\ UNCHANGED flagVars
    BY <1>10 DEF DeviceAnswer
  <2>2. (Matching' <=> Matching) /\ (Busy' <=> Busy)
    BY <2>1 DEF Matching, Busy, flagVars
  <2>3. PICK c \in Calls : /\ ReadsAsked = ReadsAsked' + One(c, MemReads)
                           /\ ReadsAnswered' = ReadsAnswered + One(c, MemReads)
                           /\ WritesAsked = WritesAsked' + One(c, MemWrites)
                           /\ WritesAnswered' = WritesAnswered + One(c, MemWrites)
    BY <1>0, <1>10, WayAnswer
  <2>4. One(c, MemReads) \in Nat /\ One(c, MemWrites) \in Nat
    BY OneType
  <2>5. OnTheWay' = OnTheWay
    BY <1>t, <1>p, <2>3, <2>4 DEF OnTheWay, ReadsAsked, ReadsAnswered, WritesAsked, WritesAnswered
  <2> QED
    BY <1>s, <1>w, <2>2, <2>5
<1>11. CASE DevicePlug
  <2>1. UNCHANGED pc /\ UNCHANGED flagVars
    BY <1>11 DEF DevicePlug
  <2>2. (Matching' <=> Matching) /\ (Busy' <=> Busy)
    BY <2>1 DEF Matching, Busy, flagVars
  <2> QED
    BY <1>0, <1>s, <1>u, <1>11, <2>2, WayPlug
<1>12. CASE UNCHANGED vars
  BY <1>s, <1>u, <1>12, WayStill DEF vars, wireVars, flagVars, Matching, Busy
<1> QED
  BY <1>1, <1>2, <1>3, <1>4, <1>5, <1>6, <1>7, <1>8, <1>9, <1>10, <1>11, <1>12
  DEF Next, Reader, MemReq, Callers

\* A memory request on its way, or its answer, always has its flag: mem_req_loop sends
\* nothing that it does not wait for (wiimote.cpp:306-322).
THEOREM AccountedAlways == Spec => []Accounted
BY Invariance, AccountedInit, AccountedStep, PTL DEF Spec

\* The controller is never sent a memory request while an earlier one or its answer
\* is on its way, whether it answers early or late and even if a write of
\* write_loop fails (mem_req_loop and the flags it waits for).
THEOREM OneAtATime == Spec => []OneOutstanding
<1>1. IInv /\ Accounted => OneOutstanding
  <2> SUFFICES ASSUME IInv, Accounted PROVE OneOutstanding
    OBVIOUS
  <2>1. /\ ReadsAsked \in Nat /\ ReadsAnswered \in Nat
        /\ WritesAsked \in Nat /\ WritesAnswered \in Nat
    BY WayTypes DEF IInv
  <2> QED
    BY <2>1 DEF Accounted, OnTheWay, OneOutstanding
<1> QED
  BY Invariance, AccountedAlways, <1>1, PTL

-----------------------------------------------------------------------------
(* The answer a raised flag waits for. *)

\* handle_acknowledgement takes one acknowledgement.
LEMMA WayAck ==
  ASSUME TypeOK, HandleAcknowledgement
  PROVE  /\ UNCHANGED <<ReadsAsked, ReadsAnswered, WritesAsked>>
         /\ Head(toHost).of # "memwrite" => WritesAnswered' = WritesAnswered
<1>1. PICK r \in Replies : /\ r = Head(toHost) /\ r.type = "ack"
                           /\ ReadsAnswered = ReadsAnswered' + One(r, ReadReplies)
                           /\ WritesAnswered = WritesAnswered' + One(r, {Ack("memwrite")})
                           /\ UNCHANGED <<ReadsAsked, WritesAsked>>
  BY WayIncoming DEF HandleAcknowledgement
<1>2. One(r, ReadReplies) = 0
  BY <1>1 DEF One, ReadReplies
<1>3. r.of # "memwrite" => One(r, {Ack("memwrite")}) = 0
  BY DEF One, Ack
<1>4. Count(toHost', ReadReplies) \in Nat /\ Count(toHost', {Ack("memwrite")}) \in Nat
  <2>1. toHost \in Seq(Replies) /\ toHost # <<>> /\ toHost' = Tail(toHost)
    BY DEF TypeOK, WireTypeOK, HandleAcknowledgement, Incoming
  <2>2. toHost' \in Seq(Replies)
    BY <2>1, HeadTailProperties
  <2> QED
    BY <2>2, CountType
<1> QED
  BY <1>1, <1>2, <1>3, <1>4 DEF ReadsAnswered, WritesAnswered

\* Reports that are no memory requests and no answers to one do not count, and
\* most steps move no report.
LEMMA WayUnchanged ==
  ASSUME IInv, [Next]_vars, ~HandleAcknowledgement, ~LockReadRequests, ~IssueRequest,
         ~WriteLoop, ~DeviceAnswer
  PROVE  UNCHANGED <<ReadsAsked, ReadsAnswered, WritesAsked, WritesAnswered>>
<1>0. TypeOK /\ CallTypeOK
  BY DEF IInv, TypeOK
<1>1. ASSUME NEW t \in Callers, CallReport(t)
      PROVE  UNCHANGED <<ReadsAsked, ReadsAnswered, WritesAsked, WritesAnswered>>
  <2>1. Head(todo[t]) \in Calls /\ Head(todo[t]).kind = "report"
    BY <1>0, <1>1, CallDoneType DEF CallReport, NextCall
  <2> QED
    BY <1>0, <1>1, <2>1, WayTypes, WayAsk, CallKinds DEF CallReport
<1>2. CASE HandleStatus
  <2>1. PICK r \in Replies : /\ r.type = "status"
                             /\ ReadsAnswered = ReadsAnswered' + One(r, ReadReplies)
                             /\ WritesAnswered = WritesAnswered' + One(r, {Ack("memwrite")})
                             /\ UNCHANGED <<ReadsAsked, WritesAsked>>
    BY <1>0, <1>2, WayIncoming DEF HandleStatus
  <2>2. One(r, ReadReplies) = 0 /\ One(r, {Ack("memwrite")}) = 0
    BY <2>1 DEF One, ReadReplies, Ack
  <2>3. Count(toHost', ReadReplies) \in Nat /\ Count(toHost', {Ack("memwrite")}) \in Nat
    <3>1. toHost \in Seq(Replies) /\ toHost # <<>> /\ toHost' = Tail(toHost)
      BY <1>0, <1>2 DEF TypeOK, WireTypeOK, HandleStatus, Incoming
    <3>2. toHost' \in Seq(Replies)
      BY <3>1, HeadTailProperties
    <3> QED
      BY <3>2, CountType
  <2> QED
    BY <2>1, <2>2, <2>3 DEF ReadsAnswered, WritesAnswered
<1>3. CASE DevicePlug
  BY <1>0, <1>3, WayPlug
<1>4. CASE UNCHANGED <<m_write_queue, toDevice, toHost>>
  BY <1>4, WayStill
<1>5. ASSUME NEW t \in Callers, Call(t)
      PROVE  CallReport(t) \/ UNCHANGED <<m_write_queue, toDevice, toHost>>
  BY <1>5 DEF Call, CallMemWrite, CallMemRead, PushReadRequest, EnqueueRead, wireVars
<1>6. CASE Reader
  BY <1>1, <1>2, <1>4, <1>5, <1>6
  DEF Reader, Callers, AckUnlock, IgnoreReport, AcceptError, AcceptData, LowerReadFlag,
      ReadUnlock, PopReadRequest, Return, wireVars
<1>7. CASE MemReq
  BY <1>4, <1>7 DEF MemReq, AcquireControl, FindEmpty, FindRequest, RaiseFlag, PopRequest, wireVars
<1>8. CASE Call("main")
  BY <1>1, <1>4, <1>5, <1>8 DEF Callers
<1>9. CASE UNCHANGED vars
  BY <1>4, <1>9 DEF vars, wireVars
<1> QED
  BY <1>3, <1>6, <1>7, <1>8, <1>9 DEF Next

\* Between the report and its flag mem_req_loop holds element_mutex: its request stays
\* in front, and the flags stay down.
LEMMA FlagWindow ==
  ASSUME IInv, [Next]_vars
  PROVE  pc'["memreq"] = "flag" =>
           IssueRequest \/ (pc["memreq"] = "flag" /\ UNCHANGED queue)
<1>0. PcTypeOK
  BY DEF IInv, TypeOK
<1> SUFFICES ASSUME pc'["memreq"] = "flag", ~IssueRequest
             PROVE  pc["memreq"] = "flag" /\ UNCHANGED queue
  OBVIOUS
<1>1. ASSUME NEW t \in Callers, Call(t) PROVE pc["memreq"] = "flag" /\ UNCHANGED queue
  <2>1. pc["memreq"] = "flag"
    BY <1>0, <1>1, CallPlaces
  <2> QED
    BY <1>1, <2>1
    DEF Call, CallReport, CallMemWrite, CallMemRead, PushReadRequest, EnqueueRead,
        ElementMutexFree
<1>2. CASE Reader
  BY <1>0, <1>1, <1>2
  DEF Reader, HandleStatus, HandleAcknowledgement, AckUnlock, LockReadRequests, IgnoreReport,
      AcceptError, AcceptData, LowerReadFlag, ReadUnlock, PopReadRequest, Return, Goto,
      PcTypeOK, Threads, Callers, callVars
<1>3. CASE MemReq
  BY <1>0, <1>3
  DEF MemReq, AcquireControl, FindEmpty, FindRequest, RaiseFlag, PopRequest, Goto,
      PcTypeOK, Threads, Callers
<1>4. CASE WriteLoop \/ DeviceAnswer \/ DevicePlug \/ UNCHANGED vars
  BY <1>4 DEF WriteLoop, DeviceAnswer, DevicePlug, vars, callVars
<1> QED
  BY <1>1, <1>2, <1>3, <1>4 DEF Next, Callers

\* While mem_req_loop is about to raise a flag, its request is on its way.
JustAsked ==
  pc["memreq"] = "flag" =>
    /\ Head(queue).kind = "memwrite" => WritesAsked = 1
    /\ Head(queue).kind # "memwrite" => ReadsAsked = 1

LEMMA JustAskedStep ==
  ASSUME ~WritesMayFail, ~AnswersBeforeFlag, IInv, Accounted, JustAsked, [Next]_vars
  PROVE  JustAsked'
<1>0. TypeOK /\ PcTypeOK /\ FlagTypeOK /\ ControlHandover /\ FrontPresent
  BY DEF IInv, TypeOK
<1>t. /\ ReadsAsked \in Nat /\ ReadsAnswered \in Nat
      /\ WritesAsked \in Nat /\ WritesAnswered \in Nat
  BY <1>0, WayTypes
<1> SUFFICES ASSUME pc'["memreq"] = "flag"
             PROVE  /\ Head(queue').kind = "memwrite" => WritesAsked' = 1
                    /\ Head(queue').kind # "memwrite" => ReadsAsked' = 1
  BY DEF JustAsked
<1>1. CASE IssueRequest
  <2>1. queue # <<>> /\ queue \in Seq(MemWrites \cup MemReads) /\ UNCHANGED queue
    BY <1>0, <1>1 DEF IssueRequest, FrontPresent, TypeOK, CallTypeOK, callVars
  <2>2. Head(queue) \in MemWrites \cup MemReads
    BY <2>1, HeadTailProperties
  <2>3. /\ ReadsAsked' = ReadsAsked + One(Head(queue), MemReads)
        /\ WritesAsked' = WritesAsked + One(Head(queue), MemWrites)
    BY <1>0, <1>1, <2>2, WayAsk, CallKinds DEF IssueRequest
  <2>4. ~Busy
    BY <1>0, <1>1 DEF IssueRequest, Busy, ControlHandover, Issuing
  <2>5. ReadsAsked = 0 /\ WritesAsked = 0
    BY <1>t, <2>4 DEF Accounted, OnTheWay
  <2>6. CASE Head(queue) \in MemWrites
    <3>1. Head(queue).kind = "memwrite" /\ One(Head(queue), MemWrites) = 1
      BY <2>6, CallKinds DEF MemWrites
    <3>2. WritesAsked' = 1
      BY <2>3, <2>5, <3>1
    <3> QED
      BY <2>1, <3>1, <3>2
  <2>7. CASE Head(queue) \in MemReads
    <3>1. Head(queue).kind # "memwrite" /\ One(Head(queue), MemReads) = 1
      BY <2>7, CallKinds DEF MemReads
    <3>2. ReadsAsked' = 1
      BY <2>3, <2>5, <3>1
    <3> QED
      BY <2>1, <3>1, <3>2
  <2> QED
    BY <2>2, <2>6, <2>7
<1>2. CASE ~IssueRequest
  <2>1. pc["memreq"] = "flag" /\ UNCHANGED queue
    BY <1>2, FlagWindow
  <2>2. ~DeviceAnswer
    BY <2>1 DEF DeviceAnswer, MayReport
  <2>3. UNCHANGED <<ReadsAsked, WritesAsked>>
    <3>1. CASE WriteLoop
      BY <1>0, <3>1, WayWrite
    <3>2. CASE HandleAcknowledgement
      BY <1>0, <3>2, WayAck
    <3>3. CASE LockReadRequests
      BY <1>0, <3>3, WayIncoming DEF LockReadRequests
    <3> QED
      BY <1>2, <2>2, <3>1, <3>2, <3>3, WayUnchanged
  <2> QED
    BY <2>1, <2>3 DEF JustAsked
<1> QED
  BY <1>1, <1>2

\* Only mem_req_loop raises a flag.
LEMMA FlagRaised ==
  ASSUME IInv, [Next]_vars, ~RaiseFlag
  PROVE  (wait_for_write' => wait_for_write) /\ (wait_for_read' => wait_for_read)
<1>1. ASSUME NEW t \in Callers, Call(t) PROVE UNCHANGED flagVars
  BY <1>1 DEF Call, CallReport, CallMemWrite, CallMemRead, PushReadRequest, EnqueueRead
<1>2. CASE Reader
  BY <1>1, <1>2
  DEF Reader, Callers, HandleStatus, HandleAcknowledgement, AckUnlock, LockReadRequests,
      IgnoreReport, AcceptError, AcceptData, LowerReadFlag, ReadUnlock, PopReadRequest, Return,
      flagVars
<1>3. CASE MemReq
  BY <1>3 DEF MemReq, AcquireControl, FindEmpty, FindRequest, IssueRequest, PopRequest, flagVars
<1> QED
  BY <1>1, <1>2, <1>3
  DEF Next, Callers, WriteLoop, DeviceAnswer, DevicePlug, vars, flagVars

LEMMA WriteAckStep ==
  ASSUME ~WritesMayFail, ~AnswersBeforeFlag, IInv, Accounted, JustAsked, WriteAckPending,
         [Next]_vars
  PROVE  WriteAckPending'
<1>0. TypeOK /\ FlagTypeOK /\ ControlHandover
  BY DEF IInv, TypeOK
<1>t. /\ ReadsAsked \in Nat /\ ReadsAnswered \in Nat
      /\ WritesAsked \in Nat /\ WritesAnswered \in Nat
  BY <1>0, WayTypes
<1> SUFFICES ASSUME wait_for_write' PROVE WritesAsked' + WritesAnswered' = 1
  BY DEF WriteAckPending
<1>1. CASE RaiseFlag
  <2>1. pc["memreq"] = "flag" /\ UNCHANGED <<m_write_queue, toDevice, toHost>>
    BY <1>1 DEF RaiseFlag, wireVars
  <2>2. ~wait_for_write
    BY <1>0, <2>1 DEF ControlHandover, Issuing
  <2>3. Head(queue).kind = "memwrite"
    BY <1>0, <1>1, <2>2 DEF RaiseFlag, FlagTypeOK
  <2>4. WritesAsked = 1
    BY <2>1, <2>3 DEF JustAsked
  <2>5. OnTheWay <= 1
    BY <1>t DEF Accounted, OnTheWay
  <2>6. WritesAnswered = 0
    BY <1>t, <2>4, <2>5 DEF OnTheWay
  <2> QED
    BY <2>1, <2>4, <2>6, WayStill
<1>2. CASE ~RaiseFlag
  <2>1. wait_for_write /\ WritesAsked + WritesAnswered = 1
    BY <1>2, FlagRaised DEF WriteAckPending
  <2>2. CASE HandleAcknowledgement
    <3>1. Head(toHost).of # "memwrite"
      BY <2>1, <2>2 DEF HandleAcknowledgement
    <3> QED
      BY <1>0, <2>1, <2>2, <3>1, WayAck
  <2>3. CASE LockReadRequests
    <3>1. PICK r \in Replies : /\ r.type = "memread"
                               /\ WritesAnswered = WritesAnswered' + One(r, {Ack("memwrite")})
                               /\ UNCHANGED <<ReadsAsked, WritesAsked>>
      BY <1>0, <2>3, WayIncoming DEF LockReadRequests
    <3>2. One(r, {Ack("memwrite")}) = 0
      BY <3>1 DEF One, Ack
    <3>3. Count(toHost', {Ack("memwrite")}) \in Nat
      <4>1. toHost \in Seq(Replies) /\ toHost # <<>> /\ toHost' = Tail(toHost)
        BY <1>0, <2>3 DEF TypeOK, WireTypeOK, LockReadRequests, Incoming
      <4>2. toHost' \in Seq(Replies)
        BY <4>1, HeadTailProperties
      <4> QED
        BY <4>2, CountType
    <3>4. UNCHANGED WritesAnswered
      BY <3>1, <3>2, <3>3 DEF WritesAnswered
    <3> QED
      BY <2>1, <3>1, <3>4
  <2>4. CASE WriteLoop
    BY <1>0, <2>1, <2>4, WayWrite
  <2>5. CASE DeviceAnswer
    <3>1. PICK c \in Calls : /\ WritesAsked = WritesAsked' + One(c, MemWrites)
                             /\ WritesAnswered' = WritesAnswered + One(c, MemWrites)
      BY <1>0, <2>5, WayAnswer
    <3>2. One(c, MemWrites) \in Nat
      BY OneType
    <3>3. Count(toDevice', MemWrites) \in Nat /\ Count(m_write_queue', MemWrites) \in Nat
      <4>1. toDevice \in Seq(Calls) /\ toDevice # <<>> /\ toDevice' = Tail(toDevice)
            /\ m_write_queue' \in Seq(Calls)
        BY <1>0, <2>5 DEF TypeOK, WireTypeOK, DeviceAnswer
      <4>2. toDevice' \in Seq(Calls)
        BY <4>1, HeadTailProperties
      <4> QED
        BY <4>1, <4>2, CountType
    <3> QED
      BY <1>t, <2>1, <3>1, <3>2, <3>3 DEF WritesAsked, WritesAnswered
  <2>6. ~IssueRequest
    BY <1>0, <2>1 DEF IssueRequest, ControlHandover, Issuing
  <2> QED
    BY <2>1, <2>2, <2>3, <2>4, <2>5, <2>6, WayUnchanged
<1> QED
  BY <1>1, <1>2

\* Where every write arrives and no answer overtakes the flag, a raised wait_for_write
\* means that the acknowledgement is still to come: mem_req_loop is never left
\* waiting for one that was taken already.
THEOREM AckStillToCome ==
  ASSUME ~WritesMayFail, ~AnswersBeforeFlag
  PROVE  Spec => []WriteAckPending
<1>1. Init => JustAsked /\ WriteAckPending
  BY DEF Init, JustAsked, WriteAckPending
<1>2. IInv /\ Accounted /\ JustAsked /\ WriteAckPending /\ [Next]_vars
        => (JustAsked /\ WriteAckPending)'
  BY JustAskedStep, WriteAckStep
<1> QED
  BY <1>1, <1>2, Invariance, AccountedAlways, PTL DEF Spec

-----------------------------------------------------------------------------
(* Reads named in order.  The elements of a sequence s that are in the     *)
(* domain of e are named, one after the other, by the elements of q after  *)
(* the first n.                                                            *)

Named(q, n, s, e) ==
  \A i \in 1..Len(s) :
    s[i] \in DOMAIN e => Extent(q[n + CountTo(s, DOMAIN e, i)].addr) = e[s[i]]

LEMMA NamedAppend ==
  ASSUME NEW S, NEW s \in Seq(S), NEW c \in S, NEW e, NEW n \in Nat, NEW q,
         Named(q, n, s, e),
         c \in DOMAIN e => Extent(q[n + Count(s, DOMAIN e) + 1].addr) = e[c]
  PROVE  Named(q, n, Append(s, c), e)
<1> DEFINE t == Append(s, c)
<1>1. /\ Len(s) \in Nat /\ Len(t) = Len(s) + 1 /\ t[Len(s) + 1] = c
      /\ \A j \in 1..Len(s) : t[j] = s[j]
  BY AppendProperties, LenProperties
<1>2. /\ Count(t, DOMAIN e) = Count(s, DOMAIN e) + One(c, DOMAIN e)
      /\ \A i \in 1..Len(s) : CountTo(t, DOMAIN e, i) = CountTo(s, DOMAIN e, i)
  BY CountAppend
<1>3. Count(s, DOMAIN e) \in Nat
  BY CountType
<1> HIDE DEF t
<1>4. SUFFICES ASSUME NEW i \in 1..Len(t), t[i] \in DOMAIN e
               PROVE  Extent(q[n + CountTo(t, DOMAIN e, i)].addr) = e[t[i]]
  BY DEF Named, t
<1>5. CASE i \in 1..Len(s)
  BY <1>1, <1>2, <1>4, <1>5 DEF Named
<1>6. CASE i = Len(s) + 1
  <2>1. t[i] = c /\ One(c, DOMAIN e) = 1
    BY <1>1, <1>4, <1>6 DEF One
  <2>2. CountTo(t, DOMAIN e, i) = Count(s, DOMAIN e) + 1
    BY <1>1, <1>2, <1>6, <2>1 DEF Count
  <2>3. n + CountTo(t, DOMAIN e, i) = n + Count(s, DOMAIN e) + 1
    BY <1>3, <2>2
  <2> QED
    BY <1>4, <2>1, <2>3
<1> QED
  BY <1>1, <1>4, <1>5, <1>6

LEMMA NamedTail ==
  ASSUME NEW S, NEW s \in Seq(S), s # <<>>, NEW e, NEW n \in Nat, NEW q,
         Named(q, n, s, e)
  PROVE  /\ Named(q, n + One(Head(s), DOMAIN e), Tail(s), e)
         /\ Head(s) \in DOMAIN e => Extent(q[n + 1].addr) = e[Head(s)]
<1> DEFINE t == Tail(s)
           o == One(Head(s), DOMAIN e)
<1>1. /\ Len(s) \in Nat /\ Len(t) \in Nat /\ Len(s) = Len(t) + 1 /\ s[1] = Head(s)
      /\ \A j \in 1..Len(t) : t[j] = s[j + 1]
  BY HeadTailProperties, LenProperties, EmptySeq
<1>2. \A i \in 1..Len(t) : CountTo(s, DOMAIN e, i + 1) = CountTo(t, DOMAIN e, i) + o
  BY CountTail
<1>3. o \in Nat
  BY OneType
<1> HIDE DEF t
<1>4. ASSUME Head(s) \in DOMAIN e PROVE Extent(q[n + 1].addr) = e[Head(s)]
  <2>1. o = 1
    BY <1>4 DEF One
  <2>2. 1 \in 1..Len(s) /\ s[1] \in DOMAIN e
    BY <1>1, <1>4
  <2>3. CountTo(s, DOMAIN e, 0 + 1) = CountTo(s, DOMAIN e, 0) + One(s[0 + 1], DOMAIN e)
    BY CountToNext
  <2>4. CountTo(s, DOMAIN e, 1) = 1
    BY <1>1, <2>1, <2>3, CountToZero
  <2> QED
    BY <1>1, <2>2, <2>4 DEF Named
<1> HIDE DEF o
<1>5. ASSUME NEW i \in 1..Len(t), t[i] \in DOMAIN e
      PROVE  Extent(q[n + o + CountTo(t, DOMAIN e, i)].addr) = e[t[i]]
  <2>1. i + 1 \in 1..Len(s) /\ s[i + 1] = t[i]
    BY <1>1
  <2>2. Extent(q[n + CountTo(s, DOMAIN e, i + 1)].addr) = e[t[i]]
    BY <1>5, <2>1 DEF Named
  <2>3. n + CountTo(s, DOMAIN e, i + 1) = n + o + CountTo(t, DOMAIN e, i)
    <3>1. i \in Nat
      BY <1>1
    <3>2. CountTo(t, DOMAIN e, i) \in Nat
      BY <3>1, CountToType
    <3> QED
      BY <1>2, <1>3, <3>2
  <2> QED
    BY <2>2, <2>3
<1>6. Named(q, n + o, t, e)
  BY <1>5 DEF Named
<1> QED
  BY <1>4, <1>6 DEF t, o

LEMMA NamedKept ==
  ASSUME NEW S, NEW s \in Seq(S), NEW e, NEW n \in Nat, NEW m \in Nat, NEW p, NEW q,
         \A j \in 1..Count(s, DOMAIN e) : Extent(p[m + j].addr) = Extent(q[n + j].addr),
         Named(q, n, s, e)
  PROVE  Named(p, m, s, e)
<1>1. SUFFICES ASSUME NEW i \in 1..Len(s), s[i] \in DOMAIN e
               PROVE  Extent(p[m + CountTo(s, DOMAIN e, i)].addr) = e[s[i]]
  BY DEF Named
<1>2. Len(s) \in Nat
  BY LenProperties
<1>3. CountTo(s, DOMAIN e, i) \in 1..Count(s, DOMAIN e)
  BY <1>1, <1>2, RankBounds DEF Count
<1> QED
  BY <1>1, <1>3 DEF Named

-----------------------------------------------------------------------------
(* The entries q of read_requests, the first h of them for the report being *)
(* handled, the next ones for the reads among the reports in H, those then  *)
(* in U and those last in W.                                                *)

Entries == [addr : Addresses, got : Nat]
CallExtents   == [c \in MemReads |-> CallExtent(c)]
ReportExtents == [r \in ReadReplies |-> ReportExtent(r)]

Tracked(q, h, H, U, W) ==
  /\ Len(q) = h + Count(H, ReadReplies) + Count(U, MemReads) + Count(W, MemReads)
  /\ Named(q, h, H, ReportExtents)
  /\ Named(q, h + Count(H, ReadReplies), U, CallExtents)
  /\ Named(q, h + Count(H, ReadReplies) + Count(U, MemReads), W, CallExtents)

LEMMA ExtentDomains ==
  DOMAIN CallExtents = MemReads /\ DOMAIN ReportExtents = ReadReplies
BY DEF CallExtents, ReportExtents

\* A read is entered, and then queued.
LEMMA TrackedPush ==
  ASSUME NEW q \in Seq(Entries), NEW h \in {0, 1}, NEW H \in Seq(Replies),
         NEW U \in Seq(Calls), NEW W \in Seq(Calls), Tracked(q, h, H, U, W),
         NEW c \in MemReads
  PROVE  Tracked(Append(q, [addr |-> c.arg, got |-> 0]), h, H, U, Append(W, c))
<1> DEFINE p == Append(q, [addr |-> c.arg, got |-> 0])
           a == Count(H, ReadReplies)
           b == Count(U, MemReads)
           w == Count(W, MemReads)
<1>1. a \in Nat /\ b \in Nat /\ w \in Nat
  BY CountType
<1>2. [addr |-> c.arg, got |-> 0] \in Entries
  BY DEF MemReads, Entries
<1>3. /\ Len(p) = Len(q) + 1 /\ Len(q) \in Nat
      /\ p[Len(q) + 1] = [addr |-> c.arg, got |-> 0]
      /\ \A j \in 1..Len(q) : p[j] = q[j]
  BY <1>2, AppendProperties, LenProperties
<1>4. c \in Calls
  BY CallKinds
<1>5. Count(Append(W, c), MemReads) = w + 1
  BY <1>4, CountAppend, CallKinds
<1>6. CallExtents[c] = Extent(c.arg)
  BY DEF CallExtents, CallExtent
<1>7. /\ Len(q) = h + a + b + w
      /\ Named(q, h, H, ReportExtents)
      /\ Named(q, h + a, U, CallExtents)
      /\ Named(q, h + a + b, W, CallExtents)
  BY DEF Tracked
<1>d. Count(H, DOMAIN ReportExtents) = a /\ Count(U, DOMAIN CallExtents) = b
      /\ Count(W, DOMAIN CallExtents) = w
  BY ExtentDomains
<1> HIDE DEF p, a, b, w
<1>8. Named(p, h, H, ReportExtents)
  <2>1. \A j \in 1..a : Extent(p[h + j].addr) = Extent(q[h + j].addr)
    BY <1>1, <1>3, <1>7
  <2>2. h \in Nat
    OBVIOUS
  <2> QED
    BY <1>7, <1>d, <2>1, <2>2, NamedKept
<1>9. Named(p, h + a, U, CallExtents)
  <2>1. \A j \in 1..b : Extent(p[h + a + j].addr) = Extent(q[h + a + j].addr)
    BY <1>1, <1>3, <1>7
  <2>2. h + a \in Nat
    BY <1>1
  <2> QED
    BY <1>7, <1>d, <2>1, <2>2, NamedKept
<1>10. Named(p, h + a + b, Append(W, c), CallExtents)
  <2>1. \A j \in 1..w : Extent(p[h + a + b + j].addr) = Extent(q[h + a + b + j].addr)
    BY <1>1, <1>3, <1>7
  <2>2. h + a + b \in Nat
    BY <1>1
  <2>3. Named(p, h + a + b, W, CallExtents)
    BY <1>7, <1>d, <2>1, <2>2, NamedKept
  <2>4. Extent(p[h + a + b + Count(W, DOMAIN CallExtents) + 1].addr) = CallExtents[c]
    BY <1>1, <1>3, <1>6, <1>7, <1>d
  <2> QED
    BY <1>4, <2>2, <2>3, <2>4, NamedAppend
<1>11. Len(p) = h + a + b + Count(Append(W, c), MemReads)
  <2>1. h + a + b + (w + 1) = (h + a + b + w) + 1
    BY <1>1
  <2>2. Len(p) = (h + a + b + w) + 1
    BY <1>3, <1>7
  <2> QED
    BY <1>5, <2>1, <2>2, Zenon
<1> QED
  BY <1>8, <1>9, <1>10, <1>11 DEF Tracked, p, a, b, w

\* A write is queued, or a report that is no memory request is written.
LEMMA TrackedOther ==
  ASSUME NEW q \in Seq(Entries), NEW h \in {0, 1}, NEW H \in Seq(Replies),
         NEW U \in Seq(Calls), NEW W \in Seq(Calls), Tracked(q, h, H, U, W),
         NEW c \in Calls, c \notin MemReads
  PROVE  /\ Tracked(q, h, H, Append(U, c), W)
         /\ Tracked(q, h, H, U, Append(W, c))
<1> DEFINE a == Count(H, ReadReplies)
           b == Count(U, MemReads)
           w == Count(W, MemReads)
<1>1. a \in Nat /\ b \in Nat /\ w \in Nat /\ h \in Nat
  BY CountType
<1>2. One(c, MemReads) = 0
  BY DEF One
<1>3. Count(Append(U, c), MemReads) = b /\ Count(Append(W, c), MemReads) = w
  <2>1. /\ Count(Append(U, c), MemReads) = b + One(c, MemReads)
        /\ Count(Append(W, c), MemReads) = w + One(c, MemReads)
    BY CountAppend
  <2> HIDE DEF b, w
  <2> QED
    BY <1>1, <1>2, <2>1
<1>4. /\ Len(q) = h + a + b + w
      /\ Named(q, h, H, ReportExtents)
      /\ Named(q, h + a, U, CallExtents)
      /\ Named(q, h + a + b, W, CallExtents)
  BY DEF Tracked
<1> HIDE DEF a, b, w
<1>5. h + a \in Nat /\ h + a + b \in Nat
  BY <1>1
<1>6. c \notin DOMAIN CallExtents
  BY ExtentDomains
<1>7. Named(q, h + a, Append(U, c), CallExtents)
  BY <1>4, <1>5, <1>6, NamedAppend
<1>8. Named(q, h + a + b, Append(W, c), CallExtents)
  BY <1>4, <1>5, <1>6, NamedAppend
<1> QED
  BY <1>3, <1>4, <1>7, <1>8 DEF Tracked, a, b, w

\* The first call that waits is issued.
LEMMA TrackedIssue ==
  ASSUME NEW q \in Seq(Entries), NEW h \in {0, 1}, NEW H \in Seq(Replies),
         NEW U \in Seq(Calls), NEW W \in Seq(Calls), Tracked(q, h, H, U, W), W # <<>>
  PROVE  Tracked(q, h, H, Append(U, Head(W)), Tail(W))
<1> DEFINE a == Count(H, ReadReplies)
           b == Count(U, MemReads)
           v == Count(Tail(W), MemReads)
           c == Head(W)
           o == One(c, MemReads)
<1>1. c \in Calls /\ Tail(W) \in Seq(Calls)
  BY HeadTailProperties
<1>t. v \in Nat /\ o \in Nat
  BY <1>1, CountType, OneType, Zenon
<1>2. a \in Nat /\ b \in Nat /\ v \in Nat /\ h \in Nat /\ o \in Nat
  BY <1>t, CountType
<1>3. Count(W, MemReads) = v + o /\ Count(Append(U, c), MemReads) = b + o
  BY <1>1, CountTail, CountAppend
<1>4. /\ Len(q) = h + a + b + Count(W, MemReads)
      /\ Named(q, h, H, ReportExtents)
      /\ Named(q, h + a, U, CallExtents)
      /\ Named(q, h + a + b, W, CallExtents)
  BY DEF Tracked
<1>d. Count(U, DOMAIN CallExtents) = b /\ o = One(c, DOMAIN CallExtents)
  BY ExtentDomains
<1> HIDE DEF a, b, v, o
<1>5. h + a \in Nat /\ h + a + b \in Nat
  BY <1>2
<1>6. /\ Named(q, h + a + b + o, Tail(W), CallExtents)
      /\ c \in DOMAIN CallExtents => Extent(q[h + a + b + 1].addr) = CallExtents[c]
  BY <1>4, <1>5, <1>d, NamedTail
<1> HIDE DEF c
<1>7. Named(q, h + a, Append(U, c), CallExtents)
  BY <1>1, <1>4, <1>5, <1>6, <1>d, NamedAppend
<1>8. h + a + b + o = h + a + Count(Append(U, c), MemReads)
  BY <1>2, <1>3
<1>9. Len(q) = h + a + Count(Append(U, c), MemReads) + v
  <2>1. h + a + b + (v + o) = h + a + (b + o) + v
    BY <1>2
  <2> QED
    BY <1>3, <1>4, <2>1, Zenon
<1>10. Named(q, h + a + Count(Append(U, c), MemReads), Tail(W), CallExtents)
  BY <1>6, <1>8, Zenon
<1> QED
  BY <1>4, <1>7, <1>9, <1>10 DEF Tracked, a, v, c

\* The first call on its way is answered: a read by a read report from its address.
LEMMA TrackedAnswer ==
  ASSUME NEW q \in Seq(Entries), NEW h \in {0, 1}, NEW H \in Seq(Replies),
         NEW U \in Seq(Calls), NEW W \in Seq(Calls), Tracked(q, h, H, U, W), U # <<>>,
         NEW r \in Replies, r \in ReadReplies <=> Head(U) \in MemReads,
         Head(U) \in MemReads => ReportExtent(r) = CallExtent(Head(U))
  PROVE  Tracked(q, h, Append(H, r), Tail(U), W)
<1> DEFINE a == Count(H, ReadReplies)
           v == Count(Tail(U), MemReads)
           w == Count(W, MemReads)
           c == Head(U)
           o == One(c, MemReads)
<1>1. c \in Calls /\ Tail(U) \in Seq(Calls)
  BY HeadTailProperties
<1>t. v \in Nat /\ o \in Nat
  BY <1>1, CountType, OneType, Zenon
<1>2. a \in Nat /\ v \in Nat /\ w \in Nat /\ h \in Nat /\ o \in Nat
  BY <1>t, CountType
<1>3. Count(U, MemReads) = v + o
  BY CountTail
<1>r. One(r, ReadReplies) = o
  BY DEF One
<1>n. Count(Append(H, r), ReadReplies) = a + o
  BY <1>r, CountAppend
<1>4. /\ Len(q) = h + a + Count(U, MemReads) + w
      /\ Named(q, h, H, ReportExtents)
      /\ Named(q, h + a, U, CallExtents)
      /\ Named(q, h + a + Count(U, MemReads), W, CallExtents)
  BY DEF Tracked
<1>d. Count(H, DOMAIN ReportExtents) = a /\ o = One(c, DOMAIN CallExtents)
  BY ExtentDomains
<1> HIDE DEF a, v, w, o
<1>5. h + a \in Nat
  BY <1>2
<1>6. /\ Named(q, h + a + o, Tail(U), CallExtents)
      /\ c \in DOMAIN CallExtents => Extent(q[h + a + 1].addr) = CallExtents[c]
  BY <1>4, <1>5, <1>d, NamedTail
<1>7. r \in DOMAIN ReportExtents => Extent(q[h + a + 1].addr) = ReportExtents[r]
  <2> SUFFICES ASSUME r \in ReadReplies PROVE Extent(q[h + a + 1].addr) = ReportExtents[r]
    BY ExtentDomains
  <2>1. c \in MemReads /\ ReportExtent(r) = CallExtent(c)
    OBVIOUS
  <2>2. ReportExtents[r] = ReportExtent(r) /\ CallExtents[c] = CallExtent(c)
    BY <2>1 DEF ReportExtents, CallExtents
  <2> QED
    BY <1>6, <2>1, <2>2, ExtentDomains
<1> HIDE DEF c
<1>8. Named(q, h, Append(H, r), ReportExtents)
  BY <1>2, <1>4, <1>7, <1>d, NamedAppend
<1>9. h + a + o = h + Count(Append(H, r), ReadReplies)
  BY <1>2, <1>n
<1>10. h + a + Count(U, MemReads) = h + Count(Append(H, r), ReadReplies) + v
  <2>1. h + a + (v + o) = h + (a + o) + v
    BY <1>2
  <2> QED
    BY <1>3, <1>n, <2>1, Zenon
<1>11. /\ Len(q) = h + Count(Append(H, r), ReadReplies) + v + w
       /\ Named(q, h + Count(Append(H, r), ReadReplies), Tail(U), CallExtents)
       /\ Named(q, h + Count(Append(H, r), ReadReplies) + v, W, CallExtents)
  BY <1>4, <1>6, <1>9, <1>10, Zenon
<1> QED
  BY <1>8, <1>11 DEF Tracked, v, w

\* The first call on its way is no read, and gets no answer.
LEMMA TrackedNoAnswer ==
  ASSUME NEW q \in Seq(Entries), NEW h \in {0, 1}, NEW H \in Seq(Replies),
         NEW U \in Seq(Calls), NEW W \in Seq(Calls), Tracked(q, h, H, U, W), U # <<>>,
         Head(U) \notin MemReads
  PROVE  Tracked(q, h, H, Tail(U), W)
<1> DEFINE a == Count(H, ReadReplies)
           v == Count(Tail(U), MemReads)
<1>1. Tail(U) \in Seq(Calls)
  BY HeadTailProperties
<1>t. v \in Nat
  BY <1>1, CountType, Zenon
<1>2. a \in Nat /\ v \in Nat /\ h \in Nat
  BY <1>t, CountType
<1>3. Count(U, MemReads) = v + One(Head(U), MemReads)
  BY CountTail
<1>4. One(Head(U), MemReads) = 0
  BY DEF One
<1>5. One(Head(U), DOMAIN CallExtents) = 0
  BY <1>4, ExtentDomains
<1>6. /\ Named(q, h + a, U, CallExtents) /\ h + a \in Nat
  BY <1>2 DEF Tracked
<1> HIDE DEF a, v
<1>7. Named(q, h + a + One(Head(U), DOMAIN CallExtents), Tail(U), CallExtents)
  BY <1>6, NamedTail
<1>8. h + a + One(Head(U), DOMAIN CallExtents) = h + a
  BY <1>2, <1>5
<1>9. Named(q, h + a, Tail(U), CallExtents)
  BY <1>7, <1>8, Zenon
<1>10. Count(U, MemReads) = v
  BY <1>2, <1>3, <1>4
<1> QED
  BY <1>9, <1>10, Zenon DEF Tracked, a, v

\* The controller sends a report that is no answer to a read.
LEMMA TrackedStatus ==
  ASSUME NEW q \in Seq(Entries), NEW h \in {0, 1}, NEW H \in Seq(Replies),
         NEW U \in Seq(Calls), NEW W \in Seq(Calls), Tracked(q, h, H, U, W),
         NEW r \in Replies, r \notin ReadReplies
  PROVE  Tracked(q, h, Append(H, r), U, W)
<1> DEFINE a == Count(H, ReadReplies)
<1>1. a \in Nat /\ h \in Nat
  BY CountType
<1>2. One(r, ReadReplies) = 0 /\ r \notin DOMAIN ReportExtents
  BY ExtentDomains DEF One
<1>3. Count(Append(H, r), ReadReplies) = a + One(r, ReadReplies)
  BY CountAppend
<1>4. Named(q, h, H, ReportExtents)
  BY DEF Tracked
<1>5. Named(q, h, Append(H, r), ReportExtents)
  BY <1>1, <1>2, <1>4, NamedAppend
<1> HIDE DEF a
<1>6. Count(Append(H, r), ReadReplies) = a
  BY <1>1, <1>2, <1>3
<1> QED
  BY <1>5, <1>6, Zenon DEF Tracked, a

\* The read thread takes a report that is no answer to a read.
LEMMA TrackedDrop ==
  ASSUME NEW q \in Seq(Entries), NEW h \in {0, 1}, NEW H \in Seq(Replies),
         NEW U \in Seq(Calls), NEW W \in Seq(Calls), Tracked(q, h, H, U, W),
         H # <<>>, Head(H) \notin ReadReplies
  PROVE  Tracked(q, h, Tail(H), U, W)
<1> DEFINE a == Count(Tail(H), ReadReplies)
<1>1. Tail(H) \in Seq(Replies) /\ h \in Nat
  BY HeadTailProperties
<1>2. a \in Nat
  BY <1>1, CountType, Zenon
<1>3. One(Head(H), ReadReplies) = 0 /\ One(Head(H), DOMAIN ReportExtents) = 0
  BY ExtentDomains DEF One
<1>4. Count(H, ReadReplies) = a + One(Head(H), ReadReplies)
  BY CountTail
<1>5. Named(q, h, H, ReportExtents)
  BY DEF Tracked
<1>6. Named(q, h + One(Head(H), DOMAIN ReportExtents), Tail(H), ReportExtents)
  BY <1>1, <1>5, NamedTail
<1>7. h + One(Head(H), DOMAIN ReportExtents) = h
  BY <1>1, <1>3
<1>8. Named(q, h, Tail(H), ReportExtents)
  BY <1>6, <1>7, Zenon
<1> HIDE DEF a
<1>9. Count(H, ReadReplies) = a
  BY <1>2, <1>3, <1>4
<1> QED
  BY <1>8, <1>9, Zenon DEF Tracked, a

\* The read thread takes a read report: the front entry is for it.
LEMMA TrackedTake ==
  ASSUME NEW q \in Seq(Entries), NEW H \in Seq(Replies), NEW U \in Seq(Calls),
         NEW W \in Seq(Calls), Tracked(q, 0, H, U, W), H # <<>>, Head(H) \in ReadReplies
  PROVE  /\ Tracked(q, 1, Tail(H), U, W)
         /\ Extent(q[1].addr) = ReportExtent(Head(H))
<1> DEFINE a == Count(Tail(H), ReadReplies)
           b == Count(U, MemReads)
           w == Count(W, MemReads)
<1>1. Tail(H) \in Seq(Replies)
  BY HeadTailProperties
<1>t. a \in Nat
  BY <1>1, CountType, Zenon
<1>2. a \in Nat /\ b \in Nat /\ w \in Nat
  BY <1>t, CountType
<1>3. One(Head(H), ReadReplies) = 1 /\ One(Head(H), DOMAIN ReportExtents) = 1
  BY ExtentDomains DEF One
<1>4. Count(H, ReadReplies) = a + One(Head(H), ReadReplies)
  BY CountTail
<1>5. /\ Len(q) = 0 + Count(H, ReadReplies) + b + w
      /\ Named(q, 0, H, ReportExtents)
      /\ Named(q, 0 + Count(H, ReadReplies), U, CallExtents)
      /\ Named(q, 0 + Count(H, ReadReplies) + b, W, CallExtents)
  BY DEF Tracked
<1>6. /\ Named(q, 0 + One(Head(H), DOMAIN ReportExtents), Tail(H), ReportExtents)
      /\ Extent(q[0 + 1].addr) = ReportExtents[Head(H)]
  BY <1>5, ExtentDomains, NamedTail
<1>7. Extent(q[1].addr) = ReportExtent(Head(H))
  BY <1>6 DEF ReportExtents
<1> HIDE DEF a, b, w
<1>8. Named(q, 1, Tail(H), ReportExtents)
  BY <1>3, <1>6
<1>9. 0 + Count(H, ReadReplies) = 1 + a
  BY <1>2, <1>3, <1>4
<1>10. /\ Len(q) = 1 + a + b + w
       /\ Named(q, 1 + a, U, CallExtents)
       /\ Named(q, 1 + a + b, W, CallExtents)
  BY <1>5, <1>9, Zenon
<1> QED
  BY <1>7, <1>8, <1>10 DEF Tracked, a, b, w

\* The front entry is dropped with the report it was for.
LEMMA TrackedPop ==
  ASSUME NEW q \in Seq(Entries), NEW H \in Seq(Replies), NEW U \in Seq(Calls),
         NEW W \in Seq(Calls), Tracked(q, 1, H, U, W)
  PROVE  q # <<>> /\ Tracked(Tail(q), 0, H, U, W)
<1> DEFINE p == Tail(q)
           a == Count(H, ReadReplies)
           b == Count(U, MemReads)
           w == Count(W, MemReads)
<1>2. a \in Nat /\ b \in Nat /\ w \in Nat
  BY CountType
<1>3. /\ Len(q) = 1 + a + b + w
      /\ Named(q, 1, H, ReportExtents)
      /\ Named(q, 1 + a, U, CallExtents)
      /\ Named(q, 1 + a + b, W, CallExtents)
  BY DEF Tracked
<1>d. Count(H, DOMAIN ReportExtents) = a /\ Count(U, DOMAIN CallExtents) = b
      /\ Count(W, DOMAIN CallExtents) = w
  BY ExtentDomains
<1> HIDE DEF a, b, w
<1>4. q # <<>>
  <2>1. Len(q) # 0
    BY <1>2, <1>3
  <2> QED
    BY <2>1, EmptySeq
<1>5. Len(q) \in Nat /\ Len(p) = Len(q) - 1 /\ \A j \in 1..Len(p) : p[j] = q[j + 1]
  BY <1>4, HeadTailProperties, LenProperties
<1> HIDE DEF p
<1>l. Len(p) = a + b + w
  BY <1>2, <1>3, <1>5
<1>6. Named(p, 0, H, ReportExtents)
  <2>1. \A j \in 1..a : Extent(p[0 + j].addr) = Extent(q[1 + j].addr)
    <3> SUFFICES ASSUME NEW j \in 1..a PROVE p[0 + j] = q[1 + j]
      OBVIOUS
    <3>1. j \in 1..Len(p) /\ 0 + j = j /\ 1 + j = j + 1
      BY <1>2, <1>l
    <3> QED
      BY <1>5, <3>1
  <2> QED
    BY <1>3, <1>d, <2>1, NamedKept
<1>7. Named(p, a, U, CallExtents)
  <2>1. \A j \in 1..b : Extent(p[a + j].addr) = Extent(q[1 + a + j].addr)
    <3> SUFFICES ASSUME NEW j \in 1..b PROVE p[a + j] = q[1 + a + j]
      OBVIOUS
    <3>1. a + j \in 1..Len(p) /\ 1 + a + j = (a + j) + 1
      BY <1>2, <1>l
    <3> QED
      BY <1>5, <3>1
  <2>2. 1 + a \in Nat
    BY <1>2
  <2> QED
    BY <1>2, <1>3, <1>d, <2>1, <2>2, NamedKept
<1>8. Named(p, a + b, W, CallExtents)
  <2>1. \A j \in 1..w : Extent(p[a + b + j].addr) = Extent(q[1 + a + b + j].addr)
    <3> SUFFICES ASSUME NEW j \in 1..w PROVE p[a + b + j] = q[1 + a + b + j]
      OBVIOUS
    <3>1. a + b + j \in 1..Len(p) /\ 1 + a + b + j = (a + b + j) + 1
      BY <1>2, <1>l
    <3> QED
      BY <1>5, <3>1
  <2>2. 1 + a + b \in Nat /\ a + b \in Nat
    BY <1>2
  <2>3. \A j \in 1..Count(W, DOMAIN CallExtents) :
          Extent(p[a + b + j].addr) = Extent(q[1 + a + b + j].addr)
    BY <1>d, <2>1, Zenon
  <2> DEFINE n == 1 + a + b
             m == a + b
  <2>4. n \in Nat /\ m \in Nat /\ Named(q, n, W, CallExtents)
    BY <1>3, <2>2
  <2>5. \A j \in 1..Count(W, DOMAIN CallExtents) :
          Extent(p[m + j].addr) = Extent(q[n + j].addr)
    BY <2>3
  <2> HIDE DEF n, m
  <2>6. Named(p, m, W, CallExtents)
    BY <2>4, <2>5, NamedKept
  <2> QED
    BY <2>6 DEF m
<1>9. 0 + a = a
  BY <1>2
<1>10. /\ Len(p) = 0 + a + b + w
       /\ Named(p, 0 + a, U, CallExtents)
       /\ Named(p, 0 + a + b, W, CallExtents)
  BY <1>7, <1>8, <1>9, <1>l, Zenon
<1> QED
  BY <1>4, <1>6, <1>10 DEF Tracked, p, a, b, w

\* What has been received does not matter.
LEMMA TrackedAmend ==
  ASSUME NEW q \in Seq(Entries), NEW p \in Seq(Entries), NEW h \in {0, 1},
         NEW H \in Seq(Replies), NEW U \in Seq(Calls), NEW W \in Seq(Calls),
         Tracked(q, h, H, U, W),
         Len(p) = Len(q), \A j \in 1..Len(q) : p[j].addr = q[j].addr
  PROVE  Tracked(p, h, H, U, W)
<1> DEFINE a == Count(H, ReadReplies)
           b == Count(U, MemReads)
           w == Count(W, MemReads)
<1>1. a \in Nat /\ b \in Nat /\ w \in Nat /\ h \in Nat /\ Len(q) \in Nat
  BY CountType, LenProperties
<1>2. /\ Len(q) = h + a + b + w
      /\ Named(q, h, H, ReportExtents)
      /\ Named(q, h + a, U, CallExtents)
      /\ Named(q, h + a + b, W, CallExtents)
  BY DEF Tracked
<1>d. Count(H, DOMAIN ReportExtents) = a /\ Count(U, DOMAIN CallExtents) = b
      /\ Count(W, DOMAIN CallExtents) = w
  BY ExtentDomains
<1> HIDE DEF a, b, w
<1>3. Named(p, h, H, ReportExtents)
  <2>1. ASSUME NEW j \in 1..a PROVE Extent(p[h + j].addr) = Extent(q[h + j].addr)
    <3>1. h + j \in 1..Len(q)
      BY <1>1, <1>2
    <3>2. p[h + j].addr = q[h + j].addr
      BY <3>1
    <3> QED
      BY <3>2
  <2> QED
    BY <1>1, <1>2, <1>d, <2>1, NamedKept
<1>4. Named(p, h + a, U, CallExtents)
  <2>1. ASSUME NEW j \in 1..b PROVE Extent(p[h + a + j].addr) = Extent(q[h + a + j].addr)
    <3>1. h + a + j \in 1..Len(q)
      BY <1>1, <1>2
    <3>2. p[h + a + j].addr = q[h + a + j].addr
      BY <3>1
    <3> QED
      BY <3>2
  <2>2. h + a \in Nat
    BY <1>1
  <2> QED
    BY <1>2, <1>d, <2>1, <2>2, NamedKept
<1>5. Named(p, h + a + b, W, CallExtents)
  <2>1. ASSUME NEW j \in 1..w PROVE Extent(p[h + a + b + j].addr) = Extent(q[h + a + b + j].addr)
    <3>1. h + a + b + j \in 1..Len(q)
      BY <1>1, <1>2
    <3>2. p[h + a + b + j].addr = q[h + a + b + j].addr
      BY <3>1
    <3> QED
      BY <3>2
  <2>2. h + a + b \in Nat
    BY <1>1
  <2> QED
    BY <1>2, <1>d, <2>1, <2>2, NamedKept
<1> QED
  BY <1>2, <1>3, <1>4, <1>5, Zenon DEF Tracked, a, b, w

-----------------------------------------------------------------------------
(* read_requests and what is on its way. *)

Handled == IF Handling THEN 1 ELSE 0

Flow == Tracked(read_requests, Handled, toHost, Outgoing, Waiting)

\* While init makes its calls the controller has not answered and the read thread
\* has nothing to do.
Phase == todo["main"] # <<>> => toHost = <<>> /\ pc["reader"] = "read"

\* The report being handled is for the front entry.
FrontMatches == Handling => Extent(read_requests[1].addr) = ReportExtent(report)

\* Only an entry whose read is complete has received anything.
FreshEntries ==
  \A i \in 1..Len(read_requests) :
    read_requests[i].got = 0 \/ (i = 1 /\ pc["reader"] \in {"lower", "read_unlock", "pop"})

TrackInv == Phase /\ Flow /\ FrontMatches /\ FreshEntries

LEMMA FlowTypes ==
  ASSUME IInv
  PROVE  /\ read_requests \in Seq(Entries) /\ toHost \in Seq(Replies)
         /\ queue \in Seq(Calls) /\ toDevice \in Seq(Calls) /\ m_write_queue \in Seq(Calls)
         /\ Outgoing \in Seq(Calls) /\ Unissued \in Seq(Calls)
         /\ Entering \in Seq(Calls) /\ Waiting \in Seq(Calls)
         /\ Handled \in {0, 1}
<1>1. /\ read_requests \in Seq(Entries) /\ toHost \in Seq(Replies)
      /\ toDevice \in Seq(Calls) /\ m_write_queue \in Seq(Calls)
      /\ queue \in Seq(MemWrites \cup MemReads)
  BY DEF IInv, TypeOK, CallTypeOK, WireTypeOK, Entries
<1>2. queue \in Seq(Calls)
  <2>1. MemWrites \cup MemReads \subseteq Calls
    BY DEF Calls
  <2> QED
    BY <1>1, <2>1, SeqMonotonic
<1>3. Outgoing \in Seq(Calls)
  BY <1>1, ConcatProperties DEF Outgoing
<1>4. Unissued \in Seq(Calls)
  <2>1. pc["memreq"] \in {"flag", "pop"} => queue # <<>>
    BY DEF IInv, FrontPresent
  <2> QED
    BY <1>2, <2>1, HeadTailProperties DEF Unissued
<1>5. Entering \in Seq(Calls)
  <2>1. \A t \in Callers : pc[t] = "enqueue" => Head(todo[t]) \in Calls
    BY CallKinds DEF IInv, FrontPresent
  <2>2. <<>> \in Seq(Calls) /\ \A c \in Calls : <<c>> \in Seq(Calls)
    OBVIOUS
  <2> QED
    BY <2>1, <2>2 DEF Entering, Callers
<1>6. Waiting \in Seq(Calls)
  BY <1>4, <1>5, ConcatProperties DEF Waiting
<1> QED
  BY <1>1, <1>2, <1>3, <1>4, <1>5, <1>6 DEF Handled

\* The invariant says what ReadsTracked says.
LEMMA TrackImplies ==
  ASSUME IInv, TrackInv
  PROVE  ReadsTracked
<1> DEFINE a == Count(toHost, ReadReplies)
           b == Count(Outgoing, MemReads)
           w == Count(Waiting, MemReads)
<1>1. a \in Nat /\ b \in Nat /\ w \in Nat /\ Handled \in Nat
  BY FlowTypes, CountType
<1>2. /\ Len(read_requests) = Handled + a + b + w
      /\ Named(read_requests, Handled, toHost, ReportExtents)
      /\ Named(read_requests, Handled + a, Outgoing, CallExtents)
      /\ Named(read_requests, Handled + a + b, Waiting, CallExtents)
  BY DEF TrackInv, Flow, Tracked
<1>3. NamesReports(Handled, toHost)
  BY <1>2, ExtentDomains DEF NamesReports, Named, ReportExtents
<1>4. \A n, calls : Named(read_requests, n, calls, CallExtents) => NamesCalls(n, calls)
  BY ExtentDomains DEF NamesCalls, Named, CallExtents
<1>5. Handling => Extent(Head(read_requests).addr) = ReportExtent(report)
  <2> SUFFICES ASSUME Handling
               PROVE  Extent(Head(read_requests).addr) = ReportExtent(report)
    OBVIOUS
  <2>1. read_requests \in Seq(Entries) /\ Len(read_requests) # 0
    BY <1>1, <1>2, FlowTypes DEF Handled
  <2>2. Head(read_requests) = read_requests[1]
    BY <2>1
  <2> QED
    BY <2>2 DEF TrackInv, FrontMatches
<1> QED
  BY <1>2, <1>3, <1>4, <1>5 DEF ReadsTracked, Handled, ReadsAnswered

LEMMA FlowIs ==
  ASSUME NEW q, NEW h, NEW H, NEW U, NEW W, Tracked(q, h, H, U, W),
         read_requests' = q, Handled' = h, toHost' = H, Outgoing' = U, Waiting' = W
  PROVE  Flow'
BY DEF Flow

LEMMA TrackInit == Init => TrackInv
<1> SUFFICES ASSUME Init PROVE TrackInv
  OBVIOUS
<1>1. Phase
  BY DEF Init, Phase
<1>2. /\ read_requests = <<>> /\ toHost = <<>> /\ toDevice = <<>> /\ m_write_queue = <<>>
      /\ queue = <<>> /\ pc["reader"] = "read" /\ pc["main"] = "call" /\ pc["memreq"] = "idle"
  BY DEF Init
<1>3. Outgoing = <<>> /\ Waiting = <<>> /\ Handled = 0 /\ ~Handling
  BY <1>2 DEF Outgoing, Waiting, Unissued, Entering, Handled, Handling, Matching
<1>4. \A q, n, e : Named(q, n, <<>>, e)
  BY DEF Named
<1>5. Tracked(<<>>, 0, <<>>, <<>>, <<>>)
  BY <1>4, CountEmpty DEF Tracked
<1> QED
  BY <1>1, <1>2, <1>3, <1>5 DEF TrackInv, Flow, FrontMatches, FreshEntries

-----------------------------------------------------------------------------
(* The steps of a caller. *)

LEMMA AppendRight ==
  ASSUME NEW S, NEW s \in Seq(S), NEW t \in Seq(S), NEW c \in S
  PROVE  s \o Append(t, c) = Append(s \o t, c)
<1>1. <<c>> \in Seq(S) /\ s \o t \in Seq(S)
  BY ConcatProperties
<1>2. Append(t, c) = t \o <<c>> /\ Append(s \o t, c) = (s \o t) \o <<c>>
  BY <1>1, AppendIsConcat
<1> QED
  BY <1>1, <1>2, ConcatAssociative

\* A caller that makes calls is the only one, and no report is being handled.
LEMMA CallAlone ==
  ASSUME IInv, Phase, NEW t \in Callers, Call(t)
  PROVE  /\ todo[t] # <<>>
         /\ ~Handling /\ ~Handling' /\ Handled = 0 /\ Handled' = 0
         /\ Entering = IF pc[t] = "enqueue" THEN <<Head(todo[t])>> ELSE <<>>
         /\ Entering' = IF pc'[t] = "enqueue" THEN <<Head(todo'[t])>> ELSE <<>>
<1>0. PcTypeOK /\ FrontPresent
  BY DEF IInv, TypeOK
<1>1. todo[t] # <<>>
  BY <1>0 DEF Call, CallReport, CallMemWrite, CallMemRead, PushReadRequest, EnqueueRead,
              NextCall, FrontPresent
<1>2. /\ pc'["memreq"] = pc["memreq"]
      /\ \A u \in Callers \ {t} : pc'[u] = pc[u]
      /\ pc[t] \in {"call", "push", "enqueue"} /\ pc'[t] \in {"call", "push", "enqueue"}
  BY <1>0, CallPlaces
<1>3. CASE t = "main"
  <2>1. pc["reader"] = "read" /\ pc'["reader"] = "read"
    BY <1>1, <1>2, <1>3 DEF Phase, Callers
  <2> QED
    BY <1>1, <1>3, <2>1 DEF Handling, Handled, Matching, Entering
<1>4. CASE t = "reader"
  <2>1. todo["main"] = <<>>
    BY <1>2, <1>4 DEF Phase
  <2>2. pc["main"] # "enqueue" /\ pc'["main"] = pc["main"]
    BY <1>0, <1>2, <1>4, <2>1 DEF FrontPresent, Callers
  <2> QED
    BY <1>1, <1>2, <1>4, <2>2 DEF Handling, Handled, Matching, Entering
<1> QED
  BY <1>3, <1>4 DEF Callers

LEMMA CallFlow ==
  ASSUME IInv, Phase, Flow, NEW t \in Callers, Call(t)
  PROVE  Flow'
<1>0. PcTypeOK /\ CallTypeOK /\ FrontPresent
  BY DEF IInv, TypeOK
<1>1. /\ todo[t] # <<>> /\ Handled = 0 /\ Handled' = 0
      /\ Entering = IF pc[t] = "enqueue" THEN <<Head(todo[t])>> ELSE <<>>
      /\ Entering' = IF pc'[t] = "enqueue" THEN <<Head(todo'[t])>> ELSE <<>>
  BY CallAlone
<1>2. pc'["memreq"] = pc["memreq"] /\ UNCHANGED <<toDevice, toHost>>
  BY <1>0, CallPlaces
<1>3. Tracked(read_requests, 0, toHost, Outgoing, Waiting)
  BY <1>1 DEF Flow
<1>4. /\ read_requests \in Seq(Entries) /\ toHost \in Seq(Replies)
      /\ queue \in Seq(Calls) /\ toDevice \in Seq(Calls) /\ m_write_queue \in Seq(Calls)
      /\ Outgoing \in Seq(Calls) /\ Unissued \in Seq(Calls) /\ Waiting \in Seq(Calls)
  BY FlowTypes
<1>5. Head(todo[t]) \in Calls
  BY <1>0, <1>1, CallDoneType
<1>p. pc \in [Threads -> CallerPc \cup ReaderPc \cup MemReqPc] /\ t \in Threads
  BY <1>0 DEF PcTypeOK, Threads
<1>6. CASE CallReport(t)
  <2> DEFINE c == Head(todo[t])
  <2>1. c.kind = "report" /\ pc[t] = "call" /\ m_write_queue' = Append(m_write_queue, c)
        /\ UNCHANGED <<pc, queue, read_requests>>
    BY <1>6 DEF CallReport, NextCall
  <2>2. c \notin MemReads
    BY <2>1 DEF MemReads
  <2>3. Waiting' = Waiting
    BY <1>1, <2>1 DEF Waiting, Unissued
  <2>4. Outgoing' = Append(Outgoing, c)
    BY <1>2, <1>4, <1>5, <2>1, AppendRight DEF Outgoing
  <2> HIDE DEF c
  <2>5. Tracked(read_requests, 0, toHost, Append(Outgoing, c), Waiting)
    BY <1>3, <1>4, <1>5, <2>2, TrackedOther DEF c
  <2> QED
    BY <1>1, <1>2, <2>1, <2>3, <2>4, <2>5, FlowIs
<1>7. CASE CallMemWrite(t)
  <2> DEFINE c == Head(todo[t])
  <2>1. c.kind = "memwrite" /\ pc[t] = "call" /\ queue' = Append(queue, c)
        /\ ElementMutexFree /\ UNCHANGED <<pc, m_write_queue, read_requests>>
    BY <1>7 DEF CallMemWrite, NextCall, wireVars
  <2>2. c \notin MemReads
    BY <2>1 DEF MemReads
  <2>3. Unissued = queue /\ Unissued' = queue' /\ Entering = <<>> /\ Entering' = <<>>
    BY <1>1, <2>1 DEF Unissued, ElementMutexFree
  <2>4. Append(queue, c) \in Seq(Calls)
    BY <1>4, <1>5, AppendProperties
  <2>5. Waiting = queue /\ Waiting' = Append(Waiting, c)
    BY <1>4, <2>1, <2>3, <2>4, ConcatEmptySeq DEF Waiting
  <2>6. Outgoing' = Outgoing
    BY <1>2, <2>1 DEF Outgoing
  <2> HIDE DEF c
  <2>7. Tracked(read_requests, 0, toHost, Outgoing, Append(Waiting, c))
    BY <1>3, <1>4, <1>5, <2>2, TrackedOther DEF c
  <2> QED
    BY <1>1, <1>2, <2>1, <2>5, <2>6, <2>7, FlowIs
<1>8. CASE CallMemRead(t)
  <2>1. pc[t] = "call" /\ pc'[t] = "push"
        /\ UNCHANGED <<queue, m_write_queue, read_requests>>
    BY <1>p, <1>8 DEF CallMemRead, NextCall, Goto, wireVars
  <2>2. Waiting' = Waiting
    BY <1>1, <1>2, <2>1 DEF Waiting, Unissued
  <2>3. Outgoing' = Outgoing
    BY <1>2, <2>1 DEF Outgoing
  <2> QED
    BY <1>1, <1>2, <1>3, <2>1, <2>2, <2>3, FlowIs
<1>9. CASE PushReadRequest(t)
  <2> DEFINE c == Head(todo[t])
  <2>1. /\ pc[t] = "push" /\ pc'[t] = "enqueue" /\ UNCHANGED <<queue, m_write_queue, todo>>
        /\ read_requests' = Append(read_requests, [addr |-> c.arg, got |-> 0])
    BY <1>p, <1>9 DEF PushReadRequest, Goto, wireVars
  <2>2. c \in MemReads
    BY <1>0, <2>1 DEF FrontPresent
  <2>3. Unissued' = Unissued /\ Entering = <<>> /\ Entering' = <<c>>
    BY <1>1, <1>2, <2>1 DEF Unissued
  <2>4. Waiting = Unissued
    BY <1>4, <2>3, ConcatEmptySeq DEF Waiting
  <2>5. Waiting' = Append(Waiting, c)
    BY <1>4, <1>5, <2>3, <2>4, AppendIsConcat DEF Waiting
  <2>6. Outgoing' = Outgoing
    BY <1>2, <2>1 DEF Outgoing
  <2> HIDE DEF c
  <2>7. Tracked(Append(read_requests, [addr |-> c.arg, got |-> 0]), 0, toHost, Outgoing,
                Append(Waiting, c))
    BY <1>3, <1>4, <2>2, TrackedPush
  <2> QED
    BY <1>1, <1>2, <2>1, <2>5, <2>6, <2>7, FlowIs
<1>10. CASE EnqueueRead(t)
  <2> DEFINE c == Head(todo[t])
  <2>1. /\ pc[t] = "enqueue" /\ pc'[t] = "call" /\ UNCHANGED <<m_write_queue, read_requests>>
        /\ queue' = Append(queue, c) /\ ElementMutexFree
    BY <1>p, <1>10 DEF EnqueueRead, Goto, wireVars
  <2>2. Unissued = queue /\ Unissued' = queue' /\ Entering = <<c>> /\ Entering' = <<>>
    BY <1>1, <1>2, <2>1 DEF Unissued, ElementMutexFree
  <2>3. Append(queue, c) \in Seq(Calls)
    BY <1>4, <1>5, AppendProperties
  <2>4. Waiting = Append(queue, c)
    BY <1>4, <1>5, <2>2, AppendIsConcat DEF Waiting
  <2>5. Waiting' = Append(queue, c)
    BY <2>1, <2>2, <2>3, ConcatEmptySeq DEF Waiting
  <2>6. Outgoing' = Outgoing
    BY <1>2, <2>1 DEF Outgoing
  <2> QED
    BY <1>1, <1>2, <1>3, <2>1, <2>4, <2>5, <2>6, FlowIs
<1> QED
  BY <1>6, <1>7, <1>8, <1>9, <1>10 DEF Call

-----------------------------------------------------------------------------
(* The steps of the read thread that make no call. *)

ReaderStep ==
  \/ HandleStatus \/ HandleAcknowledgement \/ AckUnlock \/ LockReadRequests
  \/ IgnoreReport \/ AcceptError \/ AcceptData \/ LowerReadFlag \/ ReadUnlock
  \/ PopReadRequest \/ Return

\* init is over, and what waits and what goes out stays as it is.
LEMMA ReaderStill ==
  ASSUME IInv, Phase, ReaderStep
  PROVE  /\ todo["main"] = <<>> /\ todo'["main"] = <<>>
         /\ Waiting' = Waiting /\ Outgoing' = Outgoing
<1>0. PcTypeOK /\ CallTypeOK /\ FrontPresent
  BY DEF IInv, TypeOK
<1> USE DEF Goto, PcTypeOK, Threads, Callers
<1>1. todo["main"] = <<>>
  <2>1. pc["reader"] # "read" \/ toHost # <<>>
    BY DEF ReaderStep, HandleStatus, HandleAcknowledgement, AckUnlock, LockReadRequests,
           IgnoreReport, AcceptError, AcceptData, LowerReadFlag, ReadUnlock, PopReadRequest,
           Return, Incoming
  <2> QED
    BY <2>1 DEF Phase
<1>2. todo'["main"] = todo["main"]
  <2>1. \A d : Decide(d) => todo'["main"] = todo["main"]
    BY <1>0 DEF Decide, CallTypeOK
  <2>2. CASE HandleStatus
    BY <2>1, <2>2 DEF HandleStatus
  <2>3. CASE PopReadRequest
    BY <2>1, <2>3 DEF PopReadRequest
  <2>4. CASE UNCHANGED todo
    BY <2>4
  <2> QED
    BY <2>2, <2>3, <2>4
    DEF ReaderStep, HandleAcknowledgement, AckUnlock, LockReadRequests,
        IgnoreReport, AcceptError, AcceptData, LowerReadFlag, ReadUnlock, Return, callVars
<1>3. pc["main"] # "enqueue"
  BY <1>0, <1>1 DEF FrontPresent
<1>4. /\ pc'["main"] = pc["main"] /\ pc'["memreq"] = pc["memreq"]
      /\ pc["reader"] # "enqueue" /\ pc'["reader"] # "enqueue"
  BY <1>0
  DEF ReaderStep, HandleStatus, HandleAcknowledgement, AckUnlock, LockReadRequests,
      IgnoreReport, AcceptError, AcceptData, LowerReadFlag, ReadUnlock, PopReadRequest,
      Return, Incoming
<1>5. UNCHANGED <<queue, toDevice, m_write_queue>>
  BY DEF ReaderStep, HandleStatus, HandleAcknowledgement, AckUnlock, LockReadRequests,
         IgnoreReport, AcceptError, AcceptData, LowerReadFlag, ReadUnlock, PopReadRequest,
         Return, callVars, wireVars
<1>6. Entering = <<>> /\ Entering' = <<>>
  BY <1>3, <1>4 DEF Entering
<1>7. Unissued' = Unissued
  BY <1>4, <1>5 DEF Unissued
<1> QED
  BY <1>1, <1>2, <1>5, <1>6, <1>7 DEF Waiting, Outgoing

\* A read report that is being matched is for the front entry, and completes it.
LEMMA ReportMatches ==
  ASSUME IInv, TrackInv, pc["reader"] = "match"
  PROVE  /\ read_requests # <<>> /\ read_requests[1] = Head(read_requests)
         /\ Expected
         /\ Head(read_requests).got + report.size = ReadSize[Head(read_requests).addr]
<1>1. Handling /\ Handled = 1
  BY DEF Handling, Matching, Handled
<1>2. read_requests \in Seq(Entries) /\ toHost \in Seq(Replies)
      /\ Outgoing \in Seq(Calls) /\ Waiting \in Seq(Calls)
  BY FlowTypes
<1>3. Tracked(read_requests, 1, toHost, Outgoing, Waiting)
  BY <1>1 DEF TrackInv, Flow
<1>4. read_requests # <<>>
  BY <1>2, <1>3, TrackedPop
<1>5. Head(read_requests) = read_requests[1] /\ Head(read_requests) \in Entries
      /\ 1 \in 1..Len(read_requests)
  BY <1>2, <1>4, HeadTailProperties
<1>6. read_requests[1].got = 0
  BY <1>5 DEF TrackInv, FreshEntries
<1>7. Extent(read_requests[1].addr) = ReportExtent(report)
  BY <1>1 DEF TrackInv, FrontMatches
<1> DEFINE adr == read_requests[1].addr
<1>8. LowBytes[adr] = report.low /\ ReadSize[adr] = report.size
  BY <1>7 DEF Extent, ReportExtent
<1>9. adr \in Addresses
  BY <1>5 DEF Entries
<1> HIDE DEF adr
<1>10. (LowBytes[adr] + 0) % 65536 = LowBytes[adr]
  <2>1. LowBytes[adr] \in {250, 22, 32, 54}
    BY <1>9, AddressNames DEF LowBytes
  <2> DEFINE n == LowBytes[adr]
  <2> HIDE DEF n
  <2>2. n \in {250, 22, 32, 54}
    BY <2>1 DEF n
  <2>3. (n + 0) % 65536 = n
    BY <2>2
  <2> QED
    BY <2>3 DEF n
<1>11. 0 + ReadSize[adr] = ReadSize[adr]
  <2>1. ReadSize[adr] \in {6, 10, 16}
    BY <1>9, AddressNames DEF ReadSize
  <2> DEFINE n == ReadSize[adr]
  <2> HIDE DEF n
  <2>2. n \in {6, 10, 16}
    BY <2>1 DEF n
  <2>3. 0 + n = n
    BY <2>2
  <2> QED
    BY <2>3 DEF n
<1> QED
  BY <1>4, <1>5, <1>6, <1>8, <1>10, <1>11 DEF Expected, ExpectedLow, adr

LEMMA ReaderFlow ==
  ASSUME IInv, TrackInv, ReaderStep
  PROVE  TrackInv'
<1>0. PcTypeOK /\ CallTypeOK /\ FrontPresent /\ Phase /\ Flow /\ FrontMatches /\ FreshEntries
  BY DEF IInv, TypeOK, TrackInv
<1>1. /\ todo'["main"] = <<>> /\ Waiting' = Waiting /\ Outgoing' = Outgoing
  BY <1>0, ReaderStill
<1>2. Phase'
  BY <1>1 DEF Phase
<1>3. /\ read_requests \in Seq(Entries) /\ toHost \in Seq(Replies)
      /\ Outgoing \in Seq(Calls) /\ Waiting \in Seq(Calls) /\ Handled \in {0, 1}
  BY FlowTypes
<1>4. pc \in [Threads -> CallerPc \cup ReaderPc \cup MemReqPc] /\ "reader" \in Threads
  BY <1>0 DEF PcTypeOK, Threads, Callers
<1>5. Tracked(read_requests, Handled, toHost, Outgoing, Waiting)
  BY <1>0 DEF Flow
\* Steps that leave the report to its entry, or take none.
<1>s. ASSUME UNCHANGED <<read_requests, toHost, report>>, Handling' <=> Handling,
             pc["reader"] \in {"lower", "read_unlock", "pop"}
               => pc'["reader"] \in {"lower", "read_unlock", "pop"}
      PROVE  TrackInv'
  <2>1. Handled' = Handled
    BY <1>s DEF Handled
  <2>2. Flow'
    BY <1>1, <1>5, <1>s, <2>1, FlowIs
  <2>3. FrontMatches' /\ FreshEntries'
    BY <1>0, <1>s DEF FrontMatches, FreshEntries
  <2> QED
    BY <1>2, <2>2, <2>3 DEF TrackInv
<1>6. CASE HandleStatus \/ HandleAcknowledgement
  <2>1. /\ pc["reader"] = "read" /\ pc'["reader"] \in {"call", "read", "ack_unlock"}
        /\ toHost # <<>> /\ toHost' = Tail(toHost) /\ Head(toHost).type # "memread"
        /\ UNCHANGED read_requests
    BY <1>4, <1>6 DEF HandleStatus, HandleAcknowledgement, Incoming, Goto, callVars
  <2>2. Handled = 0 /\ Handled' = 0 /\ ~Handling'
    BY <2>1 DEF Handled, Handling, Matching
  <2>3. Head(toHost) \notin ReadReplies
    BY <2>1 DEF ReadReplies
  <2>4. Tracked(read_requests, 0, Tail(toHost), Outgoing, Waiting)
    BY <1>3, <1>5, <2>1, <2>2, <2>3, TrackedDrop
  <2>5. Flow'
    BY <1>1, <2>1, <2>2, <2>4, FlowIs
  <2>6. FrontMatches' /\ FreshEntries'
    BY <1>0, <2>1, <2>2 DEF FrontMatches, FreshEntries
  <2> QED
    BY <1>2, <2>5, <2>6 DEF TrackInv
<1>7. CASE LockReadRequests
  <2>1. /\ pc["reader"] = "read" /\ pc'["reader"] = "match" /\ report' = Head(toHost)
        /\ toHost # <<>> /\ toHost' = Tail(toHost) /\ Head(toHost).type = "memread"
        /\ UNCHANGED read_requests
    BY <1>4, <1>7 DEF LockReadRequests, Incoming, Goto
  <2>2. Handled = 0 /\ Handled' = 1
    BY <2>1 DEF Handled, Handling, Matching
  <2>3. Head(toHost) \in ReadReplies
    <3>1. Head(toHost) \in Replies
      BY <1>3, <2>1, HeadTailProperties
    <3> QED
      BY <2>1, <3>1 DEF Replies
  <2>4. /\ Tracked(read_requests, 1, Tail(toHost), Outgoing, Waiting)
        /\ Extent(read_requests[1].addr) = ReportExtent(Head(toHost))
    BY <1>3, <1>5, <2>1, <2>2, <2>3, TrackedTake
  <2>5. Flow'
    BY <1>1, <2>1, <2>2, <2>4, FlowIs
  <2>6. FrontMatches' /\ FreshEntries'
    BY <1>0, <2>1, <2>4 DEF FrontMatches, FreshEntries
  <2> QED
    BY <1>2, <2>5, <2>6 DEF TrackInv
<1>8. CASE IgnoreReport
  BY <1>8, ReportMatches DEF IgnoreReport
<1>9. CASE AcceptData
  <2>1. pc["reader"] = "match"
    BY <1>9 DEF AcceptData
  <2>2. /\ read_requests # <<>> /\ read_requests[1] = Head(read_requests)
        /\ Head(read_requests).got + report.size = ReadSize[Head(read_requests).addr]
    BY <2>1, ReportMatches
  <2> DEFINE front == Head(read_requests)
             g == front.got + report.size
             amended == [front EXCEPT !.got = g]
  <2>3. /\ read_requests' = <<amended>> \o Tail(read_requests)
        /\ pc'["reader"] = "lower" /\ UNCHANGED <<report, toHost>>
    BY <1>4, <1>9, <2>2 DEF AcceptData, Goto, wireVars
  <2>4. front \in Entries /\ Tail(read_requests) \in Seq(Entries) /\ report.size \in Nat
        /\ Len(Tail(read_requests)) = Len(read_requests) - 1 /\ Len(read_requests) \in Nat
        /\ \A i \in 1..Len(Tail(read_requests)) : Tail(read_requests)[i] = read_requests[i + 1]
    BY <1>3, <2>2, HeadTailProperties, LenProperties
    DEF IInv, TypeOK, HandleTypeOK, ReadReplies
  <2>5. amended \in Entries /\ amended.addr = front.addr
    BY <2>4 DEF Entries
  <2> HIDE DEF amended
  <2> DEFINE p == <<amended>> \o Tail(read_requests)
  <2>6. p \in Seq(Entries) /\ Len(p) = Len(read_requests) /\ p[1] = amended
        /\ \A j \in 2..Len(read_requests) : p[j] = read_requests[j]
    <3>1. <<amended>> \in Seq(Entries) /\ Len(<<amended>>) = 1
      BY <2>5
    <3>2. /\ p \in Seq(Entries) /\ Len(p) = 1 + Len(Tail(read_requests))
          /\ \A i \in 1..1 + Len(Tail(read_requests)) :
               p[i] = IF i <= 1 THEN <<amended>>[i] ELSE Tail(read_requests)[i - 1]
      BY <2>4, <3>1, ConcatProperties
    <3> HIDE DEF p
    <3>3. Len(p) = Len(read_requests)
      BY <2>4, <3>2
    <3>4. Len(read_requests) >= 1
      BY <1>3, <2>2, <2>4, EmptySeq
    <3>5. p[1] = amended
      BY <2>4, <3>2, <3>3, <3>4
    <3>6. ASSUME NEW j \in 2..Len(read_requests) PROVE p[j] = read_requests[j]
      <4>1. j \in 1..1 + Len(Tail(read_requests)) /\ ~(j <= 1)
            /\ j - 1 \in 1..Len(Tail(read_requests)) /\ (j - 1) + 1 = j
        BY <2>4
      <4> QED
        BY <2>4, <3>2, <4>1
    <3> QED
      BY <3>2, <3>3, <3>5, <3>6
  <2> HIDE DEF p
  <2>7. \A j \in 1..Len(read_requests) : p[j].addr = read_requests[j].addr
    BY <2>2, <2>4, <2>5, <2>6
  <2>8. Tracked(p, Handled, toHost, Outgoing, Waiting)
    BY <1>3, <1>5, <2>6, <2>7, TrackedAmend
  <2>9. Handled' = Handled /\ Handling
    BY <2>1, <2>3 DEF Handled, Handling, Matching
  <2>10. read_requests' = p
    BY <2>3 DEF p
  <2>11. Flow'
    BY <1>1, <2>3, <2>8, <2>9, <2>10, FlowIs
  <2>12. FrontMatches'
    BY <1>0, <2>2, <2>3, <2>5, <2>6, <2>9, <2>10 DEF FrontMatches
  <2>13. FreshEntries'
    <3> SUFFICES ASSUME NEW i \in 1..Len(p) PROVE p[i].got = 0 \/ i = 1
      BY <2>3, <2>10 DEF FreshEntries
    <3>1. CASE i # 1
      <4>1. i \in 2..Len(read_requests)
        BY <2>4, <2>6, <3>1
      <4> QED
        BY <1>0, <2>1, <2>4, <2>6, <3>1, <4>1 DEF FreshEntries
    <3> QED
      BY <3>1
  <2> QED
    BY <1>2, <2>11, <2>12, <2>13 DEF TrackInv
<1>10. CASE PopReadRequest
  <2>1. /\ pc["reader"] = "pop" /\ pc'["reader"] \in {"read", "call"}
        /\ read_requests' = Tail(read_requests) /\ UNCHANGED toHost
    BY <1>4, <1>10 DEF PopReadRequest, Goto, wireVars
  <2>2. Handled = 1 /\ Handled' = 0 /\ ~Handling'
    BY <2>1 DEF Handled, Handling, Matching
  <2>3. read_requests # <<>> /\ Tracked(Tail(read_requests), 0, toHost, Outgoing, Waiting)
    BY <1>3, <1>5, <2>2, TrackedPop
  <2>4. Flow'
    BY <1>1, <2>1, <2>2, <2>3, FlowIs
  <2>5. FreshEntries'
    <3>1. Len(Tail(read_requests)) = Len(read_requests) - 1 /\ Len(read_requests) \in Nat
          /\ \A i \in 1..Len(Tail(read_requests)) : Tail(read_requests)[i] = read_requests[i + 1]
      BY <1>3, <2>3, HeadTailProperties, LenProperties
    <3> DEFINE p == Tail(read_requests)
    <3> HIDE DEF p
    <3> SUFFICES ASSUME NEW i \in 1..Len(p) PROVE p[i].got = 0
      BY <2>1 DEF FreshEntries, p
    <3>2. i + 1 \in 1..Len(read_requests) /\ i + 1 # 1 /\ p[i] = read_requests[i + 1]
      BY <3>1 DEF p
    <3> QED
      BY <1>0, <3>2 DEF FreshEntries
  <2> QED
    BY <1>2, <2>2, <2>4, <2>5 DEF TrackInv, FrontMatches
<1>11. CASE AckUnlock \/ Return
  <2>1. /\ pc["reader"] \in {"ack_unlock", "call"} /\ pc'["reader"] = "read"
        /\ UNCHANGED <<read_requests, toHost>>
    BY <1>4, <1>11 DEF AckUnlock, Return, Goto, callVars, wireVars
  <2>2. Handled = 0 /\ Handled' = 0 /\ ~Handling'
    BY <2>1 DEF Handled, Handling, Matching
  <2>3. Flow'
    BY <1>1, <1>5, <2>1, <2>2, FlowIs
  <2>4. FrontMatches' /\ FreshEntries'
    BY <1>0, <2>1, <2>2 DEF FrontMatches, FreshEntries
  <2> QED
    BY <1>2, <2>3, <2>4 DEF TrackInv
<1>12. CASE AcceptError \/ LowerReadFlag \/ ReadUnlock
  <2>1. /\ pc["reader"] \in {"match", "lower", "read_unlock"}
        /\ pc'["reader"] \in {"lower", "read_unlock", "pop"}
        /\ UNCHANGED <<read_requests, toHost, report>>
    BY <1>4, <1>12 DEF AcceptError, LowerReadFlag, ReadUnlock, Goto, callVars, wireVars, handleVars
  <2> QED
    BY <1>s, <2>1 DEF Handling, Matching
<1> QED
  BY <1>6, <1>7, <1>8, <1>9, <1>10, <1>11, <1>12 DEF ReaderStep

-----------------------------------------------------------------------------
(* The steps of mem_req_loop, of write_loop and of the controller. *)

LEMMA HeadMovesOn ==
  ASSUME NEW S, NEW s \in Seq(S), NEW t \in Seq(S), t # <<>>
  PROVE  Append(s, Head(t)) \o Tail(t) = s \o t
<1>1. Head(t) \in S /\ Tail(t) \in Seq(S) /\ <<Head(t)>> \in Seq(S)
  BY HeadTailProperties
<1>2. Append(s, Head(t)) = s \o <<Head(t)>>
  BY <1>1, AppendIsConcat
<1>3. <<Head(t)>> \o Tail(t) = t
  BY HeadTailProperties, ConcatSimplifications
<1>4. (s \o <<Head(t)>>) \o Tail(t) = s \o (<<Head(t)>> \o Tail(t))
  BY <1>1, ConcatAssociative
<1> QED
  BY <1>2, <1>3, <1>4

LEMMA HeadOfConcatenation ==
  ASSUME NEW S, NEW s \in Seq(S), NEW t \in Seq(S), s # <<>>
  PROVE  s \o t # <<>> /\ Head(s \o t) = Head(s) /\ Tail(s \o t) = Tail(s) \o t
<1>1. /\ Head(s) \in S /\ Tail(s) \in Seq(S) /\ <<Head(s)>> \in Seq(S)
      /\ s = <<Head(s)>> \o Tail(s)
  BY HeadTailProperties, ConcatSimplifications
<1>2. s \o t = <<Head(s)>> \o (Tail(s) \o t) /\ Tail(s) \o t \in Seq(S)
  BY <1>1, ConcatAssociative, ConcatProperties
<1>3. s \o t # <<>>
  BY ConcatEqualIffEmpty, ConcatProperties, EmptySeq
<1> QED
  BY <1>1, <1>2, <1>3, ConcatSimplifications

\* Where the read thread is and what it handles stays as it is.
LEMMA TrackStill ==
  ASSUME Phase, FrontMatches, FreshEntries,
         UNCHANGED <<todo, read_requests, report>>, pc'["reader"] = pc["reader"],
         todo["main"] # <<>> => UNCHANGED toHost
  PROVE  /\ Phase' /\ FrontMatches' /\ FreshEntries'
         /\ Handled' = Handled
BY DEF Phase, FrontMatches, FreshEntries, Handled, Handling, Matching

LEMMA MemReqFlow ==
  ASSUME IInv, TrackInv, MemReq
  PROVE  TrackInv'
<1>0. /\ PcTypeOK /\ CallTypeOK /\ FrontPresent
      /\ Phase /\ Flow /\ FrontMatches /\ FreshEntries
  BY DEF IInv, TypeOK, TrackInv
<1>1. UNCHANGED <<todo, read_requests, report, toHost, toDevice>>
  BY DEF MemReq, AcquireControl, FindEmpty, FindRequest, IssueRequest, RaiseFlag, PopRequest,
         callVars, wireVars, handleVars
<1>2. pc'["reader"] = pc["reader"] /\ pc'["main"] = pc["main"]
  BY <1>0
  DEF MemReq, AcquireControl, FindEmpty, FindRequest, IssueRequest, RaiseFlag, PopRequest,
      Goto, PcTypeOK, Threads, Callers
<1>3. Phase' /\ FrontMatches' /\ FreshEntries' /\ Handled' = Handled
  BY <1>0, <1>1, <1>2, TrackStill
<1>4. Entering' = Entering
  BY <1>1, <1>2 DEF Entering
<1>5. /\ read_requests \in Seq(Entries) /\ toHost \in Seq(Replies)
      /\ queue \in Seq(Calls) /\ toDevice \in Seq(Calls) /\ m_write_queue \in Seq(Calls)
      /\ Outgoing \in Seq(Calls) /\ Entering \in Seq(Calls) /\ Waiting \in Seq(Calls)
      /\ Handled \in {0, 1}
  BY FlowTypes
<1>6. Tracked(read_requests, Handled, toHost, Outgoing, Waiting)
  BY <1>0 DEF Flow
<1>7. CASE IssueRequest
  <2>1. /\ pc["memreq"] = "write" /\ pc'["memreq"] = "flag" /\ UNCHANGED queue
        /\ m_write_queue' = Append(m_write_queue, Head(queue)) /\ queue # <<>>
    BY <1>0, <1>7 DEF IssueRequest, FrontPresent, Goto, PcTypeOK, Threads, callVars
  <2>2. Unissued = queue /\ Unissued' = Tail(queue)
    BY <2>1 DEF Unissued
  <2>3. Head(queue) \in Calls
    BY <1>5, <2>1, HeadTailProperties
  <2>4. Waiting # <<>> /\ Head(Waiting) = Head(queue) /\ Waiting' = Tail(Waiting)
    BY <1>4, <1>5, <2>1, <2>2, HeadOfConcatenation DEF Waiting
  <2>5. Outgoing' = Append(Outgoing, Head(Waiting))
    <3> DEFINE c == Head(queue)
    <3>1. toDevice \o Append(m_write_queue, c) = Append(toDevice \o m_write_queue, c)
      <4> HIDE DEF c
      <4>1. c \in Calls
        BY <2>3 DEF c
      <4> QED
        BY <1>5, <4>1, AppendRight
    <3>2. Outgoing' = toDevice \o Append(m_write_queue, c)
      BY <1>1, <2>1, Zenon DEF Outgoing
    <3> QED
      BY <2>4, <3>1, <3>2, Zenon DEF Outgoing
  <2>6. Tracked(read_requests, Handled, toHost, Append(Outgoing, Head(Waiting)), Tail(Waiting))
    BY <1>5, <1>6, <2>4, TrackedIssue
  <2>7. Flow'
    BY <1>1, <1>3, <2>4, <2>5, <2>6, FlowIs
  <2> QED
    BY <1>3, <2>7 DEF TrackInv
<1>8. CASE ~IssueRequest
  <2>1. UNCHANGED m_write_queue
    BY <1>8 DEF MemReq, AcquireControl, FindEmpty, FindRequest, RaiseFlag, PopRequest, wireVars
  <2>2. Outgoing' = Outgoing
    BY <1>1, <2>1 DEF Outgoing
  <2>3. Unissued' = Unissued
    BY <1>0, <1>8
    DEF MemReq, AcquireControl, FindEmpty, FindRequest, RaiseFlag, PopRequest, Goto,
        PcTypeOK, Threads, Unissued, callVars
  <2>4. Waiting' = Waiting
    BY <1>4, <2>3 DEF Waiting
  <2>5. Flow'
    BY <1>1, <1>3, <1>6, <2>2, <2>4, FlowIs
  <2> QED
    BY <1>3, <2>5 DEF TrackInv
<1> QED
  BY <1>7, <1>8

LEMMA WireFlow ==
  ASSUME IInv, TrackInv, ~WritesMayFail, ~AnswersDuringInit,
         WriteLoop \/ DeviceAnswer \/ DevicePlug
  PROVE  TrackInv'
<1>0. TypeOK /\ Phase /\ Flow /\ FrontMatches /\ FreshEntries
  BY DEF IInv, TrackInv
<1>1. UNCHANGED <<pc, todo, queue, read_requests, report>>
  BY DEF WriteLoop, DeviceAnswer, DevicePlug, callVars, handleVars
<1>2. todo["main"] # <<>> => UNCHANGED toHost
  BY DEF WriteLoop, DeviceAnswer, DevicePlug, MayReport
<1>3. Phase' /\ FrontMatches' /\ FreshEntries' /\ Handled' = Handled
  BY <1>0, <1>1, <1>2, TrackStill
<1>4. Waiting' = Waiting
  BY <1>1 DEF Waiting, Unissued, Entering
<1>5. /\ read_requests \in Seq(Entries) /\ toHost \in Seq(Replies)
      /\ toDevice \in Seq(Calls) /\ m_write_queue \in Seq(Calls)
      /\ Outgoing \in Seq(Calls) /\ Waiting \in Seq(Calls)
      /\ Handled \in {0, 1}
  BY FlowTypes
<1>6. Tracked(read_requests, Handled, toHost, Outgoing, Waiting)
  BY <1>0 DEF Flow
<1>7. CASE WriteLoop
  <2>1. /\ m_write_queue # <<>> /\ m_write_queue' = Tail(m_write_queue)
        /\ toDevice' = Append(toDevice, Head(m_write_queue)) /\ UNCHANGED toHost
    BY <1>7 DEF WriteLoop
  <2>2. Outgoing' = Outgoing
    BY <1>5, <2>1, HeadMovesOn DEF Outgoing
  <2>3. Flow'
    BY <1>1, <1>3, <1>4, <1>6, <2>1, <2>2, FlowIs
  <2> QED
    BY <1>3, <2>3 DEF TrackInv
<1>8. CASE DeviceAnswer
  <2>1. toDevice # <<>> /\ toDevice' = Tail(toDevice) /\ UNCHANGED m_write_queue
    BY <1>8 DEF DeviceAnswer
  <2>2. /\ Outgoing # <<>> /\ Head(Outgoing) = Head(toDevice) /\ Outgoing' = Tail(Outgoing)
    BY <1>5, <2>1, HeadOfConcatenation DEF Outgoing
  <2> DEFINE c == Head(toDevice)
  <2>3. PICK reply \in Answers(c) : toHost' = toHost \o reply
    BY <1>8 DEF DeviceAnswer
  <2>4. c \in Calls
    BY <1>5, <2>1, HeadTailProperties
  <2> HIDE DEF c
  <2>5. CASE reply = <<>> /\ c \notin MemReads /\ c \notin MemWrites
    <3>1. toHost' = toHost
      BY <1>5, <2>3, <2>5, ConcatEmptySeq
    <3>2. Tracked(read_requests, Handled, toHost, Tail(Outgoing), Waiting)
      BY <1>5, <1>6, <2>2, <2>5, TrackedNoAnswer DEF c
    <3>3. Flow'
      BY <1>1, <1>3, <1>4, <2>2, <3>1, <3>2, FlowIs
    <3> QED
      BY <1>3, <3>3 DEF TrackInv
  <2>6. ASSUME NEW r \in Replies, reply = <<r>>, r \in ReadReplies <=> c \in MemReads,
               c \in MemReads => ReportExtent(r) = CallExtent(c)
        PROVE  TrackInv'
    <3>1. toHost' = Append(toHost, r)
      BY <1>5, <2>3, <2>6, AppendIsConcat
    <3>2. Head(Outgoing) = c
      BY <2>2 DEF c
    <3>3. Tracked(read_requests, Handled, Append(toHost, r), Tail(Outgoing), Waiting)
      BY <1>5, <1>6, <2>2, <2>6, <3>2, TrackedAnswer
    <3>4. Flow'
      BY <1>1, <1>3, <1>4, <2>2, <3>1, <3>3, FlowIs
    <3> QED
      BY <1>3, <3>4 DEF TrackInv
  <2> QED
    BY <1>0, <2>4, <2>5, <2>6, AnswerShape
<1>9. CASE DevicePlug
  <2>1. toHost' = Append(toHost, Status') /\ UNCHANGED <<toDevice, m_write_queue>>
    BY <1>9 DEF DevicePlug
  <2> DEFINE r == Status'
  <2>2. r \in Replies /\ r \notin ReadReplies
    BY DEF Status, Replies, ReadReplies
  <2>3. Outgoing' = Outgoing
    BY <2>1 DEF Outgoing
  <2>4. toHost' = Append(toHost, r)
    BY <2>1
  <2> HIDE DEF r
  <2>5. Tracked(read_requests, Handled, Append(toHost, r), Outgoing, Waiting)
    BY <1>5, <1>6, <2>2, TrackedStatus
  <2>6. Flow'
    BY <1>1, <1>3, <1>4, <2>3, <2>4, <2>5, FlowIs
  <2> QED
    BY <1>3, <2>6 DEF TrackInv
<1> QED
  BY <1>7, <1>8, <1>9

\* The calls leave the rest of the invariant as it is, too.
LEMMA CallTracks ==
  ASSUME IInv, TrackInv, NEW t \in Callers, Call(t)
  PROVE  TrackInv'
<1>0. PcTypeOK /\ CallTypeOK /\ FrontPresent /\ Phase /\ Flow /\ FrontMatches /\ FreshEntries
  BY DEF IInv, TypeOK, TrackInv
<1>1. Flow'
  BY <1>0, CallFlow
<1>2. todo[t] # <<>> /\ ~Handling /\ ~Handling'
  BY <1>0, CallAlone
<1>3. /\ \A u \in Callers \ {t} : pc'[u] = pc[u]
      /\ UNCHANGED toHost
  BY <1>0, CallPlaces
<1>4. \A u \in Callers \ {t} : todo'[u] = todo[u]
  BY <1>0
  DEF Call, CallReport, CallMemWrite, CallMemRead, PushReadRequest, EnqueueRead, CallDone,
      CallTypeOK
<1>5. Phase'
  <2>1. CASE t = "main"
    BY <1>0, <1>2, <1>3, <2>1 DEF Phase, Callers
  <2>2. CASE t = "reader"
    <3>1. pc["reader"] # "read"
      BY <1>0, <2>2, CallPlaces
    <3> QED
      BY <1>0, <1>4, <2>2, <3>1 DEF Phase, Callers
  <2> QED
    BY <2>1, <2>2 DEF Callers
<1>6. FreshEntries'
  <2>1. pc["reader"] \notin {"lower", "read_unlock", "pop"}
    BY <1>2 DEF Handling, Matching
  <2>2. \A i \in 1..Len(read_requests) : read_requests[i].got = 0
    BY <1>0, <2>1 DEF FreshEntries
  <2>3. CASE UNCHANGED read_requests
    BY <2>2, <2>3 DEF FreshEntries
  <2>4. CASE PushReadRequest(t)
    <3> DEFINE x == [addr |-> Head(todo[t]).arg, got |-> 0]
    <3>1. read_requests' = Append(read_requests, x)
      BY <2>4 DEF PushReadRequest
    <3>2. read_requests \in Seq(Entries)
      BY FlowTypes
    <3>3. x \in Entries
      BY <1>0, <2>4 DEF FrontPresent, PushReadRequest, MemReads, Entries
    <3>4. x.got = 0
      OBVIOUS
    <3> HIDE DEF x
    <3> DEFINE p == Append(read_requests, x)
    <3>5. /\ Len(read_requests) \in Nat /\ Len(p) = Len(read_requests) + 1
          /\ \A i \in 1..Len(read_requests) : p[i] = read_requests[i]
          /\ p[Len(read_requests) + 1] = x
      BY <3>2, <3>3, AppendProperties, LenProperties
    <3> HIDE DEF p
    <3> SUFFICES ASSUME NEW i \in 1..Len(p) PROVE p[i].got = 0
      BY <3>1 DEF FreshEntries, p
    <3>6. CASE i \in 1..Len(read_requests)
      BY <2>2, <3>5, <3>6
    <3>7. CASE i = Len(read_requests) + 1
      BY <3>4, <3>5, <3>7
    <3> QED
      BY <3>5, <3>6, <3>7
  <2> QED
    BY <2>3, <2>4 DEF Call, CallReport, CallMemWrite, CallMemRead, EnqueueRead
<1> QED
  BY <1>1, <1>2, <1>5, <1>6 DEF TrackInv, FrontMatches

LEMMA TrackStep ==
  ASSUME ~WritesMayFail, ~AnswersDuringInit, IInv, TrackInv, [Next]_vars
  PROVE  TrackInv'
<1>1. CASE Call("main")
  BY <1>1, CallTracks DEF Callers
<1>2. CASE Reader
  BY <1>2, CallTracks, ReaderFlow DEF Reader, ReaderStep, Callers
<1>3. CASE MemReq
  BY <1>3, MemReqFlow
<1>4. CASE WriteLoop \/ DeviceAnswer \/ DevicePlug
  BY <1>4, WireFlow
<1>5. CASE UNCHANGED vars
  <2>1. /\ UNCHANGED <<pc, todo, read_requests, report, toHost, queue, toDevice, m_write_queue>>
    BY <1>5 DEF vars, callVars, wireVars, handleVars
  <2> QED
    BY <2>1
    DEF TrackInv, Phase, Flow, FrontMatches, FreshEntries, Handled, Handling, Matching,
        Outgoing, Waiting, Unissued, Entering
<1> QED
  BY <1>1, <1>2, <1>3, <1>4, <1>5 DEF Next

\* Where every write arrives and the controller answers after init has made its calls,
\* read_requests names the reads that are queued or on their way, all of them and in
\* the order of their answers, so that on_mem_read gets what was asked for
\* (wiimote_handle.cpp:168-184).
THEOREM ReadsAreTracked ==
  ASSUME ~WritesMayFail, ~AnswersDuringInit
  PROVE  Spec => []ReadsTracked
<1>1. IInv /\ TrackInv /\ [Next]_vars => TrackInv'
  BY TrackStep
<1>2. IInv /\ TrackInv => ReadsTracked
  BY TrackImplies
<1> QED
  BY <1>1, <1>2, TrackInit, Invariance, PTL DEF Spec

-----------------------------------------------------------------------------
(* The read report a raised flag waits for. *)

\* A read report that the read thread has taken stays in its hands until it lowers
\* wait_for_read: it is for the front entry and completes it.
LEMMA MatchingStays ==
  ASSUME IInv, TrackInv, [Next]_vars, ~LockReadRequests, ~LowerReadFlag
  PROVE  Matching' <=> Matching
<1>0. PcTypeOK
  BY DEF IInv, TypeOK
<1>1. ASSUME NEW t \in Callers, Call(t) PROVE Matching' <=> Matching
  <2>1. \/ UNCHANGED pc["reader"]
        \/ /\ pc["reader"] \in {"call", "push", "enqueue"}
           /\ pc'["reader"] \in {"call", "push", "enqueue"}
    BY <1>0, <1>1, CallPlaces DEF Callers
  <2> QED
    BY <2>1 DEF Matching
<1>2. CASE IgnoreReport
  BY <1>2, ReportMatches DEF IgnoreReport
<1>3. CASE AcceptData
  <2>1. Head(read_requests).got + report.size = ReadSize[Head(read_requests).addr]
    BY <1>3, ReportMatches DEF AcceptData
  <2>2. pc["reader"] = "match" /\ pc'["reader"] = "lower"
    BY <1>0, <1>3, <2>1 DEF AcceptData, Goto, PcTypeOK, Threads, Callers
  <2> QED
    BY <2>2 DEF Matching
<1>4. CASE HandleStatus \/ HandleAcknowledgement \/ AckUnlock \/ AcceptError
           \/ ReadUnlock \/ PopReadRequest \/ Return
  BY <1>0, <1>4
  DEF HandleStatus, HandleAcknowledgement, AckUnlock, AcceptError, ReadUnlock, PopReadRequest,
      Return, Incoming, Goto, Matching, PcTypeOK, Threads, Callers
<1>5. CASE MemReq
  BY <1>0, <1>5
  DEF MemReq, AcquireControl, FindEmpty, FindRequest, IssueRequest, RaiseFlag, PopRequest, Goto,
      Matching, PcTypeOK, Threads, Callers
<1>6. CASE WriteLoop \/ DeviceAnswer \/ DevicePlug \/ UNCHANGED vars
  BY <1>6 DEF WriteLoop, DeviceAnswer, DevicePlug, vars, Matching
<1> QED
  BY <1>1, <1>2, <1>3, <1>4, <1>5, <1>6 DEF Next, Reader, Callers

LEMMA ReadReplyStep ==
  ASSUME ~WritesMayFail, IInv, Accounted, JustAsked, TrackInv, ReadReplyPending, [Next]_vars
  PROVE  ReadReplyPending'
<1>0. TypeOK /\ PcTypeOK /\ FlagTypeOK /\ ControlHandover
  BY DEF IInv, TypeOK
<1>t. /\ ReadsAsked \in Nat /\ ReadsAnswered \in Nat
      /\ WritesAsked \in Nat /\ WritesAnswered \in Nat
  BY <1>0, WayTypes
<1> DEFINE M == IF Matching THEN 1 ELSE 0
<1>m. M \in {0, 1} /\ (Matching <=> M = 1)
  OBVIOUS
<1> SUFFICES ASSUME wait_for_read' PROVE ReadsAsked' + ReadsAnswered' + M' = 1
  BY DEF ReadReplyPending
<1>1. CASE RaiseFlag
  <2>1. pc["memreq"] = "flag" /\ UNCHANGED <<m_write_queue, toDevice, toHost>>
    BY <1>1 DEF RaiseFlag, wireVars
  <2>2. ~wait_for_read
    BY <1>0, <2>1 DEF ControlHandover, Issuing
  <2>3. Head(queue).kind # "memwrite"
    BY <1>0, <1>1, <2>2 DEF RaiseFlag, FlagTypeOK
  <2>4. ReadsAsked = 1
    BY <2>1, <2>3 DEF JustAsked
  <2>5. OnTheWay + M <= 1
    BY <1>t DEF Accounted, OnTheWay
  <2>6. ReadsAnswered = 0 /\ M = 0
    BY <1>t, <1>m, <2>4, <2>5 DEF OnTheWay
  <2>7. Matching' <=> Matching
    BY <1>0, <1>1 DEF RaiseFlag, Goto, Matching, PcTypeOK, Threads, Callers
  <2>8. M' = 0
    BY <2>6, <2>7
  <2> QED
    BY <2>1, <2>4, <2>6, <2>8, WayStill
<1>2. CASE ~RaiseFlag
  <2>1. wait_for_read /\ ReadsAsked + ReadsAnswered + M = 1
    BY <1>2, FlagRaised DEF ReadReplyPending
  <2>2. ~LowerReadFlag
    BY DEF LowerReadFlag
  <2>3. CASE LockReadRequests
    <3>1. PICK r \in Replies : /\ r.type = "memread"
                               /\ ReadsAnswered = ReadsAnswered' + One(r, ReadReplies)
                               /\ UNCHANGED <<ReadsAsked, WritesAsked>>
      BY <1>0, <2>3, WayIncoming DEF LockReadRequests
    <3>2. One(r, ReadReplies) = 1
      BY <3>1 DEF One, Replies, ReadReplies
    <3>3. Count(toHost', ReadReplies) \in Nat
      <4>1. toHost \in Seq(Replies) /\ toHost # <<>> /\ toHost' = Tail(toHost)
        BY <1>0, <2>3 DEF TypeOK, WireTypeOK, LockReadRequests, Incoming
      <4>2. toHost' \in Seq(Replies)
        BY <4>1, HeadTailProperties
      <4> QED
        BY <4>2, CountType
    <3>4. ~Matching /\ Matching'
      BY <1>0, <2>3
      DEF LockReadRequests, Incoming, Goto, Matching, PcTypeOK, Threads, Callers
    <3>5. M = 0 /\ M' = 1
      BY <3>4
    <3> HIDE DEF M
    <3>6. ReadsAnswered = ReadsAnswered' + 1
      BY <3>1, <3>2
    <3> QED
      BY <1>t, <2>1, <3>1, <3>3, <3>5, <3>6 DEF ReadsAnswered
  <2>4. CASE ~LockReadRequests
    <3>1. Matching' <=> Matching
      BY <2>2, <2>4, MatchingStays
    <3>2. M' = M
      BY <3>1
    <3> HIDE DEF M
    <3>3. CASE HandleAcknowledgement
      BY <1>0, <2>1, <3>2, <3>3, WayAck
    <3>4. CASE WriteLoop
      BY <1>0, <2>1, <3>2, <3>4, WayWrite
    <3>5. CASE DeviceAnswer
      <4>1. PICK c \in Calls : /\ ReadsAsked = ReadsAsked' + One(c, MemReads)
                               /\ ReadsAnswered' = ReadsAnswered + One(c, MemReads)
        BY <1>0, <3>5, WayAnswer
      <4>2. One(c, MemReads) \in Nat
        BY OneType
      <4>3. Count(toDevice', MemReads) \in Nat /\ Count(m_write_queue', MemReads) \in Nat
        <5>1. toDevice \in Seq(Calls) /\ toDevice # <<>> /\ toDevice' = Tail(toDevice)
              /\ m_write_queue' \in Seq(Calls)
          BY <1>0, <3>5 DEF TypeOK, WireTypeOK, DeviceAnswer
        <5>2. toDevice' \in Seq(Calls)
          BY <5>1, HeadTailProperties
        <5> QED
          BY <5>1, <5>2, CountType
      <4> QED
        BY <1>t, <1>m, <2>1, <3>2, <4>1, <4>2, <4>3 DEF ReadsAsked, ReadsAnswered
    <3>6. ~IssueRequest
      BY <1>0, <2>1 DEF IssueRequest, ControlHandover, Issuing
    <3> QED
      BY <2>1, <2>4, <3>2, <3>3, <3>4, <3>5, <3>6, WayUnchanged
  <2> QED
    BY <2>3, <2>4
<1> QED
  BY <1>1, <1>2

\* Where every write arrives and the controller answers after init has made its calls
\* and after the flag is up, a raised wait_for_read means that the read report is still
\* to come or is being handled: mem_req_loop is never left waiting for one that
\* handle_mem_read has taken or ignored.
THEOREM ReplyStillToCome ==
  ASSUME ~WritesMayFail, ~AnswersDuringInit, ~AnswersBeforeFlag
  PROVE  Spec => []ReadReplyPending
<1>1. Init => JustAsked /\ ReadReplyPending
  BY DEF Init, JustAsked, ReadReplyPending
<1>2. IInv /\ Accounted /\ JustAsked /\ TrackInv /\ ReadReplyPending /\ [Next]_vars
        => (JustAsked /\ TrackInv /\ ReadReplyPending)'
  BY JustAskedStep, TrackStep, ReadReplyStep
<1> QED
  BY <1>1, <1>2, TrackInit, Invariance, AccountedAlways, PTL DEF Spec

=============================================================================
