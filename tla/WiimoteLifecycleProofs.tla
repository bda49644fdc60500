----------------------- MODULE WiimoteLifecycleProofs -----------------------
(***************************************************************************)
(* However often a wiimote object is moved, one object's threads at a time *)
(* use the device, and the reads it awaits are those on their way, for any *)
(* number of objects and of requests.                                      *)
(*                                                                         *)
(* The argument follows main through its constructors: each place in the   *)
(* list of a constructor says which threads run, who holds the device and  *)
(* whose m_running is set.                                                 *)
(***************************************************************************)
EXTENDS WiimoteLifecycle, SequenceTheorems, TLAPS

-----------------------------------------------------------------------------
(* The invariant. *)

Alive == {"test", "busy"}

\* What is left of a list when k of its steps are taken.
Left(list, k) == SubSeq(list, k + 1, Len(list))

\* How many steps of a constructor are taken when a thread of the new object is
\* started, and one of the old object is joined.
StartedAt == [write |-> 2, read |-> 3, mem |-> 4]
JoinedAt  == [read |-> 2, write |-> 3, mem |-> 4]

\* Object n holds the device; those before it have ended, those after it are still
\* to be constructed.
Holder(n, running) ==
  /\ n \in Objects /\ open
  /\ \A o \in Objects : /\ m_device[o] <=> o = n
                        /\ m_running[o] <=> (o = n /\ running)
                        /\ o > n => queue[o] = <<>>
  /\ \A o \in Objects \ {n}, t \in Threads :
       thread[o][t] = IF o < n THEN "joined" ELSE "none"

\* Object n has gone k steps through init; at the end of it nothing is left to do.
Constructing(n, k) ==
  /\ objects = n /\ k \in 0..(4 + InitReads)
  /\ steps = Left(InitSteps(n), k)
  /\ Holder(n, k > 0)
  /\ \A t \in Threads :
       IF StartedAt[t] <= k THEN thread[n][t] \in Alive ELSE thread[n][t] = "none"

\* The move constructor of object n + 1 has gone k steps and not yet copied.
Moving(n, k) ==
  /\ objects = n + 1 /\ n + 1 \in Objects /\ k \in 0..4
  /\ steps = Left(MoveSteps(n), k)
  /\ Holder(n, k = 0)
  /\ \A t \in Threads :
       IF JoinedAt[t] <= k THEN thread[n][t] = "joined"
       ELSE thread[n][t] \in Alive \/ (k > 0 /\ thread[n][t] = "ended")

\* The destructor of object o joins the write thread of o, which is running or has
\* been joined.
Destroying(o) ==
  /\ o \in 1..objects /\ steps = DestroySteps(o)
  /\ Holder(objects, TRUE)
  /\ \A t \in Threads : thread[objects][t] \in Alive

NotOpened ==
  /\ objects = 0 /\ steps = <<>> /\ destroyed = {} /\ pending = <<>>
  /\ \A o \in Objects : /\ ~m_device[o] /\ ~m_running[o]
                        /\ read_requests[o] = <<>> /\ queue[o] = <<>>
                        /\ m_write_queue[o] = <<>>
                        /\ \A t \in Threads : thread[o][t] = "none"

Placed ==
  \/ NotOpened
  \/ \E n \in Objects, k \in 0..(4 + InitReads) : Constructing(n, k)
  \/ \E n \in Objects, k \in 0..4 : Moving(n, k)
  \/ \E o \in Objects : Destroying(o)

LifeInv == TypeOK /\ Placed /\ ReadsCarriedOver

-----------------------------------------------------------------------------
(* The lists of steps. *)

Does == {"run", "clear", "start", "join", "copy", "request"}

AnyStep ==
  [do : Does, of : Nat] \cup [do : Does, of : Nat, thread : Threads]
    \cup [do : Does, of : Nat, address : 1..InitReads]

LEMMA StepTypes ==
  ASSUME NEW o \in Nat
  PROVE  /\ \A do \in Does : Step(do, o) \in AnyStep
         /\ \A do \in Does, t \in Threads : On(do, o, t) \in AnyStep
         /\ \A a \in 1..InitReads : Request(a, o) \in AnyStep
BY DEF AnyStep, Does, Step, On, Request

LEMMA StepFields ==
  ASSUME NEW o, NEW do, NEW t, NEW a
  PROVE  /\ Step(do, o).do = do /\ Step(do, o).of = o
         /\ On(do, o, t).do = do /\ On(do, o, t).of = o /\ On(do, o, t).thread = t
         /\ Request(a, o).do = "request" /\ Request(a, o).of = o
         /\ Request(a, o).address = a
BY DEF Step, On, Request

LEMMA Joined ==
  ASSUME NEW S, NEW m \in Nat, NEW n \in Nat, NEW s \in Seq(S), NEW t \in Seq(S),
         Len(s) = m, Len(t) = n, NEW k, k = m + 1, NEW l, l = m + n
  PROVE  /\ s \o t \in Seq(S) /\ Len(s \o t) = l
         /\ \A i \in 1..m : (s \o t)[i] = s[i]
         /\ \A i \in k..l : (s \o t)[i] = t[i - m]
<1>1. /\ s \o t \in Seq(S) /\ Len(s \o t) = m + n
      /\ \A i \in 1..(m + n) : (s \o t)[i] = IF i <= m THEN s[i] ELSE t[i - m]
  BY ConcatProperties
<1>2. /\ \A i \in 1..m : i \in 1..(m + n) /\ i <= m
      /\ \A i \in (m + 1)..(m + n) : i \in 1..(m + n) /\ ~(i <= m)
  OBVIOUS
<1> DEFINE list == s \o t
<1> HIDE DEF list
<1>3. \A i \in 1..(m + n) : list[i] = IF i <= m THEN s[i] ELSE t[i - m]
  BY <1>1 DEF list
<1>4. /\ \A i \in 1..m : list[i] = s[i]
      /\ \A i \in (m + 1)..(m + n) : list[i] = t[i - m]
  BY <1>2, <1>3
<1> QED
  BY <1>1, <1>4 DEF list

LEMMA InitStepsAre ==
  ASSUME NEW n \in Nat
  PROVE  /\ InitSteps(n) \in Seq(AnyStep) /\ Len(InitSteps(n)) = 4 + InitReads
         /\ InitSteps(n)[1] = Step("run", n)
         /\ InitSteps(n)[2] = On("start", n, "write")
         /\ InitSteps(n)[3] = On("start", n, "read")
         /\ InitSteps(n)[4] = On("start", n, "mem")
         /\ \A i \in 5..(4 + InitReads) : InitSteps(n)[i] = Request(i - 4, n)
<1> DEFINE first == <<Step("run", n), On("start", n, "write"), On("start", n, "read"),
                      On("start", n, "mem")>>
           requests == [i \in 1..InitReads |-> Request(i, n)]
<1>1. /\ Step("run", n) \in AnyStep /\ On("start", n, "write") \in AnyStep
      /\ On("start", n, "read") \in AnyStep /\ On("start", n, "mem") \in AnyStep
      /\ \A i \in 1..InitReads : Request(i, n) \in AnyStep
  BY StepTypes DEF Threads, Does
<1>2. first \in Seq(AnyStep) /\ Len(first) = 4
  BY <1>1
<1>3. requests \in Seq(AnyStep) /\ Len(requests) = InitReads
  BY <1>1, LifecycleAssumption
<1>4. /\ first[1] = Step("run", n) /\ first[2] = On("start", n, "write")
      /\ first[3] = On("start", n, "read") /\ first[4] = On("start", n, "mem")
      /\ \A i \in 1..InitReads : requests[i] = Request(i, n)
  OBVIOUS
<1>5. InitSteps(n) = first \o requests
  BY DEF InitSteps
<1> HIDE DEF first, requests
<1> DEFINE list == first \o requests
<1>6. /\ list \in Seq(AnyStep) /\ Len(list) = 4 + InitReads
      /\ \A i \in 1..4 : list[i] = first[i]
      /\ \A i \in 5..(4 + InitReads) : list[i] = requests[i - 4]
  <2> DEFINE m == 4
             k == 5
             l == 4 + InitReads
  <2>1. m \in Nat /\ k = m + 1 /\ l = m + InitReads /\ Len(first) = m
    BY <1>2
  <2> HIDE DEF m, k, l
  <2>2. /\ list \in Seq(AnyStep) /\ Len(list) = l
        /\ \A i \in 1..m : list[i] = first[i]
        /\ \A i \in k..l : list[i] = requests[i - m]
    BY <1>2, <1>3, <2>1, Joined, LifecycleAssumption
  <2> QED
    BY <2>2 DEF m, k, l
<1> HIDE DEF list
<1>7. \A i \in 5..(4 + InitReads) : list[i] = Request(i - 4, n)
  <2>1. \A i \in 5..(4 + InitReads) : i - 4 \in 1..InitReads
    BY LifecycleAssumption
  <2> QED
    BY <1>4, <1>6, <2>1
<1>8. /\ list[1] = Step("run", n) /\ list[2] = On("start", n, "write")
      /\ list[3] = On("start", n, "read") /\ list[4] = On("start", n, "mem")
  BY <1>4, <1>6
<1>9. InitSteps(n) = list
  BY <1>5 DEF list
<1> QED
  BY <1>6, <1>7, <1>8, <1>9

LEMMA MoveStepsAre ==
  ASSUME NEW n \in Nat
  PROVE  /\ MoveSteps(n) \in Seq(AnyStep) /\ Len(MoveSteps(n)) = 9 + InitReads
         /\ MoveSteps(n)[1] = Step("clear", n)
         /\ MoveSteps(n)[2] = On("join", n, "read")
         /\ MoveSteps(n)[3] = On("join", n, "write")
         /\ MoveSteps(n)[4] = On("join", n, "mem")
         /\ MoveSteps(n)[5] = Step("copy", n)
         /\ Left(MoveSteps(n), 5) = InitSteps(n + 1)
<1> DEFINE first == <<Step("clear", n), On("join", n, "read"), On("join", n, "write"),
                      On("join", n, "mem"), Step("copy", n)>>
           rest == InitSteps(n + 1)
<1>1. /\ Step("clear", n) \in AnyStep /\ On("join", n, "write") \in AnyStep
      /\ On("join", n, "read") \in AnyStep /\ On("join", n, "mem") \in AnyStep
      /\ Step("copy", n) \in AnyStep
  BY StepTypes DEF Threads, Does
<1>2. first \in Seq(AnyStep) /\ Len(first) = 5
  BY <1>1
<1>3. rest \in Seq(AnyStep) /\ Len(rest) = 4 + InitReads
  BY InitStepsAre
<1>4. /\ first[1] = Step("clear", n) /\ first[2] = On("join", n, "read")
      /\ first[3] = On("join", n, "write") /\ first[4] = On("join", n, "mem")
      /\ first[5] = Step("copy", n)
  OBVIOUS
<1>5. MoveSteps(n) = first \o rest
  BY DEF MoveSteps
<1> HIDE DEF first, rest
<1> DEFINE list == first \o rest
<1>6. /\ list \in Seq(AnyStep) /\ Len(list) = 9 + InitReads
      /\ \A i \in 1..5 : list[i] = first[i]
      /\ \A i \in 6..(9 + InitReads) : list[i] = rest[i - 5]
  <2> DEFINE m == 5
             k == 6
             l == 9 + InitReads
             r == 4 + InitReads
  <2>1. /\ m \in Nat /\ r \in Nat /\ k = m + 1 /\ l = m + r
        /\ first \in Seq(AnyStep) /\ Len(first) = m
        /\ rest \in Seq(AnyStep) /\ Len(rest) = r
    BY <1>2, <1>3, LifecycleAssumption
  <2> HIDE DEF m, k, l, r
  <2>2. /\ list \in Seq(AnyStep) /\ Len(list) = l
        /\ \A i \in 1..m : list[i] = first[i]
        /\ \A i \in k..l : list[i] = rest[i - m]
    BY <2>1, Joined
  <2> QED
    BY <2>2 DEF m, k, l
<1> HIDE DEF list
<1>7. SubSeq(list, 6, Len(list)) = rest
  <2> DEFINE sub == SubSeq(list, 6, Len(list))
  <2>1. \A i \in 6..Len(list) : list[i] \in AnyStep
    BY <1>6
  <2>2. /\ sub \in Seq(AnyStep) /\ Len(sub) = 4 + InitReads
        /\ \A i \in 1..(4 + InitReads) : sub[i] = list[6 + i - 1]
    BY <1>6, <2>1, SubSeqProperties, LifecycleAssumption
  <2>3. \A i \in 1..(4 + InitReads) : sub[i] = rest[i]
    BY <1>6, <2>2, LifecycleAssumption
  <2> HIDE DEF sub
  <2>4. sub = rest
    BY <1>3, <2>2, <2>3, SeqEqual
  <2> QED
    BY <2>4 DEF sub
<1>8. Left(list, 5) = rest
  BY <1>7 DEF Left
<1>9. /\ list[1] = Step("clear", n) /\ list[2] = On("join", n, "read")
      /\ list[3] = On("join", n, "write") /\ list[4] = On("join", n, "mem")
      /\ list[5] = Step("copy", n)
  BY <1>4, <1>6
<1>10. MoveSteps(n) = list
  BY <1>5 DEF list
<1> QED
  BY <1>6, <1>8, <1>9, <1>10 DEF rest

LEMMA DestroyStepsAre ==
  ASSUME NEW o \in Nat
  PROVE  DestroySteps(o) # <<>> /\ Head(DestroySteps(o)) = On("join", o, "write")
BY DEF DestroySteps

\* Taking a step of a list.
LEMMA Take ==
  ASSUME NEW list \in Seq(AnyStep), NEW k \in 0..Len(list)
  PROVE  /\ k < Len(list) => /\ Left(list, k) # <<>>
                             /\ Head(Left(list, k)) = list[k + 1]
                             /\ Tail(Left(list, k)) = Left(list, k + 1)
         /\ k = Len(list) => Left(list, k) = <<>>
         /\ Left(list, 0) = list
<1>1. Len(list) \in Nat
  BY LenProperties
<1>2. ASSUME k < Len(list)
      PROVE  /\ Left(list, k) # <<>>
             /\ Head(Left(list, k)) = list[k + 1]
             /\ Tail(Left(list, k)) = Left(list, k + 1)
  <2>1. k + 1 \in 1..Len(list) /\ Len(list) \in (k + 1)..Len(list)
    BY <1>1, <1>2
  <2>2. /\ Head(Left(list, k)) = list[k + 1]
        /\ Tail(Left(list, k)) = SubSeq(list, k + 1 + 1, Len(list))
    BY <2>1, HeadTailOfSubSeq DEF Left
  <2>3. \A i \in (k + 1)..Len(list) : list[i] \in AnyStep
    BY <1>1
  <2>4. Len(Left(list, k)) = Len(list) - (k + 1) + 1
    BY <1>1, <2>1, <2>3, SubSeqProperties DEF Left
  <2>5. Left(list, k) # <<>>
    BY <1>1, <1>2, <2>4, EmptySeq
  <2> QED
    BY <2>2, <2>5 DEF Left
<1>3. ASSUME k = Len(list) PROVE Left(list, k) = <<>>
  BY <1>1, <1>3, SubSeqEmpty DEF Left
<1>4. Left(list, 0) = list
  BY <1>1, SubSeqFull DEF Left
<1> QED
  BY <1>2, <1>3, <1>4

\* What main does next, and is left with.
LEMMA ConstructingNext ==
  ASSUME NEW n \in Objects, NEW k \in 0..(4 + InitReads), steps = Left(InitSteps(n), k)
  PROVE  /\ (steps = <<>>) <=> (k = 4 + InitReads)
         /\ steps # <<>> =>
              /\ k + 1 \in 0..(4 + InitReads) /\ Tail(steps) = Left(InitSteps(n), k + 1)
              /\ k = 0 => Head(steps) = Step("run", n)
              /\ k = 1 => Head(steps) = On("start", n, "write")
              /\ k = 2 => Head(steps) = On("start", n, "read")
              /\ k = 3 => Head(steps) = On("start", n, "mem")
              /\ k > 3 => Head(steps) = Request(k - 3, n)
              /\ k > 3 => k - 3 \in 1..InitReads
<1>1. n \in Nat
  BY LifecycleAssumption DEF Objects
<1> DEFINE list == InitSteps(n)
<1>2. list \in Seq(AnyStep) /\ Len(list) = 4 + InitReads
  BY <1>1, InitStepsAre
<1>3. /\ list[1] = Step("run", n) /\ list[2] = On("start", n, "write")
      /\ list[3] = On("start", n, "read") /\ list[4] = On("start", n, "mem")
      /\ \A i \in 5..(4 + InitReads) : list[i] = Request(i - 4, n)
  BY <1>1, InitStepsAre
<1> HIDE DEF list
<1>4. steps = Left(list, k)
  BY DEF list
<1>5. (k = 4 + InitReads) => steps = <<>>
  BY <1>2, <1>4, Take
<1>6. k < 4 + InitReads => /\ steps # <<>> /\ Head(steps) = list[k + 1]
                           /\ Tail(steps) = Left(list, k + 1)
  BY <1>2, <1>4, Take
<1>7. k > 3 /\ k < 4 + InitReads =>
        k + 1 \in 5..(4 + InitReads) /\ k + 1 - 4 = k - 3 /\ k - 3 \in 1..InitReads
  BY LifecycleAssumption
<1>8. k \in Nat /\ (k = 4 + InitReads \/ k < 4 + InitReads)
  BY LifecycleAssumption
<1>9. steps # <<>> => k < 4 + InitReads
  BY <1>5, <1>8
<1>10. k < 4 + InitReads => k + 1 \in 0..(4 + InitReads)
  BY LifecycleAssumption
<1>11. k < 4 + InitReads =>
         /\ k = 0 => list[k + 1] = Step("run", n)
         /\ k = 1 => list[k + 1] = On("start", n, "write")
         /\ k = 2 => list[k + 1] = On("start", n, "read")
         /\ k = 3 => list[k + 1] = On("start", n, "mem")
         /\ k > 3 => list[k + 1] = Request(k - 3, n)
  <2> SUFFICES ASSUME k < 4 + InitReads
               PROVE  /\ k = 0 => list[k + 1] = Step("run", n)
                      /\ k = 1 => list[k + 1] = On("start", n, "write")
                      /\ k = 2 => list[k + 1] = On("start", n, "read")
                      /\ k = 3 => list[k + 1] = On("start", n, "mem")
                      /\ k > 3 => list[k + 1] = Request(k - 3, n)
    OBVIOUS
  <2>1. CASE k > 3
    <3>1. list[k + 1] = Request(k + 1 - 4, n)
      BY <1>3, <1>7, <2>1
    <3> QED
      BY <1>7, <2>1, <3>1
  <2>2. CASE k \in 0..3
    BY <1>3, <2>2
  <2> QED
    BY <1>8, <2>1, <2>2
<1> QED
  BY <1>5, <1>6, <1>7, <1>8, <1>9, <1>10, <1>11 DEF list

LEMMA MovingNext ==
  ASSUME NEW n \in Objects, NEW k \in 0..4, steps = Left(MoveSteps(n), k)
  PROVE  /\ steps # <<>>
         /\ k < 4 => k + 1 \in 0..4 /\ Tail(steps) = Left(MoveSteps(n), k + 1)
         /\ k = 4 => Tail(steps) = Left(InitSteps(n + 1), 0)
         /\ k = 0 => Head(steps) = Step("clear", n)
         /\ k = 1 => Head(steps) = On("join", n, "read")
         /\ k = 2 => Head(steps) = On("join", n, "write")
         /\ k = 3 => Head(steps) = On("join", n, "mem")
         /\ k = 4 => Head(steps) = Step("copy", n)
<1>1. n \in Nat /\ n + 1 \in Nat
  BY LifecycleAssumption DEF Objects
<1> DEFINE list == MoveSteps(n)
<1>2. /\ list \in Seq(AnyStep) /\ Len(list) = 9 + InitReads
      /\ list[1] = Step("clear", n) /\ list[2] = On("join", n, "read")
      /\ list[3] = On("join", n, "write") /\ list[4] = On("join", n, "mem")
      /\ list[5] = Step("copy", n)
      /\ Left(list, 5) = InitSteps(n + 1)
  BY <1>1, MoveStepsAre
<1>3. Left(InitSteps(n + 1), 0) = InitSteps(n + 1)
  BY <1>1, InitStepsAre, Take, LifecycleAssumption
<1> HIDE DEF list
<1>4. steps = Left(list, k)
  BY DEF list
<1>5. k \in 0..Len(list) /\ k < Len(list)
  BY <1>2, LifecycleAssumption
<1>6. steps # <<>> /\ Head(steps) = list[k + 1] /\ Tail(steps) = Left(list, k + 1)
  BY <1>2, <1>4, <1>5, Take
<1>7. k \in {0, 1, 2, 3, 4}
  OBVIOUS
<1> QED
  BY <1>2, <1>3, <1>6, <1>7 DEF list

LEMMA Turns ==
  /\ StartedAt["write"] = 2 /\ StartedAt["read"] = 3 /\ StartedAt["mem"] = 4
  /\ JoinedAt["read"] = 2 /\ JoinedAt["write"] = 3 /\ JoinedAt["mem"] = 4
  /\ \A t \in Threads : t = "read" \/ t = "write" \/ t = "mem"
  /\ "read" \in Threads /\ "write" \in Threads /\ "mem" \in Threads
BY DEF StartedAt, JoinedAt, Threads

\* The step main is at in a constructor ...
LEMMA ConstructingDoes ==
  ASSUME NEW n \in Objects, NEW k \in 0..(4 + InitReads), Constructing(n, k),
         steps # <<>>
  PROVE  /\ Self = n
         /\ k + 1 \in 0..(4 + InitReads) /\ Tail(steps) = Left(InitSteps(n), k + 1)
         /\ k = 0 => Head(steps).do = "run"
         /\ k \in 1..3 => /\ Head(steps).do = "start"
                          /\ Head(steps).thread \in Threads
                          /\ StartedAt[Head(steps).thread] = k + 1
         /\ k > 3 => Head(steps).do = "request" /\ Head(steps).address \in 1..InitReads
<1>1. steps = Left(InitSteps(n), k)
  BY DEF Constructing
<1>2. /\ k + 1 \in 0..(4 + InitReads) /\ Tail(steps) = Left(InitSteps(n), k + 1)
      /\ k = 0 => Head(steps) = Step("run", n)
      /\ k = 1 => Head(steps) = On("start", n, "write")
      /\ k = 2 => Head(steps) = On("start", n, "read")
      /\ k = 3 => Head(steps) = On("start", n, "mem")
      /\ k > 3 => Head(steps) = Request(k - 3, n)
      /\ k > 3 => k - 3 \in 1..InitReads
  BY <1>1, ConstructingNext
<1>3. k = 0 \/ k = 1 \/ k = 2 \/ k = 3 \/ k > 3
  BY LifecycleAssumption
<1>4. CASE k = 0
  BY <1>2, <1>4, StepFields DEF Self
<1>5. CASE k = 1
  <2>1. Head(steps) = On("start", n, "write")
    BY <1>2, <1>5
  <2>2. /\ Head(steps).do = "start" /\ Head(steps).of = n
        /\ Head(steps).thread = "write"
    BY <2>1, StepFields
  <2> QED
    BY <1>2, <1>5, <2>2, Turns DEF Self
<1>6. CASE k = 2
  <2>1. Head(steps) = On("start", n, "read")
    BY <1>2, <1>6
  <2>2. /\ Head(steps).do = "start" /\ Head(steps).of = n
        /\ Head(steps).thread = "read"
    BY <2>1, StepFields
  <2> QED
    BY <1>2, <1>6, <2>2, Turns DEF Self
<1>7. CASE k = 3
  <2>1. Head(steps) = On("start", n, "mem")
    BY <1>2, <1>7
  <2>2. /\ Head(steps).do = "start" /\ Head(steps).of = n
        /\ Head(steps).thread = "mem"
    BY <2>1, StepFields
  <2> QED
    BY <1>2, <1>7, <2>2, Turns DEF Self
<1>8. CASE k > 3
  BY <1>2, <1>8, StepFields DEF Self
<1> QED
  BY <1>3, <1>4, <1>5, <1>6, <1>7, <1>8

\* ... in a move constructor ...
LEMMA MovingDoes ==
  ASSUME NEW n \in Objects, NEW k \in 0..4, Moving(n, k)
  PROVE  /\ Self = n
         /\ k < 4 => k + 1 \in 0..4 /\ Tail(steps) = Left(MoveSteps(n), k + 1)
         /\ k = 4 => Tail(steps) = Left(InitSteps(n + 1), 0)
         /\ k = 0 => Head(steps).do = "clear"
         /\ k \in 1..3 => /\ Head(steps).do = "join"
                          /\ Head(steps).thread \in Threads
                          /\ JoinedAt[Head(steps).thread] = k + 1
         /\ k = 4 => Head(steps).do = "copy"
<1>1. steps = Left(MoveSteps(n), k)
  BY DEF Moving
<1>2. /\ k < 4 => k + 1 \in 0..4 /\ Tail(steps) = Left(MoveSteps(n), k + 1)
      /\ k = 4 => Tail(steps) = Left(InitSteps(n + 1), 0)
      /\ k = 0 => Head(steps) = Step("clear", n)
      /\ k = 1 => Head(steps) = On("join", n, "read")
      /\ k = 2 => Head(steps) = On("join", n, "write")
      /\ k = 3 => Head(steps) = On("join", n, "mem")
      /\ k = 4 => Head(steps) = Step("copy", n)
  BY <1>1, MovingNext
<1>3. k = 0 \/ k = 1 \/ k = 2 \/ k = 3 \/ k = 4
  OBVIOUS
<1>4. CASE k = 0
  BY <1>2, <1>4, StepFields DEF Self
<1>5. CASE k = 1
  BY <1>2, <1>5, StepFields, Turns DEF Self
<1>6. CASE k = 2
  BY <1>2, <1>6, StepFields, Turns DEF Self
<1>7. CASE k = 3
  BY <1>2, <1>7, StepFields, Turns DEF Self
<1>8. CASE k = 4
  BY <1>2, <1>8, StepFields DEF Self
<1> QED
  BY <1>3, <1>4, <1>5, <1>6, <1>7, <1>8

\* ... and in a destructor.
LEMMA DestroyingDoes ==
  ASSUME NEW o \in Objects, Destroying(o)
  PROVE  Self = o /\ Head(steps).do = "join" /\ Head(steps).thread = "write"
<1>1. Head(steps) = On("join", o, "write")
  BY LifecycleAssumption, DestroyStepsAre DEF Destroying, Objects
<1> QED
  BY <1>1, StepFields DEF Self

\* Which step it is tells where main is.
LEMMA Whereabouts ==
  ASSUME Placed, NEW do, Doing(do)
  PROVE  \/ \E n \in Objects : Constructing(n, 0) /\ do = "run"
         \/ \E n \in Objects, k \in 1..3 : Constructing(n, k) /\ do = "start"
         \/ \E n \in Objects, k \in 4..(4 + InitReads) : Constructing(n, k) /\ do = "request"
         \/ \E n \in Objects : Moving(n, 0) /\ do = "clear"
         \/ \E n \in Objects, k \in 1..3 : Moving(n, k) /\ do = "join"
         \/ \E n \in Objects : Moving(n, 4) /\ do = "copy"
         \/ \E o \in Objects : Destroying(o) /\ do = "join"
<1>1. steps # <<>> /\ Head(steps).do = do
  BY DEF Doing
<1>2. ~NotOpened
  BY <1>1 DEF NotOpened
<1>3. ASSUME NEW n \in Objects, NEW k \in 0..(4 + InitReads), Constructing(n, k)
      PROVE  \/ k = 0 /\ do = "run"
             \/ k \in 1..3 /\ do = "start"
             \/ k \in 4..(4 + InitReads) /\ do = "request"
  <2>1. k = 0 \/ k \in 1..3 \/ (k > 3 /\ k \in 4..(4 + InitReads))
    BY LifecycleAssumption
  <2> QED
    BY <1>1, <1>3, <2>1, ConstructingDoes
<1>4. ASSUME NEW n \in Objects, NEW k \in 0..4, Moving(n, k)
      PROVE  (k = 0 /\ do = "clear") \/ (k \in 1..3 /\ do = "join") \/ (k = 4 /\ do = "copy")
  <2>1. k = 0 \/ k \in 1..3 \/ k = 4
    OBVIOUS
  <2> QED
    BY <1>1, <1>4, <2>1, MovingDoes
<1>5. ASSUME NEW o \in Objects, Destroying(o) PROVE do = "join"
  BY <1>1, <1>5, DestroyingDoes
<1> QED
  BY <1>2, <1>3, <1>4, <1>5 DEF Placed

-----------------------------------------------------------------------------
(* The object that holds the device, and the reads it awaits. *)

LEMMA Types ==
  ASSUME TypeOK
  PROVE  /\ objects \in 0..MaxObjects /\ objects \in Nat
         /\ m_device \in [Objects -> BOOLEAN] /\ m_running \in [Objects -> BOOLEAN]
         /\ wait_for_read \in [Objects -> BOOLEAN]
         /\ thread \in [Objects -> [Threads -> {"none", "test", "busy", "ended", "joined"}]]
         /\ read_requests \in [Objects -> Seq(1..InitReads)]
         /\ queue \in [Objects -> Seq(1..InitReads)]
         /\ m_write_queue \in [Objects -> Seq(1..InitReads)]
         /\ pending \in Seq(1..InitReads)
BY DEF TypeOK

LEMMA TypesNext ==
  ASSUME TypeOK, objects' \in 0..MaxObjects, destroyed' \subseteq 1..objects',
         terminated' \in BOOLEAN, open' \in BOOLEAN,
         m_device' \in [Objects -> BOOLEAN], m_running' \in [Objects -> BOOLEAN],
         wait_for_read' \in [Objects -> BOOLEAN],
         thread' \in [Objects -> [Threads -> {"none", "test", "busy", "ended", "joined"}]],
         read_requests' \in [Objects -> Seq(1..InitReads)],
         queue' \in [Objects -> Seq(1..InitReads)],
         m_write_queue' \in [Objects -> Seq(1..InitReads)],
         pending' \in Seq(1..InitReads),
         \A o \in Objects : \/ wait_for_read'[o] = wait_for_read[o]
                            \/ wait_for_read'[o] = FALSE
                            \/ thread[o]["mem"] # "none",
         \A o \in Objects : thread[o]["mem"] # "none" => thread'[o]["mem"] # "none"
  PROVE  TypeOK'
BY DEF TypeOK

\* The holder keeps the device in a step that leaves the other objects alone.
LEMMA HolderKept ==
  ASSUME NEW n, NEW running, Holder(n, running), UNCHANGED <<open, m_device, m_running>>,
         \A o \in Objects : o > n => queue'[o] = queue[o],
         \A o \in Objects \ {n}, t \in Threads : thread'[o][t] = thread[o][t]
  PROVE  Holder(n, running)'
BY DEF Holder

Awaited(n) == read_requests[n] = pending \o m_write_queue[n] \o queue[n]

LEMMA Carried ==
  ASSUME NEW n, NEW running, Holder(n, running)
  PROVE  ReadsCarriedOver <=> (Dropped \/ Awaited(n))
BY DEF Holder, ReadsCarriedOver, Awaited

LEMMA CarriedNext ==
  ASSUME NEW n, NEW running, Holder(n, running)', Dropped' \/ Awaited(n)'
  PROVE  ReadsCarriedOver'
BY DEF Holder, ReadsCarriedOver, Awaited

\* What was dropped stays dropped.
LEMMA DroppedStays ==
  ASSUME TypeOK, NEW n, NEW running, NEW runs, Holder(n, running), Holder(n, runs)',
         objects' = objects \/ objects' = objects + 1,
         \A o \in Objects \ {n} : queue'[o] = queue[o], Dropped
  PROVE  Dropped'
<1>1. PICK o \in Objects : MovedFrom(o) /\ queue[o] # <<>>
  BY DEF Dropped
<1>2. o # n /\ m_device'[o] = FALSE
  BY <1>1 DEF Holder, MovedFrom
<1>3. objects \in Nat /\ o \in Nat
  BY Types, LifecycleAssumption DEF Objects
<1>4. o < objects'
  BY <1>1, <1>3 DEF MovedFrom
<1> QED
  BY <1>1, <1>2, <1>4 DEF Dropped, MovedFrom

\* A step that leaves the sequences of the holder alone, too.
LEMMA NothingMoves ==
  ASSUME TypeOK, ReadsCarriedOver, NEW n, NEW running, NEW runs, Holder(n, running),
         Holder(n, runs)', objects' = objects \/ objects' = objects + 1,
         UNCHANGED <<read_requests, queue, m_write_queue, pending>>
  PROVE  ReadsCarriedOver'
<1>1. Dropped \/ Awaited(n)
  BY Carried
<1>2. Dropped' \/ Awaited(n)'
  BY <1>1, DroppedStays DEF Awaited
<1> QED
  BY <1>2, CarriedNext

\* What a sequence loses at its head, the one before it gains at its end.
LEMMA HeadMoves ==
  ASSUME NEW S, NEW s \in Seq(S), NEW t \in Seq(S), t # <<>>
  PROVE  /\ Append(s, Head(t)) \in Seq(S) /\ Tail(t) \in Seq(S)
         /\ Append(s, Head(t)) \o Tail(t) = s \o t
<1>1. Head(t) \in S /\ Tail(t) \in Seq(S) /\ <<Head(t)>> \in Seq(S)
  BY HeadTailProperties
<1>2. Append(s, Head(t)) = s \o <<Head(t)>> /\ Append(s, Head(t)) \in Seq(S)
  BY <1>1, AppendIsConcat, AppendProperties
<1>3. <<Head(t)>> \o Tail(t) = t
  BY HeadTailProperties, ConcatSimplifications
<1>4. (s \o <<Head(t)>>) \o Tail(t) = s \o (<<Head(t)>> \o Tail(t))
  BY <1>1, ConcatAssociative
<1> QED
  BY <1>1, <1>2, <1>3, <1>4

LEMMA HeadOfConcat ==
  ASSUME NEW S, NEW s \in Seq(S), NEW t \in Seq(S), s # <<>>
  PROVE  s \o t # <<>> /\ Head(s \o t) = Head(s) /\ Tail(s \o t) = Tail(s) \o t
<1>1. /\ Head(s) \in S /\ Tail(s) \in Seq(S) /\ <<Head(s)>> \in Seq(S)
      /\ s = <<Head(s)>> \o Tail(s)
  BY HeadTailProperties, ConcatSimplifications
<1>2. s \o t = <<Head(s)>> \o (Tail(s) \o t) /\ Tail(s) \o t \in Seq(S)
  BY <1>1, ConcatAssociative, ConcatProperties
<1>3. s \o t # <<>>
  BY ConcatEqualIffEmpty, ConcatProperties, EmptySeq
<1> QED
  BY <1>1, <1>2, <1>3, ConcatSimplifications

-----------------------------------------------------------------------------
(* A step of a thread. *)

\* A thread that runs is the holder's; its step leaves main where it is.
LEMMA ThreadStep ==
  ASSUME TypeOK, Placed, NEW o \in Objects, NEW k \in Threads, thread[o][k] \in Alive,
         NEW label \in Alive \cup {"ended"}, label = "ended" => ~m_running[o],
         thread' = [thread EXCEPT ![o][k] = label],
         UNCHANGED <<steps, objects, open, m_device, m_running>>,
         \A p \in Objects \ {o} : queue'[p] = queue[p]
  PROVE  /\ Placed'
         /\ \E running \in BOOLEAN : Holder(o, running) /\ Holder(o, running)'
<1>1. thread \in [Objects -> [Threads -> {"none", "test", "busy", "ended", "joined"}]]
  BY Types
<1>2. /\ \A p \in Objects \ {o}, t \in Threads : thread'[p][t] = thread[p][t]
      /\ \A t \in Threads : thread'[o][t] = IF t = k THEN label ELSE thread[o][t]
  BY <1>1
<1>3. "none" \notin Alive /\ "joined" \notin Alive /\ "ended" \notin Alive
  BY DEF Alive
<1>4. ASSUME NEW n, NEW running, Holder(n, running)
      PROVE  o = n /\ Holder(n, running)'
  <2>1. o = n
    BY <1>3, <1>4 DEF Holder
  <2>2. n \in Nat /\ \A p \in Objects : p > n => p # o
    BY <2>1, LifecycleAssumption DEF Objects
  <2> QED
    BY <1>2, <1>4, <2>1, <2>2, HolderKept
<1>5. CASE NotOpened
  BY <1>3, <1>5 DEF NotOpened
<1>6. ASSUME NEW n \in Objects, NEW i \in 0..(4 + InitReads), Constructing(n, i)
      PROVE  Constructing(n, i)' /\ o = n /\ Holder(o, i > 0) /\ Holder(o, i > 0)'
  <2>1. Holder(n, i > 0)
    BY <1>6 DEF Constructing
  <2>2. o = n /\ Holder(n, i > 0)'
    BY <1>4, <2>1
  <2>3. StartedAt[k] <= i
    BY <1>3, <1>6, <2>2 DEF Constructing
  <2>4. label \in Alive
    <3>1. i > 0
      BY <2>3, Turns, LifecycleAssumption
    <3> QED
      BY <2>1, <2>2, <3>1 DEF Holder
  <2>5. \A t \in Threads : IF StartedAt[t] <= i THEN thread'[n][t] \in Alive
                           ELSE thread'[n][t] = "none"
    BY <1>2, <1>6, <2>2, <2>3, <2>4 DEF Constructing
  <2> QED
    BY <1>6, <2>1, <2>2, <2>5 DEF Constructing
<1>7. ASSUME NEW n \in Objects, NEW i \in 0..4, Moving(n, i)
      PROVE  Moving(n, i)' /\ o = n /\ Holder(o, i = 0) /\ Holder(o, i = 0)'
  <2>1. Holder(n, i = 0)
    BY <1>7 DEF Moving
  <2>2. o = n /\ Holder(n, i = 0)'
    BY <1>4, <2>1
  <2>3. ~(JoinedAt[k] <= i)
    BY <1>3, <1>7, <2>2 DEF Moving
  <2>4. label \in Alive \/ (i > 0 /\ label = "ended")
    BY <2>1, <2>2 DEF Holder
  <2>5. \A t \in Threads : IF JoinedAt[t] <= i THEN thread'[n][t] = "joined"
                           ELSE thread'[n][t] \in Alive \/ (i > 0 /\ thread'[n][t] = "ended")
    BY <1>2, <1>7, <2>2, <2>3, <2>4 DEF Moving
  <2> QED
    BY <1>7, <2>1, <2>2, <2>5 DEF Moving
<1>8. ASSUME NEW p \in Objects, Destroying(p)
      PROVE  Destroying(p)' /\ Holder(o, TRUE) /\ Holder(o, TRUE)'
  <2>1. Holder(objects, TRUE)
    BY <1>8 DEF Destroying
  <2>2. o = objects /\ Holder(objects, TRUE)'
    BY <1>4, <2>1
  <2>3. label \in Alive
    BY <2>1, <2>2 DEF Holder
  <2>4. \A t \in Threads : thread'[objects][t] \in Alive
    BY <1>2, <1>8, <2>2, <2>3 DEF Destroying
  <2> QED
    BY <1>8, <2>1, <2>2, <2>4 DEF Destroying
<1>9. ASSUME NEW n \in Objects, NEW i \in 0..(4 + InitReads), Constructing(n, i)
      PROVE  /\ Placed'
             /\ \E running \in BOOLEAN : Holder(o, running) /\ Holder(o, running)'
  <2>1. Constructing(n, i)' /\ Holder(o, i > 0) /\ Holder(o, i > 0)'
    BY <1>6, <1>9
  <2>2. Placed'
    BY <2>1 DEF Placed
  <2>3. (i > 0) \in BOOLEAN
    OBVIOUS
  <2> QED
    BY <2>1, <2>2, <2>3
<1>10. ASSUME NEW n \in Objects, NEW i \in 0..4, Moving(n, i)
       PROVE  /\ Placed'
              /\ \E running \in BOOLEAN : Holder(o, running) /\ Holder(o, running)'
  BY <1>7, <1>10 DEF Placed
<1>11. ASSUME NEW p \in Objects, Destroying(p)
       PROVE  /\ Placed'
              /\ \E running \in BOOLEAN : Holder(o, running) /\ Holder(o, running)'
  BY <1>8, <1>11 DEF Placed
<1> QED
  BY <1>5, <1>9, <1>10, <1>11 DEF Placed

\* It types what it writes.
LEMMA ThreadTypes ==
  ASSUME TypeOK, NEW o \in Objects, NEW k \in Threads, thread[o][k] \in Alive,
         NEW label \in Alive \cup {"ended"},
         thread' = [thread EXCEPT ![o][k] = label],
         UNCHANGED <<objects, destroyed, terminated, open, m_device, m_running>>,
         wait_for_read' \in [Objects -> BOOLEAN],
         read_requests' \in [Objects -> Seq(1..InitReads)],
         queue' \in [Objects -> Seq(1..InitReads)],
         m_write_queue' \in [Objects -> Seq(1..InitReads)],
         pending' \in Seq(1..InitReads),
         \A p \in Objects : \/ wait_for_read'[p] = wait_for_read[p]
                            \/ wait_for_read'[p] = FALSE
                            \/ thread[p]["mem"] # "none"
  PROVE  TypeOK'
<1>1. label \in {"test", "busy", "ended"} /\ label # "none"
  BY DEF Alive
<1>2. thread \in [Objects -> [Threads -> {"none", "test", "busy", "ended", "joined"}]]
  BY Types
<1>3. thread' \in [Objects -> [Threads -> {"none", "test", "busy", "ended", "joined"}]]
  BY <1>1, <1>2
<1>4. "mem" \in Threads
  BY Turns
<1>5. \A p \in Objects : thread[p]["mem"] # "none" => thread'[p]["mem"] # "none"
  BY <1>1, <1>2, <1>4
<1>6. /\ objects' \in 0..MaxObjects /\ destroyed' \subseteq 1..objects'
      /\ terminated' \in BOOLEAN /\ open' \in BOOLEAN
      /\ m_device' \in [Objects -> BOOLEAN] /\ m_running' \in [Objects -> BOOLEAN]
  BY DEF TypeOK
<1> QED
  BY <1>3, <1>5, <1>6, TypesNext

LEMMA TestKeeps ==
  ASSUME LifeInv, NEW o \in Objects, NEW k \in Threads, Test(o, k)
  PROVE  LifeInv'
<1> DEFINE label == IF m_running[o] THEN "busy" ELSE "ended"
<1>1. /\ label \in Alive \cup {"ended"} /\ (label = "ended" => ~m_running[o])
      /\ thread[o][k] \in Alive
  BY DEF Alive, Test
<1>2. /\ thread' = [thread EXCEPT ![o][k] = label]
      /\ UNCHANGED <<mainVars, deviceVars, m_running, memVars, m_write_queue, pending>>
  BY DEF Test, Goto
<1> HIDE DEF label
<1>3. TypeOK /\ Placed /\ ReadsCarriedOver
  BY DEF LifeInv
<1>4. /\ UNCHANGED <<steps, objects, destroyed, terminated, open, m_device, m_running>>
      /\ UNCHANGED <<read_requests, queue, wait_for_read, m_write_queue, pending>>
  BY <1>2 DEF mainVars, deviceVars, memVars
<1>5. TypeOK'
  BY <1>1, <1>2, <1>3, <1>4, Types, ThreadTypes
<1>6. Placed' /\ \E running \in BOOLEAN : Holder(o, running) /\ Holder(o, running)'
  BY <1>1, <1>2, <1>3, <1>4, ThreadStep
<1>7. ReadsCarriedOver'
  BY <1>3, <1>4, <1>6, NothingMoves
<1> QED
  BY <1>5, <1>6, <1>7 DEF LifeInv

LEMMA ReadOtherKeeps ==
  ASSUME LifeInv, NEW o \in Objects, ReadOther(o)
  PROVE  LifeInv'
<1>1. /\ thread[o]["read"] \in Alive /\ "test" \in Alive \cup {"ended"}
      /\ "read" \in Threads
  BY Turns DEF Alive, ReadOther
<1>2. /\ thread' = [thread EXCEPT ![o]["read"] = "test"]
      /\ UNCHANGED <<mainVars, deviceVars, m_running, memVars, m_write_queue, pending>>
  BY DEF ReadOther, Goto
<1>3. TypeOK /\ Placed /\ ReadsCarriedOver
  BY DEF LifeInv
<1>4. /\ UNCHANGED <<steps, objects, destroyed, terminated, open, m_device, m_running>>
      /\ UNCHANGED <<read_requests, queue, wait_for_read, m_write_queue, pending>>
  BY <1>2 DEF mainVars, deviceVars, memVars
<1>5. TypeOK'
  BY <1>1, <1>2, <1>3, <1>4, Types, ThreadTypes
<1>6. Placed' /\ \E running \in BOOLEAN : Holder(o, running) /\ Holder(o, running)'
  BY <1>1, <1>2, <1>3, <1>4, ThreadStep
<1>7. ReadsCarriedOver'
  BY <1>3, <1>4, <1>6, NothingMoves
<1> QED
  BY <1>5, <1>6, <1>7 DEF LifeInv

LEMMA WriteReportKeeps ==
  ASSUME LifeInv, NEW o \in Objects, WriteReport(o)
  PROVE  LifeInv'
<1> DEFINE reads == 1..InitReads
<1>1. /\ thread[o]["write"] \in Alive /\ "test" \in Alive \cup {"ended"}
      /\ "write" \in Threads
  BY Turns DEF Alive, WriteReport
<1>2. /\ thread' = [thread EXCEPT ![o]["write"] = "test"]
      /\ UNCHANGED <<mainVars, deviceVars, m_running, memVars>>
  BY DEF WriteReport, Goto
<1>3. TypeOK /\ Placed /\ ReadsCarriedOver
  BY DEF LifeInv
<1>4. /\ UNCHANGED <<steps, objects, destroyed, terminated, open, m_device, m_running>>
      /\ UNCHANGED <<read_requests, queue, wait_for_read>>
  BY <1>2 DEF mainVars, deviceVars, memVars
<1>5. /\ pending \in Seq(reads) /\ m_write_queue[o] \in Seq(reads)
      /\ m_write_queue \in [Objects -> Seq(reads)]
  BY <1>3, Types
<1>6. /\ pending' \in Seq(reads) /\ m_write_queue' \in [Objects -> Seq(reads)]
      /\ pending' \o m_write_queue'[o] = pending \o m_write_queue[o]
  <2>1. CASE m_write_queue[o] = <<>>
    BY <1>5, <2>1 DEF WriteReport
  <2>2. CASE m_write_queue[o] # <<>>
    <3>1. /\ pending' = Append(pending, Head(m_write_queue[o]))
          /\ m_write_queue' = [m_write_queue EXCEPT ![o] = Tail(@)]
      BY <2>2 DEF WriteReport
    <3>2. /\ Append(pending, Head(m_write_queue[o])) \in Seq(reads)
          /\ Tail(m_write_queue[o]) \in Seq(reads)
          /\ Append(pending, Head(m_write_queue[o])) \o Tail(m_write_queue[o])
               = pending \o m_write_queue[o]
      BY <1>5, <2>2, HeadMoves
    <3>3. m_write_queue'[o] = Tail(m_write_queue[o])
      BY <1>5, <3>1
    <3> QED
      BY <1>5, <3>1, <3>2, <3>3
  <2> QED
    BY <2>1, <2>2
<1>7. TypeOK'
  BY <1>1, <1>2, <1>3, <1>4, <1>6, Types, ThreadTypes
<1>8. Placed' /\ \E running \in BOOLEAN : Holder(o, running) /\ Holder(o, running)'
  BY <1>1, <1>2, <1>3, <1>4, ThreadStep
<1>9. ReadsCarriedOver'
  <2>1. Dropped \/ Awaited(o)
    BY <1>3, <1>8, Carried
  <2>2. Dropped => Dropped'
    BY <1>3, <1>4, <1>8, DroppedStays
  <2>3. Awaited(o) => Awaited(o)'
    BY <1>4, <1>6 DEF Awaited
  <2> QED
    BY <1>8, <2>1, <2>2, <2>3, CarriedNext
<1> QED
  BY <1>7, <1>8, <1>9 DEF LifeInv

LEMMA SendRequestKeeps ==
  ASSUME LifeInv, NEW o \in Objects, SendRequest(o)
  PROVE  LifeInv'
<1> DEFINE reads == 1..InitReads
<1>1. /\ thread[o]["mem"] \in Alive /\ "test" \in Alive \cup {"ended"}
      /\ "mem" \in Threads /\ thread[o]["mem"] # "none"
  BY Turns DEF Alive, SendRequest
<1>2. /\ thread' = [thread EXCEPT ![o]["mem"] = "test"]
      /\ UNCHANGED <<mainVars, deviceVars, m_running, read_requests, pending>>
  BY DEF SendRequest, Goto
<1>3. TypeOK /\ Placed /\ ReadsCarriedOver
  BY DEF LifeInv
<1>4. /\ UNCHANGED <<steps, objects, destroyed, terminated, open, m_device, m_running>>
      /\ UNCHANGED <<read_requests, pending>>
  BY <1>2 DEF mainVars, deviceVars
<1>5. /\ pending \in Seq(reads) /\ m_write_queue[o] \in Seq(reads) /\ queue[o] \in Seq(reads)
      /\ m_write_queue \in [Objects -> Seq(reads)] /\ queue \in [Objects -> Seq(reads)]
      /\ wait_for_read \in [Objects -> BOOLEAN]
  BY <1>3, Types
<1>6. /\ m_write_queue' \in [Objects -> Seq(reads)] /\ queue' \in [Objects -> Seq(reads)]
      /\ wait_for_read' \in [Objects -> BOOLEAN]
      /\ \A p \in Objects \ {o} : /\ queue'[p] = queue[p]
                                  /\ wait_for_read'[p] = wait_for_read[p]
      /\ m_write_queue'[o] \o queue'[o] = m_write_queue[o] \o queue[o]
  <2>1. CASE queue[o] = <<>>
    BY <1>5, <2>1 DEF SendRequest
  <2>2. CASE queue[o] # <<>>
    <3>1. /\ m_write_queue' = [m_write_queue EXCEPT ![o] = Append(@, Head(queue[o]))]
          /\ wait_for_read' = [wait_for_read EXCEPT ![o] = TRUE]
          /\ queue' = [queue EXCEPT ![o] = Tail(@)]
      BY <2>2 DEF SendRequest
    <3>2. /\ Append(m_write_queue[o], Head(queue[o])) \in Seq(reads)
          /\ Tail(queue[o]) \in Seq(reads)
          /\ Append(m_write_queue[o], Head(queue[o])) \o Tail(queue[o])
               = m_write_queue[o] \o queue[o]
      BY <1>5, <2>2, HeadMoves
    <3>3. /\ m_write_queue'[o] = Append(m_write_queue[o], Head(queue[o]))
          /\ queue'[o] = Tail(queue[o])
      BY <1>5, <3>1
    <3> QED
      BY <1>5, <3>1, <3>2, <3>3
  <2> QED
    BY <2>1, <2>2
<1>7. TypeOK'
  BY <1>1, <1>2, <1>3, <1>4, <1>6, Types, ThreadTypes
<1>8. Placed' /\ \E running \in BOOLEAN : Holder(o, running) /\ Holder(o, running)'
  BY <1>1, <1>2, <1>3, <1>4, <1>6, ThreadStep
<1>9. ReadsCarriedOver'
  <2>1. Dropped \/ Awaited(o)
    BY <1>3, <1>8, Carried
  <2>2. Dropped => Dropped'
    BY <1>3, <1>4, <1>6, <1>8, DroppedStays
  <2>3. (pending \o m_write_queue[o]) \o queue[o]
          = pending \o (m_write_queue[o] \o queue[o])
    <3> DEFINE w == m_write_queue[o]
               q == queue[o]
    <3>1. w \in Seq(reads) /\ q \in Seq(reads) /\ pending \in Seq(reads)
      BY <1>5
    <3> HIDE DEF w, q, reads
    <3>2. (pending \o w) \o q = pending \o (w \o q)
      BY <3>1, ConcatAssociative, SMTT(20)
    <3> QED
      BY <3>2 DEF w, q
  <2>4. (pending \o m_write_queue'[o]) \o queue'[o]
          = pending \o (m_write_queue'[o] \o queue'[o])
    <3> DEFINE w == m_write_queue'[o]
               q == queue'[o]
    <3>1. w \in Seq(reads) /\ q \in Seq(reads) /\ pending \in Seq(reads)
      BY <1>5, <1>6
    <3> HIDE DEF w, q, reads
    <3>2. (pending \o w) \o q = pending \o (w \o q)
      BY <3>1, ConcatAssociative, SMTT(20)
    <3> QED
      BY <3>2 DEF w, q
  <2>5. Awaited(o) => Awaited(o)'
    BY <1>4, <1>6, <2>3, <2>4 DEF Awaited
  <2> QED
    BY <1>8, <2>1, <2>2, <2>5, CarriedNext
<1> QED
  BY <1>7, <1>8, <1>9 DEF LifeInv

LEMMA ReadAnswerKeeps ==
  ASSUME LifeInv, NEW o \in Objects, ReadAnswer(o)
  PROVE  LifeInv'
<1> DEFINE reads == 1..InitReads
           awaited == read_requests[o] # <<>> /\ Head(read_requests[o]) = Head(pending)
<1>1. /\ thread[o]["read"] \in Alive /\ "test" \in Alive \cup {"ended"}
      /\ "read" \in Threads /\ pending # <<>>
  BY Turns DEF Alive, ReadAnswer
<1>2. /\ thread' = [thread EXCEPT ![o]["read"] = "test"]
      /\ UNCHANGED <<mainVars, deviceVars, m_running, queue, m_write_queue>>
      /\ pending' = Tail(pending)
      /\ awaited => /\ read_requests' = [read_requests EXCEPT ![o] = Tail(@)]
                    /\ wait_for_read' = [wait_for_read EXCEPT ![o] = FALSE]
      /\ ~awaited => UNCHANGED <<read_requests, wait_for_read>>
  BY DEF ReadAnswer, Goto
<1>3. TypeOK /\ Placed /\ ReadsCarriedOver
  BY DEF LifeInv
<1>4. /\ UNCHANGED <<steps, objects, destroyed, terminated, open, m_device, m_running>>
      /\ UNCHANGED <<queue, m_write_queue>>
  BY <1>2 DEF mainVars, deviceVars
<1>5. /\ pending \in Seq(reads) /\ read_requests[o] \in Seq(reads)
      /\ m_write_queue[o] \in Seq(reads) /\ queue[o] \in Seq(reads)
      /\ read_requests \in [Objects -> Seq(reads)] /\ queue \in [Objects -> Seq(reads)]
      /\ m_write_queue \in [Objects -> Seq(reads)]
      /\ wait_for_read \in [Objects -> BOOLEAN]
  BY <1>3, Types
<1>6. Tail(pending) \in Seq(reads) /\ (awaited => Tail(read_requests[o]) \in Seq(reads))
  BY <1>1, <1>5, HeadTailProperties
<1>7. /\ pending' \in Seq(reads) /\ read_requests' \in [Objects -> Seq(reads)]
      /\ wait_for_read' \in [Objects -> BOOLEAN]
      /\ \A p \in Objects : \/ wait_for_read'[p] = wait_for_read[p]
                            \/ wait_for_read'[p] = FALSE
      /\ awaited => read_requests'[o] = Tail(read_requests[o])
  BY <1>2, <1>5, <1>6
<1>8. TypeOK'
  BY <1>1, <1>2, <1>3, <1>4, <1>5, <1>7, ThreadTypes
<1>9. Placed' /\ \E running \in BOOLEAN : Holder(o, running) /\ Holder(o, running)'
  BY <1>1, <1>2, <1>3, <1>4, ThreadStep
<1>10. ReadsCarriedOver'
  <2>1. Dropped \/ Awaited(o)
    BY <1>3, <1>9, Carried
  <2>2. Dropped => Dropped'
    BY <1>3, <1>4, <1>9, DroppedStays
  <2>3. ASSUME Awaited(o) PROVE Awaited(o)'
    <3> DEFINE rest == pending \o m_write_queue[o]
               q == queue[o]
    <3>1. /\ rest \in Seq(reads) /\ rest # <<>> /\ Head(rest) = Head(pending)
          /\ Tail(rest) = Tail(pending) \o m_write_queue[o] /\ q \in Seq(reads)
      BY <1>1, <1>5, HeadOfConcat, ConcatProperties
    <3>2. read_requests[o] = rest \o q
      BY <2>3 DEF Awaited
    <3> HIDE DEF rest, reads, q
    <3>3. /\ read_requests[o] # <<>> /\ Head(read_requests[o]) = Head(rest)
          /\ Tail(read_requests[o]) = Tail(rest) \o q
      BY <3>1, <3>2, HeadOfConcat
    <3>4. read_requests'[o] = Tail(read_requests[o])
      BY <1>7, <3>1, <3>3
    <3> QED
      BY <1>2, <1>4, <3>1, <3>3, <3>4 DEF Awaited, q
  <2> QED
    BY <1>9, <2>1, <2>2, <2>3, CarriedNext
<1> QED
  BY <1>8, <1>9, <1>10 DEF LifeInv

-----------------------------------------------------------------------------
(* A step of main. *)

\* It leaves the memory requests, the write queue and the answers alone.
LEMMA MainTypes ==
  ASSUME TypeOK, objects' \in 0..MaxObjects, destroyed' \subseteq 1..objects',
         terminated' \in BOOLEAN, open' \in BOOLEAN,
         m_device' \in [Objects -> BOOLEAN], m_running' \in [Objects -> BOOLEAN],
         thread' \in [Objects -> [Threads -> {"none", "test", "busy", "ended", "joined"}]],
         \A o \in Objects : thread[o]["mem"] # "none" => thread'[o]["mem"] # "none",
         UNCHANGED <<memVars, m_write_queue, pending>>
  PROVE  TypeOK'
BY Types, TypesNext DEF memVars

LEMMA AssignKeeps ==
  ASSUME LifeInv, Assign
  PROVE  LifeInv'
<1>1. TypeOK /\ Placed /\ ReadsCarriedOver
  BY DEF LifeInv
<1>2. PICK do \in {"run", "clear", "close", "members"} :
        /\ Doing(do)
        /\ m_running' = [m_running EXCEPT ![Self] = CASE do = "run"   -> TRUE
                                                      [] do = "clear" -> FALSE
                                                      [] OTHER        -> @]
        /\ open' = (open /\ ~(do = "close" /\ m_device[Self]))
        /\ terminated' = (do = "members" /\ \E k \in Threads : Joinable(Self, k))
  BY DEF Assign
<1>3. /\ steps' = Tail(steps) /\ UNCHANGED <<objects, destroyed, m_device, thread>>
      /\ UNCHANGED <<memVars, m_write_queue, pending>> /\ steps # <<>>
      /\ UNCHANGED <<read_requests, queue>>
  BY <1>2 DEF Assign, Doing, memVars
<1>4. /\ m_running \in [Objects -> BOOLEAN]
      /\ m_device' \in [Objects -> BOOLEAN]
      /\ thread' \in [Objects -> [Threads -> {"none", "test", "busy", "ended", "joined"}]]
      /\ objects' \in 0..MaxObjects /\ destroyed' \subseteq 1..objects'
      /\ open \in BOOLEAN /\ objects \in Nat
  BY <1>1, <1>3, Types DEF TypeOK
<1>5. \/ do = "run" /\ \E n \in Objects : Constructing(n, 0)
      \/ do = "clear" /\ \E n \in Objects : Moving(n, 0)
  BY <1>1, <1>2, Whereabouts
<1>6. terminated' \in BOOLEAN /\ open' = open
  <2>1. open' = (open /\ ~(do = "close" /\ m_device[Self]))
    BY <1>2
  <2>2. terminated' = (do = "members" /\ \E k \in Threads : Joinable(Self, k))
    BY <1>2
  <2>3. do # "close" /\ do # "members"
    BY <1>5
  <2> QED
    BY <1>4, <2>1, <2>2, <2>3
<1>7. ASSUME NEW n \in Objects, Constructing(n, 0), do = "run"
      PROVE  LifeInv'
  <2>1. /\ Self = n /\ 1 \in 0..(4 + InitReads) /\ Tail(steps) = Left(InitSteps(n), 1)
    BY <1>3, <1>7, ConstructingDoes, LifecycleAssumption
  <2>2. m_running' = [m_running EXCEPT ![n] = TRUE]
    BY <1>2, <1>7, <2>1
  <2>3. Holder(n, FALSE)
    BY <1>7 DEF Constructing, Holder
  <2>4. Holder(n, TRUE)'
    BY <1>3, <1>4, <1>6, <2>2, <2>3 DEF Holder
  <2>5. \A t \in Threads : StartedAt[t] > 1 /\ thread[n][t] = "none"
    BY <1>7, Turns DEF Constructing
  <2>6. \A t \in Threads : IF StartedAt[t] <= 1 THEN thread'[n][t] \in Alive
                           ELSE thread'[n][t] = "none"
    BY <1>3, <2>5, Turns
  <2>7. Constructing(n, 1)'
    BY <1>3, <1>7, <2>1, <2>4, <2>6 DEF Constructing, Holder
  <2>8. TypeOK'
    BY <1>1, <1>3, <1>4, <1>6, <2>2, MainTypes
  <2>9. ReadsCarriedOver'
    BY <1>1, <1>3, <2>3, <2>4, NothingMoves
  <2> QED
    BY <2>1, <2>7, <2>8, <2>9 DEF LifeInv, Placed
<1>8. ASSUME NEW n \in Objects, Moving(n, 0), do = "clear"
      PROVE  LifeInv'
  <2>1. Self = n /\ Tail(steps) = Left(MoveSteps(n), 1)
    BY <1>8, MovingDoes
  <2>2. m_running' = [m_running EXCEPT ![n] = FALSE]
    BY <1>2, <1>8, <2>1
  <2>3. Holder(n, TRUE)
    BY <1>8 DEF Moving, Holder
  <2>4. Holder(n, FALSE)'
    BY <1>3, <1>4, <1>6, <2>2, <2>3 DEF Holder
  <2>5. \A t \in Threads : ~(JoinedAt[t] <= 1) /\ thread[n][t] \in Alive
    BY <1>8, Turns DEF Moving
  <2>6. \A t \in Threads : IF JoinedAt[t] <= 1 THEN thread'[n][t] = "joined"
                           ELSE thread'[n][t] \in Alive \/ (1 > 0 /\ thread'[n][t] = "ended")
    BY <1>3, <2>5
  <2>7. Moving(n, 1)'
    BY <1>3, <1>8, <2>1, <2>4, <2>6 DEF Moving, Holder
  <2>8. TypeOK'
    BY <1>1, <1>3, <1>4, <1>6, <2>2, MainTypes
  <2>9. ReadsCarriedOver'
    BY <1>1, <1>3, <2>3, <2>4, NothingMoves
  <2> QED
    BY <2>7, <2>8, <2>9 DEF LifeInv, Placed
<1> QED
  BY <1>5, <1>7, <1>8

LEMMA StartThreadKeeps ==
  ASSUME LifeInv, StartThread
  PROVE  LifeInv'
<1> DEFINE k == Head(steps).thread
<1>1. TypeOK /\ Placed /\ ReadsCarriedOver
  BY DEF LifeInv
<1>2. /\ Doing("start") /\ thread' = [thread EXCEPT ![Self][k] = "test"]
      /\ steps' = Tail(steps) /\ steps # <<>>
      /\ UNCHANGED <<objects, destroyed, terminated, open, m_device, m_running>>
      /\ UNCHANGED <<read_requests, queue, m_write_queue, pending>>
      /\ UNCHANGED <<memVars, m_write_queue, pending>>
  BY DEF StartThread, deviceVars, memVars, Doing
<1>3. PICK n \in Objects, i \in 1..3 : Constructing(n, i)
  BY <1>1, <1>2, Whereabouts
<1>4. i \in 0..(4 + InitReads) /\ i > 0 /\ i + 1 > 0
  BY LifecycleAssumption
<1>5. /\ Self = n /\ i + 1 \in 0..(4 + InitReads) /\ Tail(steps) = Left(InitSteps(n), i + 1)
      /\ k \in Threads /\ StartedAt[k] = i + 1
  BY <1>2, <1>3, <1>4, ConstructingDoes
<1> HIDE DEF k
<1>6. thread \in [Objects -> [Threads -> {"none", "test", "busy", "ended", "joined"}]]
  BY <1>1, Types
<1>7. /\ thread' \in [Objects -> [Threads -> {"none", "test", "busy", "ended", "joined"}]]
      /\ \A p \in Objects, t \in Threads :
           thread'[p][t] = IF p = n /\ t = k THEN "test" ELSE thread[p][t]
  BY <1>2, <1>5, <1>6
<1>8. Holder(n, TRUE)
  BY <1>3, <1>4 DEF Constructing, Holder
<1>9. Holder(n, TRUE)'
  BY <1>2, <1>7, <1>8, HolderKept
<1>10. \A t \in Threads : IF StartedAt[t] <= i + 1 THEN thread'[n][t] \in Alive
                          ELSE thread'[n][t] = "none"
  <2> SUFFICES ASSUME NEW t \in Threads
               PROVE  IF StartedAt[t] <= i + 1 THEN thread'[n][t] \in Alive
                      ELSE thread'[n][t] = "none"
    OBVIOUS
  <2>1. CASE t = k
    BY <1>5, <1>7, <2>1 DEF Alive
  <2>2. CASE t # k
    <3>1. StartedAt[t] \in Nat /\ StartedAt[t] # i + 1
      BY <1>5, <2>2, Turns
    <3>2. StartedAt[t] <= i + 1 <=> StartedAt[t] <= i
      BY <3>1
    <3> QED
      BY <1>3, <1>7, <2>2, <3>2 DEF Constructing
  <2> QED
    BY <2>1, <2>2
<1>11. Constructing(n, i + 1)'
  BY <1>2, <1>3, <1>4, <1>5, <1>9, <1>10 DEF Constructing, Holder
<1>12. TypeOK'
  BY <1>1, <1>2, <1>7, MainTypes DEF TypeOK
<1>13. ReadsCarriedOver'
  BY <1>1, <1>2, <1>8, <1>9, NothingMoves
<1> QED
  BY <1>5, <1>11, <1>12, <1>13 DEF LifeInv, Placed

LEMMA JoinKeeps ==
  ASSUME LifeInv, Join
  PROVE  LifeInv'
<1> DEFINE k == Head(steps).thread
<1>1. TypeOK /\ Placed /\ ReadsCarriedOver
  BY DEF LifeInv
<1>2. /\ Doing("join") /\ thread' = [thread EXCEPT ![Self][k] = "joined"]
      /\ thread[Self][k] = "ended"
      /\ steps' = Tail(steps) /\ steps # <<>>
      /\ UNCHANGED <<objects, destroyed, terminated, open, m_device, m_running>>
      /\ UNCHANGED <<read_requests, queue, m_write_queue, pending>>
      /\ UNCHANGED <<memVars, m_write_queue, pending>>
  BY DEF Join, deviceVars, memVars, Doing
<1>3. \/ \E n \in Objects, i \in 1..3 : Moving(n, i)
      \/ \E o \in Objects : Destroying(o)
  BY <1>1, <1>2, Whereabouts
\* the write thread of an object that is destroyed was joined in a move, or runs on
<1>4. \A o \in Objects : ~Destroying(o)
  <2> SUFFICES ASSUME NEW o \in Objects, Destroying(o) PROVE FALSE
    OBVIOUS
  <2>1. Self = o /\ k = "write"
    BY DestroyingDoes
  <2>2. k \in Threads /\ thread[o][k] = "ended"
    BY <1>2, <2>1, Turns
  <2> HIDE DEF k
  <2>3. o # objects
    BY <2>2 DEF Destroying, Alive
  <2> QED
    BY <2>2, <2>3 DEF Destroying, Holder
<1>5. PICK n \in Objects, i \in 1..3 : Moving(n, i)
  BY <1>3, <1>4
<1>6. i \in 0..4 /\ i > 0 /\ i < 4
  OBVIOUS
<1>7. /\ Self = n /\ i + 1 \in 0..4 /\ Tail(steps) = Left(MoveSteps(n), i + 1)
      /\ k \in Threads /\ JoinedAt[k] = i + 1
  BY <1>5, <1>6, MovingDoes
<1> HIDE DEF k
<1>8. thread \in [Objects -> [Threads -> {"none", "test", "busy", "ended", "joined"}]]
  BY <1>1, Types
<1>9. /\ thread' \in [Objects -> [Threads -> {"none", "test", "busy", "ended", "joined"}]]
      /\ \A p \in Objects, t \in Threads :
           thread'[p][t] = IF p = n /\ t = k THEN "joined" ELSE thread[p][t]
  BY <1>2, <1>7, <1>8
<1>10. Holder(n, FALSE)
  BY <1>5, <1>6 DEF Moving, Holder
<1>11. Holder(n, FALSE)'
  BY <1>2, <1>9, <1>10, HolderKept
<1>12. \A t \in Threads :
         IF JoinedAt[t] <= i + 1 THEN thread'[n][t] = "joined"
         ELSE thread'[n][t] \in Alive \/ (i + 1 > 0 /\ thread'[n][t] = "ended")
  <2> SUFFICES ASSUME NEW t \in Threads
               PROVE  IF JoinedAt[t] <= i + 1 THEN thread'[n][t] = "joined"
                      ELSE thread'[n][t] \in Alive \/ (i + 1 > 0 /\ thread'[n][t] = "ended")
    OBVIOUS
  <2>1. CASE t = k
    BY <1>7, <1>9, <2>1
  <2>2. CASE t # k
    <3>1. JoinedAt[t] \in Nat /\ JoinedAt[t] # i + 1
      BY <1>7, <2>2, Turns
    <3>2. JoinedAt[t] <= i + 1 <=> JoinedAt[t] <= i
      BY <3>1
    <3> QED
      BY <1>5, <1>9, <2>2, <3>2 DEF Moving
  <2> QED
    BY <2>1, <2>2
<1>13. Moving(n, i + 1)'
  BY <1>2, <1>5, <1>6, <1>7, <1>11, <1>12 DEF Moving, Holder
<1>14. TypeOK'
  <2>1. \A p \in Objects : thread[p]["mem"] # "none" => thread'[p]["mem"] # "none"
    BY <1>9, Turns
  <2>2. /\ objects' \in 0..MaxObjects /\ destroyed' \subseteq 1..objects'
        /\ terminated' \in BOOLEAN /\ open' \in BOOLEAN
        /\ m_device' \in [Objects -> BOOLEAN] /\ m_running' \in [Objects -> BOOLEAN]
    BY <1>1, <1>2 DEF TypeOK
  <2> QED
    BY <1>1, <1>2, <1>9, <2>1, <2>2, MainTypes
<1>15. ReadsCarriedOver'
  BY <1>1, <1>2, <1>10, <1>11, NothingMoves
<1> QED
  BY <1>7, <1>13, <1>14, <1>15 DEF LifeInv, Placed

\* Only terminated may change.
LEMMA NothingElse ==
  ASSUME LifeInv, terminated' \in BOOLEAN,
         UNCHANGED <<steps, objects, destroyed, deviceVars, m_running, thread, memVars,
                     m_write_queue, pending>>
  PROVE  LifeInv'
<1>1. TypeOK'
  BY DEF LifeInv, TypeOK, deviceVars, memVars
<1>2. ReadsCarriedOver'
  BY DEF LifeInv, ReadsCarriedOver, Dropped, MovedFrom, deviceVars, memVars
<1>3. /\ NotOpened => NotOpened'
      /\ \A n, running : Holder(n, running) => Holder(n, running)'
  BY DEF NotOpened, Holder, deviceVars, memVars
<1>4. ASSUME NEW n \in Objects, NEW k \in 0..(4 + InitReads), Constructing(n, k)
      PROVE  Constructing(n, k)'
  BY <1>4 DEF Constructing, Holder, deviceVars, memVars
<1>5. ASSUME NEW n \in Objects, NEW k \in 0..4, Moving(n, k)
      PROVE  Moving(n, k)'
  BY <1>5 DEF Moving, Holder, deviceVars, memVars
<1>6. ASSUME NEW o \in Objects, Destroying(o) PROVE Destroying(o)'
  BY <1>6 DEF Destroying, Holder, deviceVars, memVars
<1>7. Placed'
  BY <1>3, <1>4, <1>5, <1>6 DEF LifeInv, Placed
<1> QED
  BY <1>1, <1>2, <1>7 DEF LifeInv

LEMMA JoinThrowsKeeps ==
  ASSUME LifeInv, JoinThrows
  PROVE  LifeInv'
BY NothingElse DEF JoinThrows

LEMMA RequestReadKeeps ==
  ASSUME LifeInv, RequestRead
  PROVE  LifeInv'
<1> DEFINE reads == 1..InitReads
           a == Head(steps).address
<1>1. TypeOK /\ Placed /\ ReadsCarriedOver
  BY DEF LifeInv
<1>2. /\ Doing("request") /\ steps' = Tail(steps) /\ steps # <<>>
      /\ read_requests' = [read_requests EXCEPT ![Self] = Append(@, a)]
      /\ queue' = [queue EXCEPT ![Self] = Append(@, a)]
      /\ UNCHANGED <<objects, destroyed, terminated, open, m_device, m_running, thread>>
      /\ UNCHANGED <<wait_for_read, m_write_queue, pending>>
  BY DEF RequestRead, deviceVars, Doing
<1>3. PICK n \in Objects, i \in 4..(4 + InitReads) : Constructing(n, i)
  BY <1>1, <1>2, Whereabouts
<1>4. i \in 0..(4 + InitReads) /\ i > 3 /\ i > 0 /\ i + 1 > 0 /\ n \in Nat
  BY LifecycleAssumption DEF Objects
<1>5. /\ Self = n /\ i + 1 \in 0..(4 + InitReads) /\ Tail(steps) = Left(InitSteps(n), i + 1)
      /\ a \in reads
  BY <1>2, <1>3, <1>4, ConstructingDoes
<1> HIDE DEF a
<1>6. /\ read_requests \in [Objects -> Seq(reads)] /\ queue \in [Objects -> Seq(reads)]
      /\ read_requests[n] \in Seq(reads) /\ queue[n] \in Seq(reads)
      /\ pending \in Seq(reads) /\ m_write_queue[n] \in Seq(reads)
  BY <1>1, Types
<1>7. /\ Append(read_requests[n], a) \in Seq(reads) /\ Append(queue[n], a) \in Seq(reads)
  BY <1>5, <1>6, AppendProperties
<1>8. /\ read_requests' \in [Objects -> Seq(reads)] /\ queue' \in [Objects -> Seq(reads)]
      /\ read_requests'[n] = Append(read_requests[n], a)
      /\ queue'[n] = Append(queue[n], a)
      /\ \A p \in Objects \ {n} : queue'[p] = queue[p]
  BY <1>2, <1>5, <1>6, <1>7
<1>9. Holder(n, TRUE)
  BY <1>3, <1>4 DEF Constructing, Holder
<1>10. Holder(n, TRUE)'
  <2>1. \A p \in Objects : p > n => p # n
    BY <1>4
  <2> QED
    BY <1>2, <1>8, <1>9, <2>1, HolderKept
<1>11. \A t \in Threads : StartedAt[t] <= i /\ StartedAt[t] <= i + 1
  BY <1>4, Turns
<1>12. Constructing(n, i + 1)'
  BY <1>2, <1>3, <1>4, <1>5, <1>10, <1>11 DEF Constructing, Holder
<1>13. TypeOK'
  BY <1>1, <1>2, <1>8 DEF TypeOK
<1>14. ReadsCarriedOver'
  <2>1. Dropped \/ Awaited(n)
    BY <1>1, <1>9, Carried
  <2>2. Dropped => Dropped'
    BY <1>1, <1>2, <1>8, <1>9, <1>10, DroppedStays
  <2>3. ASSUME Awaited(n) PROVE Awaited(n)'
    <3> DEFINE rest == pending \o m_write_queue[n]
               q == queue[n]
               end == <<a>>
    <3>1. rest \in Seq(reads) /\ q \in Seq(reads) /\ end \in Seq(reads)
      BY <1>5, <1>6, ConcatProperties
    <3>2. read_requests[n] = rest \o q
      BY <2>3 DEF Awaited
    <3>3. read_requests'[n] = read_requests[n] \o end /\ queue'[n] = q \o end
      BY <1>5, <1>6, <1>8, AppendIsConcat
    <3> HIDE DEF rest, reads, q, end
    <3>4. (rest \o q) \o end = rest \o (q \o end)
      BY <3>1, ConcatAssociative, SMTT(20)
    <3> QED
      BY <1>2, <3>2, <3>3, <3>4 DEF Awaited, rest
  <2> QED
    BY <1>10, <2>1, <2>2, <2>3, CarriedNext
<1> QED
  BY <1>5, <1>12, <1>13, <1>14 DEF LifeInv, Placed

LEMMA CopyStateKeeps ==
  ASSUME LifeInv, CopyState
  PROVE  LifeInv'
<1> DEFINE reads == 1..InitReads
<1>1. TypeOK /\ Placed /\ ReadsCarriedOver
  BY DEF LifeInv
<1>2. /\ Doing("copy") /\ steps' = Tail(steps)
      /\ UNCHANGED <<objects, destroyed, terminated, open, m_running, thread, queue,
                     wait_for_read, pending>>
  BY DEF CopyState
<1>3. PICK n \in Objects : Moving(n, 4)
  BY <1>1, <1>2, Whereabouts
<1>4. Self = n /\ Tail(steps) = Left(InitSteps(n + 1), 0)
  BY <1>3, MovingDoes
<1>5. n \in Nat /\ n + 1 \in Objects /\ n + 1 # n /\ objects = n + 1
  BY <1>3, LifecycleAssumption DEF Moving, Objects
<1>6. /\ m_device \in [Objects -> BOOLEAN]
      /\ read_requests \in [Objects -> Seq(reads)] /\ queue \in [Objects -> Seq(reads)]
      /\ m_write_queue \in [Objects -> Seq(reads)]
  BY <1>1, Types
<1>7. /\ m_device' \in [Objects -> BOOLEAN]
      /\ read_requests' \in [Objects -> Seq(reads)]
      /\ m_write_queue' \in [Objects -> Seq(reads)]
      /\ \A o \in Objects : m_device'[o] = IF o = n + 1 THEN m_device[n]
                                           ELSE IF o = n THEN FALSE ELSE m_device[o]
      /\ read_requests'[n + 1] = read_requests[n]
      /\ m_write_queue'[n + 1] = m_write_queue[n]
  <2>1. /\ read_requests' = [read_requests EXCEPT ![n + 1] = read_requests[n]]
        /\ m_device' = [m_device EXCEPT ![n + 1] = m_device[n], ![n] = FALSE]
        /\ m_write_queue' = [m_write_queue EXCEPT ![n + 1] = m_write_queue[n], ![n] = <<>>]
    BY <1>4 DEF CopyState
  <2>2. <<>> \in Seq(reads)
    OBVIOUS
  <2>3. read_requests[n] \in Seq(reads) /\ m_write_queue[n] \in Seq(reads)
    BY <1>6
  <2> HIDE DEF reads
  <2>4. /\ m_device' \in [Objects -> BOOLEAN]
        /\ \A o \in Objects : m_device'[o] = IF o = n + 1 THEN m_device[n]
                                             ELSE IF o = n THEN FALSE ELSE m_device[o]
    BY <1>5, <1>6, <2>1
  <2>5. /\ read_requests' \in [Objects -> Seq(reads)]
        /\ read_requests'[n + 1] = read_requests[n]
    BY <1>5, <1>6, <2>1, <2>3
  <2>6. /\ m_write_queue' \in [Objects -> Seq(reads)]
        /\ m_write_queue'[n + 1] = m_write_queue[n]
    BY <1>5, <1>6, <2>1, <2>2, <2>3
  <2> QED
    BY <2>4, <2>5, <2>6
<1>8. Holder(n, FALSE)
  BY <1>3 DEF Moving, Holder
<1>9. \A t \in Threads : thread[n][t] = "joined"
  BY <1>3, Turns DEF Moving
<1>10. Holder(n + 1, FALSE)'
  <2>1. \A o \in Objects : m_device'[o] <=> o = n + 1
    BY <1>7, <1>8 DEF Holder
  <2>2. \A o \in Objects : o > n + 1 => o > n
    BY <1>5, LifecycleAssumption DEF Objects
  <2>3. \A o \in Objects \ {n + 1}, t \in Threads :
          thread[o][t] = IF o < n + 1 THEN "joined" ELSE "none"
    <3> SUFFICES ASSUME NEW o \in Objects \ {n + 1}, NEW t \in Threads
                 PROVE  thread[o][t] = IF o < n + 1 THEN "joined" ELSE "none"
      OBVIOUS
    <3>1. CASE o = n
      BY <1>5, <1>9, <3>1
    <3>2. CASE o # n
      <4>1. o < n + 1 <=> o < n
        BY <1>5, <3>2, LifecycleAssumption DEF Objects
      <4> QED
        BY <1>8, <3>2, <4>1 DEF Holder
    <3> QED
      BY <3>1, <3>2
  <2> QED
    BY <1>2, <1>5, <1>8, <2>1, <2>2, <2>3 DEF Holder
<1>11. \A t \in Threads : /\ StartedAt[t] > 0 /\ ~(StartedAt[t] <= 0)
                          /\ thread[n + 1][t] = "none"
  <2>1. ~(n + 1 < n)
    BY <1>5
  <2> QED
    BY <1>5, <1>8, <2>1, Turns DEF Holder
<1>12. Constructing(n + 1, 0)' /\ 0 \in 0..(4 + InitReads)
  <2>1. 0 \in 0..(4 + InitReads) /\ ~(0 > 0)
    BY LifecycleAssumption
  <2>2. thread' = thread /\ objects' = n + 1 /\ steps' = Left(InitSteps(n + 1), 0)
    BY <1>2, <1>4, <1>5
  <2>3. \A t \in Threads : IF StartedAt[t] <= 0 THEN thread'[n + 1][t] \in Alive
                           ELSE thread'[n + 1][t] = "none"
    BY <1>11, <2>2
  <2>4. Holder(n + 1, 0 > 0)'
    BY <1>10, <2>1 DEF Holder
  <2> QED
    BY <2>1, <2>2, <2>3, <2>4 DEF Constructing
<1>13. TypeOK'
  BY <1>1, <1>2, <1>7 DEF TypeOK
<1>14. ReadsCarriedOver'
  <2>0. \A o \in Objects : o < objects => o < objects' /\ ~m_device'[o]
    <3>1. \A o \in Objects : m_device'[o] <=> o = n + 1
      BY <1>10 DEF Holder
    <3>2. \A o \in Objects : o < n + 1 => o # n + 1
      BY <1>5, LifecycleAssumption DEF Objects
    <3> QED
      BY <1>2, <1>5, <3>1, <3>2
  <2>1. CASE queue[n] # <<>>
    <3>1. n < objects
      BY <1>5
    <3>2. Dropped'
      BY <1>2, <2>0, <2>1, <3>1 DEF Dropped, MovedFrom
    <3> QED
      BY <1>10, <3>2, CarriedNext
  <2>2. CASE queue[n] = <<>> /\ Dropped
    <3>1. PICK o \in Objects : MovedFrom(o) /\ queue[o] # <<>>
      BY <2>2 DEF Dropped
    <3>2. Dropped'
      BY <1>2, <2>0, <3>1 DEF Dropped, MovedFrom
    <3> QED
      BY <1>10, <3>2, CarriedNext
  <2>3. CASE queue[n] = <<>> /\ Awaited(n)
    <3>1. queue'[n + 1] = <<>>
      BY <1>2, <1>5, <1>8 DEF Holder
    <3>2. Awaited(n + 1)'
      BY <1>2, <1>7, <2>3, <3>1 DEF Awaited
    <3> QED
      BY <1>10, <3>2, CarriedNext
  <2> QED
    BY <1>1, <1>8, <2>1, <2>2, <2>3, Carried
<1> QED
  BY <1>5, <1>12, <1>13, <1>14 DEF LifeInv, Placed

-----------------------------------------------------------------------------
(* What main begins. *)

LEMMA OpenKeeps ==
  ASSUME LifeInv, Open
  PROVE  LifeInv'
<1>1. TypeOK /\ Placed
  BY DEF LifeInv
<1>2. /\ objects = 0 /\ objects' = 1 /\ open' = TRUE /\ steps' = InitSteps(1)
      /\ m_device' = [m_device EXCEPT ![1] = TRUE]
      /\ UNCHANGED <<destroyed, terminated, m_running, thread>>
      /\ UNCHANGED <<memVars, m_write_queue, pending>>
      /\ UNCHANGED <<read_requests, queue>>
  BY DEF Open, memVars
<1>3. 1 \in Objects /\ \A o \in Objects : o \in Nat /\ o # 0 /\ ~(o < 1)
  BY LifecycleAssumption DEF Objects
<1>4. NotOpened
  BY <1>1, <1>2, <1>3 DEF Placed, Constructing, Moving, Destroying
<1>5. m_device' \in [Objects -> BOOLEAN] /\ \A o \in Objects : m_device'[o] <=> o = 1
  <2>1. m_device \in [Objects -> BOOLEAN] /\ \A o \in Objects : ~m_device[o]
    BY <1>1, <1>4, Types DEF NotOpened
  <2> QED
    BY <1>2, <1>3, <2>1
<1>6. Holder(1, FALSE)'
  BY <1>2, <1>3, <1>4, <1>5 DEF NotOpened, Holder
<1>7. InitSteps(1) = Left(InitSteps(1), 0)
  BY InitStepsAre, Take, LifecycleAssumption
<1>8. \A t \in Threads : ~(StartedAt[t] <= 0) /\ thread[1][t] = "none"
  BY <1>3, <1>4, Turns DEF NotOpened
<1>9. Constructing(1, 0)' /\ 0 \in 0..(4 + InitReads)
  BY <1>2, <1>6, <1>7, <1>8, LifecycleAssumption DEF Constructing, Holder
<1>10. TypeOK'
  BY <1>1, <1>2, <1>3, <1>4, <1>5, LifecycleAssumption DEF TypeOK, NotOpened, memVars
<1>11. ReadsCarriedOver'
  <2>1. /\ read_requests'[1] = <<>> /\ pending' = <<>> /\ m_write_queue'[1] = <<>>
        /\ queue'[1] = <<>>
    BY <1>2, <1>3, <1>4 DEF NotOpened
  <2>2. Awaited(1)'
    BY <2>1 DEF Awaited
  <2> QED
    BY <1>6, <2>2, CarriedNext
<1> QED
  BY <1>3, <1>9, <1>10, <1>11 DEF LifeInv, Placed

\* Between the constructors and the destructors the last object is fully constructed.
LEMMA Idle ==
  ASSUME Placed, steps = <<>>, objects # 0
  PROVE  /\ Holder(objects, TRUE) /\ objects \in Objects
         /\ \A t \in Threads : thread[objects][t] \in Alive
<1>1. ~NotOpened
  BY DEF NotOpened
<1>2. \A n \in Objects, k \in 0..4 : ~Moving(n, k)
  BY MovingNext DEF Moving
<1>3. ASSUME NEW o \in Objects, Destroying(o) PROVE FALSE
  <2>1. o \in Nat
    BY LifecycleAssumption DEF Objects
  <2> QED
    BY <1>3, <2>1, DestroyStepsAre DEF Destroying
<1>4. PICK n \in Objects, k \in 0..(4 + InitReads) : Constructing(n, k)
  BY <1>1, <1>2, <1>3 DEF Placed
<1>5. k = 4 + InitReads /\ objects = n
  BY <1>4, ConstructingNext DEF Constructing
<1>6. k > 0 /\ \A t \in Threads : StartedAt[t] <= k
  BY <1>5, Turns, LifecycleAssumption
<1> QED
  BY <1>4, <1>5, <1>6 DEF Constructing, Holder

LEMMA MoveKeeps ==
  ASSUME LifeInv, Move
  PROVE  LifeInv'
<1>1. TypeOK /\ Placed /\ ReadsCarriedOver
  BY DEF LifeInv
<1>2. steps = <<>> /\ objects \in 1..(MaxObjects - 1)
  BY DEF Move
<1>3. objects # 0
  BY <1>2
<1>4. PICK n \in Objects : /\ n = objects /\ Holder(n, TRUE)
                           /\ \A t \in Threads : thread[n][t] \in Alive
  BY <1>1, <1>2, <1>3, Idle
<1>5. n \in Nat /\ n + 1 \in Objects /\ n + 1 \in 0..MaxObjects
  BY <1>2, <1>4, LifecycleAssumption DEF Objects
<1>6. /\ objects' = n + 1 /\ steps' = MoveSteps(n)
      /\ UNCHANGED <<destroyed, terminated, open, m_device, m_running, thread>>
      /\ UNCHANGED <<memVars, m_write_queue, pending>>
      /\ UNCHANGED <<read_requests, queue>>
  BY <1>4 DEF Move, deviceVars, memVars
<1>7. Holder(n, TRUE)'
  BY <1>4, <1>6, HolderKept
<1>8. MoveSteps(n) = Left(MoveSteps(n), 0)
  BY <1>5, MoveStepsAre, Take, LifecycleAssumption
<1>9. \A t \in Threads : ~(JoinedAt[t] <= 0)
  BY Turns
<1>10. Moving(n, 0)'
  BY <1>4, <1>5, <1>6, <1>7, <1>8, <1>9 DEF Moving, Holder
<1>11. TypeOK'
  <2>1. destroyed' \subseteq 1..objects'
    BY <1>1, <1>4, <1>5, <1>6 DEF TypeOK
  <2> QED
    BY <1>1, <1>5, <1>6, <2>1, MainTypes DEF TypeOK
<1>12. ReadsCarriedOver'
  BY <1>1, <1>4, <1>6, <1>7, NothingMoves
<1> QED
  BY <1>10, <1>11, <1>12 DEF LifeInv, Placed

LEMMA DestroyKeeps ==
  ASSUME LifeInv, NEW o \in Objects, Destroy(o)
  PROVE  LifeInv'
<1>1. TypeOK /\ Placed /\ ReadsCarriedOver
  BY DEF LifeInv
<1>2. /\ steps = <<>> /\ o <= objects
      /\ destroyed' = destroyed \cup {o} /\ steps' = DestroySteps(o)
      /\ UNCHANGED <<objects, terminated, open, m_device, m_running, thread>>
      /\ UNCHANGED <<memVars, m_write_queue, pending>>
      /\ UNCHANGED <<read_requests, queue>>
  BY DEF Destroy, deviceVars, memVars
<1>3. objects \in Nat /\ objects # 0 /\ o \in 1..objects
  BY <1>1, <1>2, Types, LifecycleAssumption DEF Objects
<1>4. /\ Holder(objects, TRUE)
      /\ \A t \in Threads : thread[objects][t] \in Alive
  BY <1>1, <1>2, <1>3, Idle
<1>5. Holder(objects, TRUE)'
  BY <1>2, <1>4 DEF Holder
<1>6. Destroying(o)'
  BY <1>2, <1>3, <1>4, <1>5 DEF Destroying
<1>7. TypeOK'
  BY <1>1, <1>2, <1>3, MainTypes DEF TypeOK
<1>8. ReadsCarriedOver'
  BY <1>1, <1>2, <1>4, <1>5, NothingMoves
<1> QED
  BY <1>6, <1>7, <1>8 DEF LifeInv, Placed

-----------------------------------------------------------------------------
(* The theorems. *)

\* Whatever main and the threads do keeps the invariant.
LEMMA LifeInvKept ==
  ASSUME LifeInv, [Next]_vars
  PROVE  LifeInv'
<1>1. ASSUME OpenFails PROVE LifeInv'
  BY <1>1, NothingElse DEF OpenFails
<1>2. ASSUME NEW o \in Objects, Destroy(o) PROVE LifeInv'
  BY <1>2, DestroyKeeps
<1>3. ASSUME MainStep PROVE LifeInv'
  BY <1>3, AssignKeeps, StartThreadKeeps, JoinKeeps, JoinThrowsKeeps, CopyStateKeeps,
     RequestReadKeeps DEF MainStep
<1>4. ASSUME NEW o \in Objects, NEW k \in Threads, Test(o, k) PROVE LifeInv'
  BY <1>4, TestKeeps
<1>5. ASSUME NEW o \in Objects,
             ReadOther(o) \/ ReadAnswer(o) \/ WriteReport(o) \/ SendRequest(o)
      PROVE  LifeInv'
  BY <1>5, ReadOtherKeeps, ReadAnswerKeeps, WriteReportKeeps, SendRequestKeeps
<1>6. ASSUME UNCHANGED vars PROVE LifeInv'
  <2>1. terminated' \in BOOLEAN
    BY <1>6 DEF LifeInv, TypeOK, vars, mainVars
  <2> QED
    BY <1>6, <2>1, NothingElse DEF vars, mainVars
<1> QED
  BY <1>1, <1>2, <1>3, <1>4, <1>5, <1>6, OpenKeeps, MoveKeeps DEF Next

LEMMA LifeInvInit ==
  ASSUME Init
  PROVE  LifeInv
<1>1. TypeOK
  <2>0. objects = 0 /\ destroyed = {} /\ terminated = FALSE /\ open = FALSE
    BY DEF Init
  <2>1. objects \in 0..MaxObjects
    BY <2>0, LifecycleAssumption
  <2>2. terminated \in BOOLEAN /\ open \in BOOLEAN /\ destroyed \subseteq 1..objects
    BY <2>0
  <2>3. /\ m_device \in [Objects -> BOOLEAN] /\ m_running \in [Objects -> BOOLEAN]
        /\ wait_for_read \in [Objects -> BOOLEAN]
        /\ \A o \in Objects : ~wait_for_read[o]
    BY DEF Init
  <2>4. thread \in [Objects -> [Threads -> {"none", "test", "busy", "ended", "joined"}]]
    BY DEF Init
  <2>5. /\ read_requests \in [Objects -> Seq(1..InitReads)]
        /\ queue \in [Objects -> Seq(1..InitReads)]
        /\ m_write_queue \in [Objects -> Seq(1..InitReads)]
        /\ pending \in Seq(1..InitReads)
    BY DEF Init
  <2> QED
    BY <2>1, <2>2, <2>3, <2>4, <2>5 DEF TypeOK
<1>2. NotOpened
  BY DEF Init, NotOpened
<1>3. ReadsCarriedOver
  BY DEF Init, ReadsCarriedOver
<1> QED
  BY <1>1, <1>2, <1>3 DEF LifeInv, Placed

\* Main is always at one of the places above, and what the place says of the threads
\* and of the device holds, through any number of moves (wiimote.cpp:23-79).
THEOREM LifeInvariant == Spec => []LifeInv
<1>1. Init => LifeInv
  BY LifeInvInit
<1>2. LifeInv /\ [Next]_vars => LifeInv'
  BY LifeInvKept
<1> QED
  BY <1>1, <1>2, PTL DEF Spec

\* Every variable has its type, and a request is sent only by a mem thread that was
\* started (wiimote.cpp:23-79, wiimote_mem.cpp).
THEOREM LifecycleTypes == Spec => []TypeOK
<1>1. LifeInv => TypeOK
  BY DEF LifeInv
<1> QED
  BY <1>1, LifeInvariant, PTL

LEMMA HolderAlone ==
  ASSUME NEW n, NEW running, Holder(n, running)
  PROVE  OneUser
<1>1. \A o \in Objects : Using(o) => o = n
  <2> SUFFICES ASSUME NEW o \in Objects, o # n PROVE ~Using(o)
    OBVIOUS
  <2>1. \A t \in Threads : thread[o][t] = "joined" \/ thread[o][t] = "none"
    BY DEF Holder
  <2> QED
    BY <2>1, Turns DEF Using
<1>2. m_device[n] /\ open
  BY DEF Holder
<1> QED
  BY <1>1, <1>2 DEF OneUser

\* Of all the objects that were moved from one another at most one has a read or write
\* thread that uses the device, and it holds the device, which is open
\* (wiimote.cpp:46-59, 64-67).
THEOREM OneUserAtATime == Spec => []OneUser
<1>1. NotOpened => OneUser
  BY Turns DEF NotOpened, OneUser, Using
<1>2. Placed => OneUser
  BY <1>1, HolderAlone DEF Placed, Constructing, Moving, Destroying
<1>3. LifeInv => OneUser
  BY <1>2 DEF LifeInv
<1> QED
  BY <1>3, LifeInvariant, PTL

\* The reads the current object awaits are those on their way to the controller and
\* back, in this order, unless a move dropped requests (wiimote.cpp:53-56).
THEOREM ReadsAreCarriedOver == Spec => []ReadsCarriedOver
<1>1. LifeInv => ReadsCarriedOver
  BY DEF LifeInv
<1> QED
  BY <1>1, LifeInvariant, PTL

=============================================================================
