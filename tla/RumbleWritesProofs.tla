------------------------ MODULE RumbleWritesProofs ------------------------
(***************************************************************************)
(* The controller ends up doing what m_state.rumble says, unless           *)
(* set_rumble overtook another thread between get_rumble() and the push    *)
(* of its report, or its own report, the newest one, came with the bit     *)
(* set.                                                                    *)
(***************************************************************************)
EXTENDS RumbleWrites, SequenceTheorems, TLAPS

\* The newest report is the one queued last, whatever else was queued.
LEMMA NewestAppended ==
  ASSUME NEW q \in Seq(Reports), NEW r \in Reports
  PROVE  /\ Append(q, r) \in Seq(Reports)
         /\ Append(q, r) # <<>>
         /\ Append(q, r)[Len(Append(q, r))] = r
  BY AppendProperties

\* Taking a report from the queue leaves the last one last.
LEMMA NewestKept ==
  ASSUME NEW q \in Seq(Reports), q # <<>>
  PROVE  /\ Head(q) \in Reports /\ Tail(q) \in Seq(Reports)
         /\ Tail(q) = <<>> => Head(q) = q[Len(q)]
         /\ Tail(q) # <<>> => Tail(q)[Len(Tail(q))] = q[Len(q)]
<1>1. Head(q) \in Reports /\ Tail(q) \in Seq(Reports)
  BY HeadTailProperties
<1>2. Len(q) \in Nat /\ Len(q) # 0 /\ Len(Tail(q)) = Len(q) - 1
  BY HeadTailProperties, EmptySeq, LenProperties
<1>3. ASSUME Tail(q) = <<>> PROVE Head(q) = q[Len(q)]
  <2>1. Len(Tail(q)) = 0
    BY <1>3, EmptySeq
  <2>2. Len(q) - 1 = 0
    BY <1>2, <2>1, Zenon
  <2>3. \A n \in Nat : n - 1 = 0 => n = 1
    OBVIOUS
  <2>4. Len(q) = 1
    BY <1>2, <2>2, <2>3, Zenon
  <2> QED
    BY <2>4
<1>4. ASSUME Tail(q) # <<>> PROVE Tail(q)[Len(Tail(q))] = q[Len(q)]
  <2>1. Len(q) - 1 \in 1..Len(Tail(q))
    BY <1>1, <1>2, <1>4, EmptySeq, LenProperties
  <2> QED
    BY <1>2, <2>1
<1> QED
  BY <1>1, <1>3, <1>4

\* Reports filled in after m_state.rumble was set agree with it, and so does the
\* newest report once set_rumble has queued its own (set_rumble, write, write_loop).
THEOREM SettledInvariant == Spec => []SettledInv
<1>0. "main" \in Writers /\ Writers \ {"main"} = Others
  BY RumbleAssumption DEF Writers
<1>c. Clear \in Reports /\ Clear.bit = FALSE
  BY DEF Clear, Reports
<1>1. Init => SettledInv
  <2> SUFFICES ASSUME Init PROVE SettledInv
    OBVIOUS
  <2>1. TypeOK
    BY <1>c, EmptySeq DEF Init, TypeOK
  <2>2. Newest = Clear /\ rumble = FALSE
    BY DEF Init, Newest
  <2>3. RumbleSettled
    BY <1>c, <2>2 DEF RumbleSettled, Agrees
  <2>4. \A t \in Writers : pc[t] = "idle"
    BY DEF Init
  <2> QED
    BY <2>1, <2>3, <2>4 DEF SettledInv
<1>2. SettledInv /\ [Next]_vars => SettledInv'
  <2> SUFFICES ASSUME SettledInv, [Next]_vars PROVE SettledInv'
    OBVIOUS
  <2>0. TypeOK
    BY DEF SettledInv
  <2>1. CASE SetRumble
    <3>0. PICK unused \in BOOLEAN : Begin("main", [type |-> "RumbleReport", bit |-> unused])
      BY <2>1, RumbleAssumption DEF SetRumble
    <3>r. [type |-> "RumbleReport", bit |-> unused] \in Reports
      BY DEF Reports
    <3>1. ~raced' => \A t \in Writers : pc'[t] # "push"
      BY <1>0, <2>0, <2>1, <3>0 DEF SetRumble, Begin, FilledByOthers, TypeOK
    <3>2. TypeOK' /\ pc'["main"] = "fill"
      BY <1>0, <2>0, <2>1, <3>0, <3>r DEF SetRumble, Begin, TypeOK
    <3>3. \A t \in Writers :
            (pc'[t] = "fill" /\ data'[t].bit) => data'[t].type = "RumbleReport"
      BY <1>0, <2>0, <3>0 DEF Begin, SettledInv, TypeOK
    <3> QED
      BY <3>1, <3>2, <3>3 DEF SettledInv, RumbleSettled
  <2>2. ASSUME NEW t \in Writers, BeginWrite(t) PROVE SettledInv'
    BY <1>0, <1>c, <2>0, <2>2
    DEF BeginWrite, Begin, SettledInv, RumbleSettled, TypeOK, Newest, Agrees
  <2>3. ASSUME NEW t \in Writers, FillRumble(t) PROVE SettledInv'
    <3>1. /\ UNCHANGED <<rumble, m_write_queue, obeyed, raced>>
          /\ pc[t] = "fill" /\ pc' = [pc EXCEPT ![t] = "push"]
          /\ data' = [data EXCEPT ![t].bit = data[t].bit \/ rumble]
      BY <2>3 DEF FillRumble
    <3>2. /\ data[t] \in Reports /\ rumble \in BOOLEAN /\ data[t].bit \in BOOLEAN
          /\ data[t].bit => data[t].type = "RumbleReport"
      BY <2>0, <3>1 DEF SettledInv, TypeOK, Reports
    <3>3. /\ data'[t] \in Reports /\ Agrees(data'[t])
          /\ \A u \in Writers \ {t} : data'[u] = data[u] /\ pc'[u] = pc[u]
          /\ pc'[t] = "push"
      BY <2>0, <3>1, <3>2 DEF TypeOK, Agrees, Reports
    <3>4. data' \in [Writers -> Reports] /\ pc' \in [Writers -> {"idle", "fill", "push"}]
      BY <2>0, <3>1, <3>3 DEF TypeOK
    <3>5. Newest' = Newest /\ \A r : Agrees(r)' = (r.bit = rumble \/ (r.type = "RumbleReport" /\ r.bit))
      BY <3>1 DEF Newest, Agrees
    <3> QED
      BY <1>0, <2>0, <3>1, <3>3, <3>4, <3>5 DEF SettledInv, RumbleSettled, TypeOK, Agrees
  <2>4. ASSUME NEW t \in Writers, PushReport(t) PROVE SettledInv'
    <3>1. data[t] \in Reports /\ (~raced => Agrees(data[t]))
      BY <2>0, <2>4 DEF PushReport, SettledInv, TypeOK
    <3>2. m_write_queue' \in Seq(Reports) /\ Newest' = data[t]
      BY <2>0, <2>4, <3>1, NewestAppended DEF PushReport, Newest, TypeOK
    <3> QED
      BY <1>0, <2>0, <2>4, <3>1, <3>2
      DEF PushReport, SettledInv, RumbleSettled, TypeOK, Agrees
  <2>5. CASE WriteLoop
    <3>1. m_write_queue \in Seq(Reports) /\ m_write_queue # <<>>
      BY <2>0, <2>5 DEF WriteLoop, TypeOK
    <3>2. /\ obeyed' \in Reports /\ m_write_queue' \in Seq(Reports)
          /\ Newest' = Newest
      BY <2>5, <3>1, NewestKept DEF WriteLoop, Newest
    <3> QED
      BY <2>0, <2>5, <3>2 DEF WriteLoop, SettledInv, RumbleSettled, TypeOK, Agrees
  <2>6. CASE UNCHANGED vars
    BY <2>0, <2>6 DEF vars, SettledInv, RumbleSettled, TypeOK, Newest, Agrees
  <2> QED
    BY <2>1, <2>2, <2>3, <2>4, <2>5, <2>6 DEF Next, Finish
<1> QED
  BY <1>1, <1>2, PTL DEF Spec

\* RumbleSettled, for any set of threads, any queue and whatever RumbleReport's second
\* byte may hold (set_rumble, write, write_loop).
THEOREM RumbleIsSettled == Spec => []RumbleSettled
<1>1. SettledInv => RumbleSettled
  BY DEF SettledInv
<1> QED
  BY <1>1, SettledInvariant, PTL

=============================================================================
