------------------------- MODULE MemRequestsProofs -------------------------
(***************************************************************************)
(* Proofs about MemRequests.                                               *)
(***************************************************************************)
EXTENDS MemRequests, SequenceTheorems, TLAPS

-----------------------------------------------------------------------------
(* The decisions of ExtensionRules are well typed. *)

LEMMA CallTypes ==
  /\ \A r \in Registers : MemWrite(r) \in Calls
  /\ \A a \in Addresses : MemRead(a) \in Calls
  /\ \A r \in Reports : Report(r) \in Calls
BY DEF Calls, MemWrites, MemReads, MemWrite, MemRead, Report

LEMMA CallsOfKind ==
  ASSUME NEW c \in Calls
  PROVE  /\ c.kind = "memread" => c \in MemReads
         /\ c.kind = "memwrite" => c \in MemWrites
BY DEF Calls, MemReads, MemWrites

LEMMA AddressNames ==
  Addresses = {"extension_identifier", "motionplus_identifier",
               "wiimote_calibration", "wiimote_calibration_mirror",
               "motionplus_calibration_fast", "motionplus_calibration_slow"}
BY DEF Addresses, LowBytes

LEMMA CallListTypes ==
  /\ request_status \in Seq(Calls)
  /\ request_extension \in Seq(Calls)
  /\ detect_motionplus \in Seq(Calls)
  /\ request_motion_plus_calibration \in Seq(Calls)
  /\ set_reporting_mode \in Seq(Calls)
  /\ \A b \in BOOLEAN : request_wiimote_calibration(b) \in Seq(Calls)
  /\ \A e \in Extensions : activate_motionplus(e) \in Seq(Calls)
  /\ \A m \in MotionPlus : update_motionplus(m) \in Seq(Calls)
  /\ init_calls \in Seq(Calls)
<1>1. request_status \in Seq(Calls)
  BY CallTypes DEF request_status, Reports
<1>2. request_extension \in Seq(Calls)
  BY CallTypes, AddressNames DEF request_extension, Registers
<1>3. detect_motionplus \in Seq(Calls)
  BY CallTypes, AddressNames DEF detect_motionplus
<1>4. request_motion_plus_calibration \in Seq(Calls)
  BY CallTypes, AddressNames DEF request_motion_plus_calibration
<1>5. set_reporting_mode \in Seq(Calls)
  BY CallTypes DEF set_reporting_mode, Reports
<1>6. \A b \in BOOLEAN : request_wiimote_calibration(b) \in Seq(Calls)
  BY CallTypes, AddressNames DEF request_wiimote_calibration
<1>7. \A e \in Extensions : activate_motionplus(e) \in Seq(Calls)
  BY CallTypes DEF activate_motionplus, Registers
<1>8. \A m \in MotionPlus : update_motionplus(m) \in Seq(Calls)
  BY <1>4 DEF update_motionplus
<1>9. init_calls \in Seq(Calls)
  <2>1. request_wiimote_calibration(TRUE) \in Seq(Calls)
    BY <1>6
  <2>2. request_status \o request_extension \in Seq(Calls)
    BY <1>1, <1>2
  <2>3. (request_status \o request_extension) \o detect_motionplus \in Seq(Calls)
    BY <1>3, <2>2
  <2>4. (request_status \o request_extension \o detect_motionplus)
          \o set_reporting_mode \in Seq(Calls)
    BY <1>5, <2>3
  <2>5. (request_status \o request_extension \o detect_motionplus
           \o set_reporting_mode) \o request_wiimote_calibration(TRUE) \in Seq(Calls)
    BY <2>1, <2>4, ConcatProperties
  <2> QED
    BY <2>5, Zenon DEF init_calls
<1> QED
  BY <1>1, <1>2, <1>3, <1>4, <1>5, <1>6, <1>7, <1>8, <1>9

\* What a decision of the read thread may be.
Decisions == [m_extension : Extensions, m_motionplus : MotionPlus, calls : Seq(Calls)]

LEMMA OnStatusType ==
  ASSUME NEW p \in BOOLEAN, NEW e \in Extensions, NEW m \in MotionPlus
  PROVE  OnStatus(p, e, m) \in Decisions
<1>1. request_extension \o detect_motionplus \in Seq(Calls)
  BY CallListTypes
<1>2. <<>> \in Seq(Calls)
  OBVIOUS
<1> QED
  BY <1>1, <1>2 DEF OnStatus, Decision, Decisions, Extensions, MotionPlus

LEMMA OnIdentifierType ==
  ASSUME NEW id, NEW e \in Extensions, NEW m \in MotionPlus
  PROVE  OnIdentifier(id, e, m) \in Decisions
<1>1. update_motionplus(m) \in Seq(Calls) /\ activate_motionplus(e) \in Seq(Calls)
  BY CallListTypes
<1>2. update_motionplus(m) \o set_reporting_mode \in Seq(Calls)
  BY <1>1, CallListTypes
<1>3. <<>> \in Seq(Calls)
  OBVIOUS
<1> QED
  BY <1>1, <1>2, <1>3 DEF OnIdentifier, Decision, Decisions, Extensions, MotionPlus

LEMMA OnMemReadType ==
  ASSUME NEW a \in Addresses, NEW p, NEW e \in Extensions, NEW m \in MotionPlus
  PROVE  OnMemRead(a, p, e, m) \in Decisions
<1>1. request_wiimote_calibration(FALSE) \in Seq(Calls)
  BY CallListTypes
<1>2. <<>> \in Seq(Calls)
  OBVIOUS
<1> QED
  BY <1>1, <1>2, OnIdentifierType DEF OnMemRead, Decision, Decisions

-----------------------------------------------------------------------------
(* The initial states. *)

LEMMA InitIInv == Init => IInv
<1> SUFFICES ASSUME Init PROVE IInv
  OBVIOUS
<1>1. TypeOK
  <2>1. init_calls \in Seq(Calls) /\ <<>> \in Seq(Calls)
    BY CallListTypes
  <2>2. todo \in [Callers -> Seq(Calls)]
    BY <2>1 DEF Init, Callers
  <2>3. NoReport \in ReadReplies
    BY DEF NoReport, ReadReplies, Payloads
  <2>4. /\ pc \in [Threads -> CallerPc \cup ReaderPc \cup MemReqPc]
        /\ pc["main"] \in CallerPc
        /\ pc["reader"] \in ReaderPc
        /\ pc["memreq"] \in MemReqPc
    BY DEF Init, Threads, Callers, CallerPc, ReaderPc, MemReqPc
  <2>5. plugs \in 0..MaxPlugs
    BY ConstantsAssumption DEF Init
  <2>6. /\ queue \in Seq(MemWrites \cup MemReads)
        /\ read_requests \in Seq([addr : Addresses, got : Nat])
        /\ m_write_queue \in Seq(Calls)
        /\ toDevice \in Seq(Calls)
        /\ toHost \in Seq(Replies)
    BY DEF Init
  <2>7. /\ m_extension \in Extensions
        /\ m_motionplus \in MotionPlus
        /\ plugged \in Plugs \cup {Nothing}
        /\ report \in ReadReplies
    BY <2>3 DEF Init, Extensions, MotionPlus
  <2>8. /\ m_mem_read_update_mutex \in BOOLEAN /\ control_mutex \in BOOLEAN
        /\ wait_for_read \in BOOLEAN /\ wait_for_write \in BOOLEAN
    BY DEF Init
  <2> QED
    BY <2>2, <2>4, <2>5, <2>6, <2>7, <2>8 DEF TypeOK, PcTypeOK, CallTypeOK, FlagTypeOK, WireTypeOK, HandleTypeOK
<1>2. ControlHandover
  BY DEF ControlHandover, Issuing, Unlocking, Init
<1>3. FrontPresent
  BY DEF FrontPresent, Init, Callers
<1>4. NeverAsleep
  BY DEF NeverAsleep, Init
<1> QED
  BY <1>1, <1>2, <1>3, <1>4 DEF IInv

-----------------------------------------------------------------------------
(* Every step preserves the invariant. *)

LEMMA ControlHandoverStep == IInv /\ [Next]_vars => ControlHandover'
<1> SUFFICES ASSUME IInv, [Next]_vars PROVE ControlHandover'
  OBVIOUS
<1> USE DEF IInv, TypeOK, PcTypeOK, CallTypeOK, FlagTypeOK, Threads, Callers, Goto, callVars, flagVars, wireVars, handleVars, ControlHandover, Issuing, Unlocking, CallerPc, ReaderPc, MemReqPc
<1>1. ASSUME NEW t \in Callers, CallReport(t) PROVE ControlHandover'
  BY <1>1 DEF CallReport, NextCall, CallDone
<1>2. ASSUME NEW t \in Callers, CallMemWrite(t) PROVE ControlHandover'
  BY <1>2 DEF CallMemWrite, NextCall, CallDone
<1>3. ASSUME NEW t \in Callers, CallMemRead(t) PROVE ControlHandover'
  BY <1>3 DEF CallMemRead, NextCall
<1>4. ASSUME NEW t \in Callers, PushReadRequest(t) PROVE ControlHandover'
  BY <1>4 DEF PushReadRequest
<1>5. ASSUME NEW t \in Callers, EnqueueRead(t) PROVE ControlHandover'
  BY <1>5 DEF EnqueueRead, CallDone
<1>6. CASE HandleStatus
  BY <1>6 DEF HandleStatus, Incoming, Decide
<1>7. CASE HandleAcknowledgement
  BY <1>7 DEF HandleAcknowledgement, Incoming
<1>8. CASE AckUnlock
  BY <1>8 DEF AckUnlock
<1>9. CASE LockReadRequests
  BY <1>9 DEF LockReadRequests, Incoming
<1>10. CASE IgnoreReport
  BY <1>10 DEF IgnoreReport
<1>11. CASE AcceptError
  BY <1>11 DEF AcceptError, Expected
<1>12. CASE AcceptData
  BY <1>12 DEF AcceptData, Expected
<1>13. CASE LowerReadFlag
  BY <1>13 DEF LowerReadFlag
<1>14. CASE ReadUnlock
  BY <1>14 DEF ReadUnlock
<1>15. CASE PopReadRequest
  BY <1>15 DEF PopReadRequest, Decide
<1>16. CASE Return
  BY <1>16 DEF Return
<1>17. CASE AcquireControl
  BY <1>17 DEF AcquireControl
<1>18. CASE FindEmpty
  BY <1>18 DEF FindEmpty
<1>19. CASE FindRequest
  BY <1>19 DEF FindRequest
<1>20. CASE IssueRequest
  BY <1>20 DEF IssueRequest
<1>21. CASE RaiseFlag
  BY <1>21 DEF RaiseFlag
<1>22. CASE PopRequest
  BY <1>22 DEF PopRequest
<1>23. CASE WriteLoop
  BY <1>23 DEF WriteLoop
<1>24. CASE DeviceAnswer
  BY <1>24 DEF DeviceAnswer
<1>25. CASE DevicePlug
  BY <1>25 DEF DevicePlug
<1>26. CASE UNCHANGED vars
  BY <1>26 DEF vars, deviceVars
<1> QED
  BY <1>1, <1>2, <1>3, <1>4, <1>5, <1>6, <1>7, <1>8, <1>9, <1>10, <1>11, <1>12, <1>13, <1>14, <1>15, <1>16, <1>17, <1>18, <1>19, <1>20, <1>21, <1>22, <1>23, <1>24, <1>25, <1>26
  DEF Next, Reader, MemReq, Call, Callers

LEMMA NeverAsleepStep == IInv /\ [Next]_vars => NeverAsleep'
<1> SUFFICES ASSUME IInv, [Next]_vars PROVE NeverAsleep'
  OBVIOUS
<1> USE DEF IInv, TypeOK, PcTypeOK, CallTypeOK, FlagTypeOK, Threads, Callers, Goto, callVars, flagVars, wireVars, handleVars, NeverAsleep, ControlHandover
<1>1. ASSUME NEW t \in Callers, CallReport(t) PROVE NeverAsleep'
  BY <1>1 DEF CallReport, NextCall, CallDone
<1>2. ASSUME NEW t \in Callers, CallMemWrite(t) PROVE NeverAsleep'
  BY <1>2 DEF CallMemWrite, NextCall, CallDone
<1>3. ASSUME NEW t \in Callers, CallMemRead(t) PROVE NeverAsleep'
  BY <1>3 DEF CallMemRead, NextCall
<1>4. ASSUME NEW t \in Callers, PushReadRequest(t) PROVE NeverAsleep'
  BY <1>4 DEF PushReadRequest
<1>5. ASSUME NEW t \in Callers, EnqueueRead(t) PROVE NeverAsleep'
  BY <1>5 DEF EnqueueRead, CallDone
<1>6. CASE HandleStatus
  BY <1>6 DEF HandleStatus, Incoming, Decide
<1>7. CASE HandleAcknowledgement
  BY <1>7 DEF HandleAcknowledgement, Incoming
<1>8. CASE AckUnlock
  BY <1>8 DEF AckUnlock
<1>9. CASE LockReadRequests
  BY <1>9 DEF LockReadRequests, Incoming
<1>10. CASE IgnoreReport
  BY <1>10 DEF IgnoreReport
<1>11. CASE AcceptError
  BY <1>11 DEF AcceptError, Expected
<1>12. CASE AcceptData
  BY <1>12 DEF AcceptData, Expected
<1>13. CASE LowerReadFlag
  BY <1>13 DEF LowerReadFlag
<1>14. CASE ReadUnlock
  BY <1>14 DEF ReadUnlock
<1>15. CASE PopReadRequest
  BY <1>15 DEF PopReadRequest, Decide
<1>16. CASE Return
  BY <1>16 DEF Return
<1>17. CASE AcquireControl
  BY <1>17 DEF AcquireControl
<1>18. CASE FindEmpty
  BY <1>18 DEF FindEmpty
<1>19. CASE FindRequest
  BY <1>19 DEF FindRequest
<1>20. CASE IssueRequest
  BY <1>20 DEF IssueRequest
<1>21. CASE RaiseFlag
  BY <1>21 DEF RaiseFlag
<1>22. CASE PopRequest
  BY <1>22 DEF PopRequest
<1>23. CASE WriteLoop
  BY <1>23 DEF WriteLoop
<1>24. CASE DeviceAnswer
  BY <1>24 DEF DeviceAnswer
<1>25. CASE DevicePlug
  BY <1>25 DEF DevicePlug
<1>26. CASE UNCHANGED vars
  BY <1>26 DEF vars, deviceVars
<1> QED
  BY <1>1, <1>2, <1>3, <1>4, <1>5, <1>6, <1>7, <1>8, <1>9, <1>10, <1>11, <1>12, <1>13, <1>14, <1>15, <1>16, <1>17, <1>18, <1>19, <1>20, <1>21, <1>22, <1>23, <1>24, <1>25, <1>26
  DEF Next, Reader, MemReq, Call, Callers

LEMMA FrontPresentStep == IInv /\ [Next]_vars => FrontPresent'
<1> SUFFICES ASSUME IInv, [Next]_vars PROVE FrontPresent'
  OBVIOUS
<1> USE DEF IInv, TypeOK, PcTypeOK, CallTypeOK, FlagTypeOK, Threads, Callers, Goto, callVars, flagVars, wireVars, handleVars, FrontPresent, ElementMutexFree
<1>1. ASSUME NEW t \in Callers, CallReport(t) PROVE FrontPresent'
  BY <1>1 DEF CallReport, NextCall, CallDone
<1>2. ASSUME NEW t \in Callers, CallMemWrite(t) PROVE FrontPresent'
  BY <1>2 DEF CallMemWrite, NextCall, CallDone
<1>3. ASSUME NEW t \in Callers, CallMemRead(t) PROVE FrontPresent'
  <2>1. todo[t] \in Seq(Calls) /\ todo[t] # <<>> /\ Head(todo[t]).kind = "memread"
    BY <1>3 DEF CallMemRead, NextCall
  <2>2. Head(todo[t]) \in MemReads
    BY <2>1, CallsOfKind, HeadTailProperties
  <2> QED
    BY <1>3, <2>1, <2>2 DEF CallMemRead
<1>4. ASSUME NEW t \in Callers, PushReadRequest(t) PROVE FrontPresent'
  BY <1>4 DEF PushReadRequest
<1>5. ASSUME NEW t \in Callers, EnqueueRead(t) PROVE FrontPresent'
  BY <1>5 DEF EnqueueRead, CallDone
<1>6. CASE HandleStatus
  BY <1>6 DEF HandleStatus, Incoming, Decide
<1>7. CASE HandleAcknowledgement
  BY <1>7 DEF HandleAcknowledgement, Incoming
<1>8. CASE AckUnlock
  BY <1>8 DEF AckUnlock
<1>9. CASE LockReadRequests
  BY <1>9 DEF LockReadRequests, Incoming
<1>10. CASE IgnoreReport
  BY <1>10 DEF IgnoreReport
<1>11. CASE AcceptError
  BY <1>11 DEF AcceptError, Expected
<1>12. CASE AcceptData
  BY <1>12 DEF AcceptData, Expected
<1>13. CASE LowerReadFlag
  BY <1>13 DEF LowerReadFlag
<1>14. CASE ReadUnlock
  BY <1>14 DEF ReadUnlock
<1>15. CASE PopReadRequest
  BY <1>15 DEF PopReadRequest, Decide
<1>16. CASE Return
  BY <1>16 DEF Return
<1>17. CASE AcquireControl
  BY <1>17 DEF AcquireControl
<1>18. CASE FindEmpty
  BY <1>18 DEF FindEmpty
<1>19. CASE FindRequest
  BY <1>19 DEF FindRequest
<1>20. CASE IssueRequest
  BY <1>20 DEF IssueRequest
<1>21. CASE RaiseFlag
  BY <1>21 DEF RaiseFlag
<1>22. CASE PopRequest
  BY <1>22 DEF PopRequest
<1>23. CASE WriteLoop
  BY <1>23 DEF WriteLoop
<1>24. CASE DeviceAnswer
  BY <1>24 DEF DeviceAnswer
<1>25. CASE DevicePlug
  BY <1>25 DEF DevicePlug
<1>26. CASE UNCHANGED vars
  BY <1>26 DEF vars, deviceVars
<1> QED
  BY <1>1, <1>2, <1>3, <1>4, <1>5, <1>6, <1>7, <1>8, <1>9, <1>10, <1>11, <1>12, <1>13, <1>14, <1>15, <1>16, <1>17, <1>18, <1>19, <1>20, <1>21, <1>22, <1>23, <1>24, <1>25, <1>26
  DEF Next, Reader, MemReq, Call, Callers

\* What the controller may send is a report the library knows.
LEMMA AnswerTypes ==
  ASSUME TypeOK, NEW c \in Calls, NEW reply \in Answers(c)
  PROVE  reply \in Seq(Replies)
<1>1. Status \in Replies
  BY DEF Status, Replies
<1>2. Ack("memwrite") \in Replies /\ Ack("report") \in Replies
  BY DEF Ack, Replies
<1>3. ASSUME NEW a \in Addresses PROVE ReadAnswers(a) \subseteq Seq(Replies)
  <2>1. PayloadsAt(a) \subseteq Payloads
    BY ConstantsAssumption DEF TypeOK, WireTypeOK, PayloadsAt, Payloads
  <2>2. LowBytes[a] \in Nat /\ ReadSize[a] \in Nat
    BY AddressNames DEF LowBytes, ReadSize
  <2>3. \A f \in BOOLEAN, p \in Payloads : ReadReply(a, f, p) \in ReadReplies
    BY <2>2 DEF ReadReply, ReadReplies
  <2>4. "data" \in Payloads
    BY DEF Payloads
  <2>5. \A f \in BOOLEAN, p \in Payloads : <<ReadReply(a, f, p)>> \in Seq(Replies)
    BY <2>3 DEF Replies
  <2> QED
    BY <2>1, <2>4, <2>5 DEF ReadAnswers
<1>4. CASE c \in MemReads
  <2>1. c.arg \in Addresses /\ c.kind = "memread"
    BY <1>4 DEF MemReads
  <2>2. reply \in ReadAnswers(c.arg)
    BY <2>1 DEF Answers
  <2> QED
    BY <1>3, <2>1, <2>2
<1>5. CASE c.kind = "memwrite"
  <2>1. reply = <<Ack("memwrite")>>
    BY <1>5 DEF Answers
  <2> QED
    BY <1>2, <2>1
<1>6. CASE c.kind = "report"
  <2>1. reply \in ReportAnswers(c.arg)
    BY <1>6 DEF Answers
  <2>2. reply \in {<<Status>>, <<>>, <<Ack("report")>>}
    BY <2>1 DEF ReportAnswers
  <2>3. /\ <<Status>> \in Seq(Replies) /\ <<>> \in Seq(Replies)
        /\ <<Ack("report")>> \in Seq(Replies)
    BY <1>1, <1>2
  <2> QED
    BY <2>2, <2>3
<1>7. c \in MemReads \/ c.kind = "memwrite" \/ c.kind = "report"
  BY DEF Calls, MemWrites, MemReads
<1> QED
  BY <1>4, <1>5, <1>6, <1>7

LEMMA PcTypeStep == IInv /\ [Next]_vars => PcTypeOK'
<1> SUFFICES ASSUME IInv, [Next]_vars PROVE PcTypeOK'
  OBVIOUS
<1> USE DEF IInv, TypeOK, PcTypeOK, Threads, Callers, CallerPc, ReaderPc, MemReqPc, Goto
<1>1. ASSUME NEW t \in Callers, CallMemRead(t) PROVE PcTypeOK'
  BY <1>1 DEF CallMemRead, NextCall
<1>2. ASSUME NEW t \in Callers, PushReadRequest(t) PROVE PcTypeOK'
  BY <1>2 DEF PushReadRequest
<1>3. ASSUME NEW t \in Callers, EnqueueRead(t) PROVE PcTypeOK'
  BY <1>3 DEF EnqueueRead, CallDone
<1>4. CASE HandleStatus
  BY <1>4 DEF HandleStatus, Incoming, Decide
<1>5. CASE HandleAcknowledgement
  BY <1>5 DEF HandleAcknowledgement, Incoming
<1>6. CASE AckUnlock
  BY <1>6 DEF AckUnlock
<1>7. CASE LockReadRequests
  BY <1>7 DEF LockReadRequests, Incoming
<1>8. CASE IgnoreReport
  BY <1>8 DEF IgnoreReport
<1>9. CASE AcceptError
  BY <1>9 DEF AcceptError, Expected
<1>10. CASE AcceptData
  BY <1>10 DEF AcceptData, Expected
<1>11. CASE LowerReadFlag
  BY <1>11 DEF LowerReadFlag
<1>12. CASE ReadUnlock
  BY <1>12 DEF ReadUnlock
<1>13. CASE PopReadRequest
  BY <1>13 DEF PopReadRequest, Decide
<1>14. CASE Return
  BY <1>14 DEF Return
<1>15. CASE AcquireControl
  BY <1>15 DEF AcquireControl
<1>16. CASE FindEmpty
  BY <1>16 DEF FindEmpty
<1>17. CASE FindRequest
  BY <1>17 DEF FindRequest
<1>18. CASE IssueRequest
  BY <1>18 DEF IssueRequest
<1>19. CASE RaiseFlag
  BY <1>19 DEF RaiseFlag
<1>20. CASE PopRequest
  BY <1>20 DEF PopRequest
<1>21. CASE UNCHANGED pc
  BY <1>21
<1> QED
  BY <1>1, <1>2, <1>3, <1>4, <1>5, <1>6, <1>7, <1>8, <1>9, <1>10, <1>11, <1>12, <1>13, <1>14, <1>15, <1>16, <1>17, <1>18, <1>19, <1>20, <1>21
  DEF Next, Reader, MemReq, Call, Callers, vars, CallReport, CallMemWrite, WriteLoop, DeviceAnswer, DevicePlug

\* The calls left to make stay well typed.
LEMMA CallDoneType ==
  ASSUME CallTypeOK, NEW t \in Callers, todo[t] # <<>>
  PROVE  /\ Head(todo[t]) \in Calls
         /\ CallDone(t) => todo' \in [Callers -> Seq(Calls)]
<1>1. todo[t] \in Seq(Calls)
  BY DEF CallTypeOK
<1>2. Head(todo[t]) \in Calls /\ Tail(todo[t]) \in Seq(Calls)
  BY <1>1, HeadTailProperties
<1> QED
  BY <1>2 DEF CallTypeOK, CallDone

\* A decision of the read thread leaves well-typed state.
LEMMA DecideType ==
  ASSUME CallTypeOK, NEW d \in Decisions, Decide(d)
  PROVE  /\ todo' \in [Callers -> Seq(Calls)]
         /\ m_extension' \in Extensions
         /\ m_motionplus' \in MotionPlus
BY DEF CallTypeOK, Decisions, Decide

\* The report the read thread has just received.
LEMMA IncomingType ==
  ASSUME WireTypeOK, NEW type, Incoming(type)
  PROVE  /\ Head(toHost) \in Replies
         /\ toHost' \in Seq(Replies)
         /\ type = "memread" => Head(toHost) \in ReadReplies
         /\ type = "status" => Head(toHost).plugged \in BOOLEAN
<1>1. toHost \in Seq(Replies) /\ toHost # <<>> /\ toHost' = Tail(toHost)
  BY DEF WireTypeOK, Incoming
<1>2. Head(toHost) \in Replies /\ toHost' \in Seq(Replies)
  BY <1>1, HeadTailProperties
<1> QED
  BY <1>2 DEF Incoming, Replies, ReadReplies

\* What an accepted read decides.
LEMMA AcceptedDecision ==
  ASSUME CallTypeOK, HandleTypeOK, read_requests # <<>>
  PROVE  OnMemRead(Head(read_requests).addr, report.payload, m_extension, m_motionplus)
           \in Decisions
<1>1. Head(read_requests) \in [addr : Addresses, got : Nat]
  BY HeadTailProperties DEF CallTypeOK
<1> QED
  BY <1>1, OnMemReadType DEF HandleTypeOK

LEMMA CallTypeStep == IInv /\ [Next]_vars => CallTypeOK'
<1> SUFFICES ASSUME IInv, [Next]_vars PROVE CallTypeOK'
  OBVIOUS
<1>0. TypeOK /\ CallTypeOK /\ WireTypeOK /\ HandleTypeOK /\ FrontPresent
  BY DEF IInv, TypeOK
<1>1. ASSUME NEW t \in Callers, CallReport(t) PROVE CallTypeOK'
  BY <1>0, <1>1, CallDoneType DEF CallReport, NextCall, CallTypeOK
<1>2. ASSUME NEW t \in Callers, CallMemWrite(t) PROVE CallTypeOK'
  <2>1. todo[t] # <<>> /\ Head(todo[t]).kind = "memwrite"
    BY <1>2 DEF CallMemWrite, NextCall
  <2>2. Head(todo[t]) \in MemWrites
    BY <1>0, <2>1, CallDoneType, CallsOfKind
  <2>3. queue' \in Seq(MemWrites \cup MemReads)
    BY <1>0, <1>2, <2>2 DEF CallMemWrite, CallTypeOK
  <2>4. todo' \in [Callers -> Seq(Calls)]
    BY <1>0, <1>2, <2>1, CallDoneType DEF CallMemWrite
  <2> QED
    BY <1>0, <1>2, <2>3, <2>4 DEF CallMemWrite, CallTypeOK
<1>3. ASSUME NEW t \in Callers, CallMemRead(t) PROVE CallTypeOK'
  BY <1>0, <1>3 DEF CallMemRead, CallTypeOK
<1>4. ASSUME NEW t \in Callers, PushReadRequest(t) PROVE CallTypeOK'
  <2>1. Head(todo[t]) \in MemReads
    BY <1>0, <1>4 DEF PushReadRequest, FrontPresent
  <2> DEFINE r == [addr |-> Head(todo[t]).arg, got |-> 0]
             R == [addr : Addresses, got : Nat]
  <2>2. r \in R
    BY <2>1 DEF MemReads
  <2>3. read_requests \in Seq(R) /\ read_requests' = Append(read_requests, r)
    BY <1>0, <1>4 DEF PushReadRequest, CallTypeOK
  <2>4. read_requests' \in Seq(R)
    <3> HIDE DEF r, R
    <3> QED
      BY <2>2, <2>3
  <2> QED
    BY <1>0, <1>4, <2>4 DEF PushReadRequest, CallTypeOK
<1>5. ASSUME NEW t \in Callers, EnqueueRead(t) PROVE CallTypeOK'
  <2>1. todo[t] # <<>> /\ Head(todo[t]) \in MemReads
    BY <1>0, <1>5 DEF EnqueueRead, FrontPresent
  <2>2. queue' \in Seq(MemWrites \cup MemReads)
    BY <1>0, <1>5, <2>1 DEF EnqueueRead, CallTypeOK
  <2>3. todo' \in [Callers -> Seq(Calls)]
    BY <1>0, <1>5, <2>1, CallDoneType DEF EnqueueRead
  <2> QED
    BY <1>0, <1>5, <2>2, <2>3 DEF EnqueueRead, CallTypeOK
<1>6. CASE HandleStatus
  <2>1. OnStatus(Head(toHost).plugged, m_extension, m_motionplus) \in Decisions
    BY <1>0, <1>6, IncomingType, OnStatusType DEF HandleStatus, HandleTypeOK
  <2>2. todo' \in [Callers -> Seq(Calls)]
    BY <1>0, <1>6, <2>1, DecideType DEF HandleStatus
  <2> QED
    BY <1>0, <1>6, <2>2 DEF HandleStatus, CallTypeOK
<1>7. CASE LockReadRequests
  BY <1>0, <1>7 DEF LockReadRequests, CallTypeOK
<1>8. CASE IgnoreReport
  BY <1>0, <1>8 DEF IgnoreReport, CallTypeOK
<1>9. CASE AcceptData
  <2> DEFINE R == [addr : Addresses, got : Nat]
             front == Head(read_requests)
             got == front.got + report.size
  <2>1. read_requests \in Seq(R) /\ read_requests # <<>>
    BY <1>0, <1>9 DEF AcceptData, Expected, CallTypeOK
  <2>2. front \in R /\ Tail(read_requests) \in Seq(R)
    BY <2>1, HeadTailProperties
  <2>3. got \in Nat
    BY <1>0, <2>2 DEF HandleTypeOK, ReadReplies
  <2>4. [front EXCEPT !.got = got] \in R
    BY <2>2, <2>3
  <2>5. <<[front EXCEPT !.got = got]>> \o Tail(read_requests) \in Seq(R)
    BY <2>2, <2>4, ConcatProperties
  <2>6. read_requests' \in Seq(R)
    BY <1>9, <2>5 DEF AcceptData
  <2>7. UNCHANGED <<todo, queue>> /\ m_mem_read_update_mutex' \in BOOLEAN
    BY <1>9 DEF AcceptData
  <2> QED
    BY <1>0, <2>6, <2>7 DEF CallTypeOK
<1>10. CASE PopReadRequest
  <2>1. read_requests # <<>>
    BY <1>0, <1>10 DEF PopReadRequest, FrontPresent
  <2>2. read_requests' \in Seq([addr : Addresses, got : Nat])
    BY <1>0, <1>10, <2>1, HeadTailProperties DEF PopReadRequest, CallTypeOK
  <2>3. todo' \in [Callers -> Seq(Calls)]
    BY <1>0, <1>10, <2>1, AcceptedDecision, DecideType DEF PopReadRequest, CallTypeOK
  <2> QED
    BY <1>0, <1>10, <2>2, <2>3 DEF PopReadRequest, CallTypeOK
<1>11. CASE Return
  BY <1>0, <1>11 DEF Return, CallTypeOK
<1>12. CASE PopRequest
  <2>1. queue # <<>>
    BY <1>0, <1>12 DEF PopRequest, FrontPresent
  <2>2. queue' \in Seq(MemWrites \cup MemReads)
    BY <1>0, <1>12, <2>1, HeadTailProperties DEF PopRequest, CallTypeOK
  <2> QED
    BY <1>0, <1>12, <2>2 DEF PopRequest, CallTypeOK
<1>13. CASE UNCHANGED callVars
  BY <1>0, <1>13 DEF callVars, CallTypeOK
<1>14. ASSUME NEW t \in Callers, Call(t) PROVE CallTypeOK'
  BY <1>14, <1>1, <1>2, <1>3, <1>4, <1>5, <1>13 DEF Call
<1>15. CASE Reader
  BY <1>14, <1>15, <1>6, <1>7, <1>8, <1>9, <1>10, <1>11, <1>13
  DEF Reader, Callers, HandleAcknowledgement, AckUnlock, AcceptError, LowerReadFlag, ReadUnlock
<1>16. CASE MemReq
  BY <1>16, <1>12, <1>13 DEF MemReq, AcquireControl, FindEmpty, FindRequest, IssueRequest, RaiseFlag
<1> QED
  BY <1>14, <1>15, <1>16, <1>13 DEF Next, Callers, vars, WriteLoop, DeviceAnswer, DevicePlug

LEMMA FlagTypeStep == IInv /\ [Next]_vars => FlagTypeOK'
<1> SUFFICES ASSUME IInv, [Next]_vars PROVE FlagTypeOK'
  OBVIOUS
<1> USE DEF IInv, TypeOK, FlagTypeOK, flagVars
<1>1. CASE HandleAcknowledgement
  BY <1>1 DEF HandleAcknowledgement, Incoming, callVars, flagVars, wireVars, handleVars, deviceVars
<1>2. CASE AckUnlock
  BY <1>2 DEF AckUnlock, callVars, flagVars, wireVars, handleVars, deviceVars
<1>3. CASE LowerReadFlag
  BY <1>3 DEF LowerReadFlag, callVars, flagVars, wireVars, handleVars, deviceVars
<1>4. CASE ReadUnlock
  BY <1>4 DEF ReadUnlock, callVars, flagVars, wireVars, handleVars, deviceVars
<1>5. CASE AcquireControl
  BY <1>5 DEF AcquireControl, callVars, flagVars, wireVars, handleVars, deviceVars
<1>6. CASE FindEmpty
  BY <1>6 DEF FindEmpty, callVars, flagVars, wireVars, handleVars, deviceVars
<1>7. CASE RaiseFlag
  BY <1>7 DEF RaiseFlag, callVars, flagVars, wireVars, handleVars, deviceVars
<1>8. CASE UNCHANGED flagVars
  BY <1>8 DEF flagVars
<1> QED
  BY <1>1, <1>2, <1>3, <1>4, <1>5, <1>6, <1>7, <1>8
  DEF Next, Reader, MemReq, Call, Callers, vars, CallReport, CallMemWrite, CallMemRead, PushReadRequest, EnqueueRead, HandleStatus, LockReadRequests, IgnoreReport, AcceptError, AcceptData, PopReadRequest, Return, FindRequest, IssueRequest, PopRequest, WriteLoop, DeviceAnswer, DevicePlug

LEMMA WireTypeStep == IInv /\ [Next]_vars => WireTypeOK'
<1> SUFFICES ASSUME IInv, [Next]_vars PROVE WireTypeOK'
  OBVIOUS
<1>0. TypeOK /\ CallTypeOK /\ WireTypeOK /\ FrontPresent
  BY DEF IInv, TypeOK
<1>1. ASSUME NEW t \in Callers, CallReport(t) PROVE WireTypeOK'
  BY <1>0, <1>1, CallDoneType DEF CallReport, NextCall, WireTypeOK, deviceVars
<1>2. CASE HandleStatus
  BY <1>0, <1>2, IncomingType DEF HandleStatus, WireTypeOK, deviceVars
<1>3. CASE HandleAcknowledgement
  BY <1>0, <1>3, IncomingType DEF HandleAcknowledgement, WireTypeOK, deviceVars
<1>4. CASE LockReadRequests
  BY <1>0, <1>4, IncomingType DEF LockReadRequests, WireTypeOK, deviceVars
<1>5. CASE IssueRequest
  <2>1. queue # <<>>
    BY <1>0, <1>5 DEF IssueRequest, FrontPresent
  <2>2. Head(queue) \in MemWrites \cup MemReads
    BY <1>0, <2>1, HeadTailProperties DEF CallTypeOK
  <2>3. Head(queue) \in Calls
    BY <2>2 DEF Calls
  <2> QED
    BY <1>0, <1>5, <2>3 DEF IssueRequest, WireTypeOK, deviceVars
<1>6. CASE WriteLoop
  <2>1. m_write_queue \in Seq(Calls) /\ m_write_queue # <<>>
    BY <1>0, <1>6 DEF WriteLoop, WireTypeOK
  <2>2. Head(m_write_queue) \in Calls /\ Tail(m_write_queue) \in Seq(Calls)
    BY <2>1, HeadTailProperties
  <2>3. toDevice' \in Seq(Calls)
    <3>1. CASE toDevice' = Append(toDevice, Head(m_write_queue))
      BY <1>0, <2>2, <3>1, AppendProperties DEF WireTypeOK
    <3>2. CASE UNCHANGED toDevice
      BY <1>0, <3>2 DEF WireTypeOK
    <3> QED
      BY <1>6, <3>1, <3>2 DEF WriteLoop
  <2> QED
    BY <1>0, <1>6, <2>2, <2>3 DEF WriteLoop, WireTypeOK, deviceVars
<1>7. CASE DeviceAnswer
  <2>1. toDevice \in Seq(Calls) /\ toDevice # <<>>
    BY <1>0, <1>7 DEF DeviceAnswer, WireTypeOK
  <2>2. Head(toDevice) \in Calls /\ Tail(toDevice) \in Seq(Calls)
    BY <2>1, HeadTailProperties
  <2>3. PICK reply \in Answers(Head(toDevice)) : toHost' = toHost \o reply
    BY <1>7 DEF DeviceAnswer
  <2>4. reply \in Seq(Replies)
    BY <1>0, <2>2, AnswerTypes
  <2>5. toHost' \in Seq(Replies)
    BY <1>0, <2>3, <2>4, ConcatProperties DEF WireTypeOK
  <2> QED
    BY <1>0, <1>7, <2>2, <2>5 DEF DeviceAnswer, WireTypeOK, deviceVars
<1>8. CASE DevicePlug
  <2>1. plugs' \in 0..MaxPlugs
    BY <1>0, <1>8, ConstantsAssumption DEF DevicePlug, WireTypeOK
  <2>2. plugged' \in Plugs \cup {Nothing}
    BY <1>8 DEF DevicePlug
  <2>3. Status' \in Replies
    BY DEF Status, Replies
  <2>4. toHost' \in Seq(Replies)
    BY <1>0, <1>8, <2>3 DEF DevicePlug, WireTypeOK
  <2> QED
    BY <1>0, <1>8, <2>1, <2>2, <2>4 DEF DevicePlug, WireTypeOK
<1>9. CASE UNCHANGED wireVars
  BY <1>0, <1>9 DEF wireVars, deviceVars, WireTypeOK
<1>10. ASSUME NEW t \in Callers, Call(t) PROVE WireTypeOK'
  BY <1>10, <1>1, <1>9 DEF Call, CallMemWrite, CallMemRead, PushReadRequest, EnqueueRead
<1>11. CASE Reader
  BY <1>10, <1>11, <1>2, <1>3, <1>4, <1>9
  DEF Reader, Callers, AckUnlock, IgnoreReport, AcceptError, AcceptData, LowerReadFlag, ReadUnlock, PopReadRequest, Return
<1>12. CASE MemReq
  BY <1>12, <1>5, <1>9 DEF MemReq, AcquireControl, FindEmpty, FindRequest, RaiseFlag, PopRequest
<1> QED
  BY <1>10, <1>11, <1>12, <1>6, <1>7, <1>8, <1>9 DEF Next, Callers, vars

LEMMA HandleTypeStep == IInv /\ [Next]_vars => HandleTypeOK'
<1> SUFFICES ASSUME IInv, [Next]_vars PROVE HandleTypeOK'
  OBVIOUS
<1>0. TypeOK /\ CallTypeOK /\ WireTypeOK /\ HandleTypeOK /\ FrontPresent
  BY DEF IInv, TypeOK
<1>n. NoReport \in ReadReplies
  BY DEF NoReport, ReadReplies, Payloads
<1>1. CASE HandleStatus
  <2>1. OnStatus(Head(toHost).plugged, m_extension, m_motionplus) \in Decisions
    BY <1>0, <1>1, IncomingType, OnStatusType DEF HandleStatus, HandleTypeOK
  <2>2. m_extension' \in Extensions /\ m_motionplus' \in MotionPlus
    BY <1>0, <1>1, <2>1, DecideType DEF HandleStatus
  <2> QED
    BY <1>1, <1>n, <2>2 DEF HandleStatus, HandleTypeOK
<1>2. CASE LockReadRequests
  BY <1>0, <1>2, IncomingType DEF LockReadRequests, HandleTypeOK
<1>3. CASE IgnoreReport
  BY <1>0, <1>3, <1>n DEF IgnoreReport, HandleTypeOK
<1>4. CASE AcceptData
  BY <1>0, <1>4, <1>n DEF AcceptData, HandleTypeOK
<1>5. CASE PopReadRequest
  <2>1. read_requests # <<>>
    BY <1>0, <1>5 DEF PopReadRequest, FrontPresent
  <2>2. m_extension' \in Extensions /\ m_motionplus' \in MotionPlus
    BY <1>0, <1>5, <2>1, AcceptedDecision, DecideType DEF PopReadRequest, HandleTypeOK
  <2>3. report' \in ReadReplies
    BY <1>0, <1>5, <1>n DEF PopReadRequest, HandleTypeOK
  <2> QED
    BY <2>2, <2>3 DEF HandleTypeOK
<1>6. CASE Return
  BY <1>0, <1>6, <1>n DEF Return, HandleTypeOK
<1>7. CASE UNCHANGED handleVars
  BY <1>0, <1>7 DEF handleVars, HandleTypeOK
<1> QED
  BY <1>1, <1>2, <1>3, <1>4, <1>5, <1>6, <1>7
  DEF Next, Reader, MemReq, Call, vars, CallReport, CallMemWrite, CallMemRead,
      PushReadRequest, EnqueueRead, HandleAcknowledgement, AckUnlock, AcceptError,
      LowerReadFlag, ReadUnlock, AcquireControl, FindEmpty, FindRequest, IssueRequest,
      RaiseFlag, PopRequest, WriteLoop, DeviceAnswer, DevicePlug

-----------------------------------------------------------------------------
(* The theorems. *)

THEOREM Invariance == Spec => []IInv
<1>1. IInv /\ [Next]_vars => IInv'
  BY PcTypeStep, CallTypeStep, FlagTypeStep, WireTypeStep, HandleTypeStep,
     ControlHandoverStep, NeverAsleepStep, FrontPresentStep
  DEF IInv, TypeOK
<1> QED
  BY InitIInv, <1>1, PTL DEF Spec

\* Every variable keeps the type of its declaration.
THEOREM TypeCorrect == Spec => []TypeOK
BY Invariance, PTL DEF IInv

\* control_mutex is never unlocked under a thread that is using it.
THEOREM ControlIsHandedOver == Spec => []ControlHandover
BY Invariance, PTL DEF IInv

\* mem_req_loop never waits on control_cv, whatever the timing.
THEOREM MemReqNeverAsleep == Spec => []NeverAsleep
BY Invariance, PTL DEF IInv

\* front() and pop() are never called on an empty queue.
THEOREM FrontAlwaysPresent == Spec => []FrontPresent
BY Invariance, PTL DEF IInv

-----------------------------------------------------------------------------
(* The refinement of StopAndWait. *)

\* The steps that leave the abstract state alone.
LEMMA Stutter ==
  ASSUME UNCHANGED <<queue, wait_for_read, wait_for_write>>,
         pc["memreq"] # "pop", pc'["memreq"] # "pop"
  PROVE  UNCHANGED <<Pending, Outstanding>>
BY DEF Pending, Outstanding

\* A request queued by a caller is submitted.
LEMMA Enqueue ==
  ASSUME NEW r \in MemWrites \cup MemReads,
         ElementMutexFree, pc'["memreq"] = pc["memreq"],
         queue' = Append(queue, r),
         UNCHANGED <<wait_for_read, wait_for_write>>
  PROVE  SW!Next
<1>1. Pending = queue /\ Pending' = queue'
  BY DEF Pending, ElementMutexFree
<1>2. UNCHANGED Outstanding
  BY DEF Outstanding
<1> QED
  BY <1>1, <1>2 DEF SW!Next, SW!Submit

\* A flag lowered by the read thread completes a request.
LEMMA Lower ==
  ASSUME UNCHANGED <<queue>>, pc'["memreq"] = pc["memreq"],
         wait_for_read \/ wait_for_write, ~wait_for_read', ~wait_for_write'
  PROVE  SW!Next
<1>1. UNCHANGED Pending
  BY DEF Pending
<1>2. Outstanding # "none" /\ Outstanding' = "none"
  BY DEF Outstanding
<1> QED
  BY <1>1, <1>2 DEF SW!Next, SW!Complete

LEMMA RefinementStep ==
  IInv /\ [Next]_vars => [SW!Next]_<<Pending, Outstanding>>
<1> SUFFICES ASSUME IInv, [Next]_vars
             PROVE  SW!Next \/ UNCHANGED <<Pending, Outstanding>>
  OBVIOUS
<1> DEFINE Abstract == SW!Next \/ UNCHANGED <<Pending, Outstanding>>
<1>0. /\ PcTypeOK /\ CallTypeOK /\ FlagTypeOK
      /\ ControlHandover /\ FrontPresent
  BY DEF IInv, TypeOK
<1>f. ASSUME UNCHANGED <<queue, wait_for_read, wait_for_write>>,
             pc'["memreq"] = pc["memreq"]
      PROVE  Abstract
  BY <1>f DEF Pending, Outstanding
<1>1. ASSUME NEW t \in Callers, CallMemWrite(t) PROVE Abstract
  <2>1. todo[t] # <<>> /\ Head(todo[t]).kind = "memwrite"
    BY <1>1 DEF CallMemWrite, NextCall
  <2>2. Head(todo[t]) \in MemWrites
    BY <1>0, <2>1, CallDoneType, CallsOfKind
  <2> QED
    BY <1>1, <2>2, Enqueue DEF CallMemWrite, flagVars
<1>2. ASSUME NEW t \in Callers, EnqueueRead(t) PROVE Abstract
  <2>1. Head(todo[t]) \in MemReads
    BY <1>0, <1>2 DEF EnqueueRead, FrontPresent
  <2>2. pc'["memreq"] = pc["memreq"]
    BY <1>0, <1>2 DEF EnqueueRead, Goto, Callers, Threads, PcTypeOK
  <2> QED
    BY <1>2, <2>1, <2>2, Enqueue DEF EnqueueRead, flagVars
<1>3. ASSUME NEW t \in Callers, CallReport(t) \/ CallMemRead(t) \/ PushReadRequest(t)
      PROVE  Abstract
  <2>1. pc'["memreq"] = pc["memreq"]
    BY <1>0, <1>3
    DEF CallReport, CallMemRead, PushReadRequest, Goto, Callers, Threads, PcTypeOK
  <2> QED
    BY <1>3, <1>f, <2>1 DEF CallReport, CallMemRead, PushReadRequest, flagVars
<1>4. CASE HandleAcknowledgement
  <2>1. UNCHANGED queue /\ UNCHANGED wait_for_read /\ pc'["memreq"] = pc["memreq"]
    BY <1>0, <1>4 DEF HandleAcknowledgement, Goto, Threads, Callers, PcTypeOK, callVars
  <2>2. CASE UNCHANGED wait_for_write
    BY <1>f, <2>1, <2>2
  <2>3. CASE wait_for_write' # wait_for_write
    <3>1. wait_for_write /\ ~wait_for_write' /\ ~wait_for_read'
      BY <1>0, <1>4, <2>1, <2>3 DEF HandleAcknowledgement, ControlHandover, FlagTypeOK
    <3> QED
      BY <2>1, <3>1, Lower
  <2> QED
    BY <2>2, <2>3
<1>5. CASE LowerReadFlag
  <2>1. /\ UNCHANGED queue /\ UNCHANGED wait_for_write /\ ~wait_for_read'
        /\ pc'["memreq"] = pc["memreq"]
    BY <1>0, <1>5 DEF LowerReadFlag, Goto, Threads, Callers, PcTypeOK, callVars
  <2>2. CASE wait_for_read
    <3>1. ~wait_for_write'
      BY <1>0, <2>1, <2>2 DEF ControlHandover
    <3> QED
      BY <2>1, <2>2, <3>1, Lower
  <2>3. CASE ~wait_for_read
    <3>1. UNCHANGED wait_for_read
      BY <1>0, <1>5, <2>3 DEF LowerReadFlag, FlagTypeOK
    <3> QED
      BY <1>f, <2>1, <3>1
  <2> QED
    BY <2>2, <2>3
<1>6. CASE RaiseFlag
  <2>1. ~wait_for_read /\ ~wait_for_write /\ queue # <<>>
    BY <1>0, <1>6 DEF RaiseFlag, ControlHandover, Issuing, FrontPresent
  <2>2. Head(queue) \in MemWrites \cup MemReads
    BY <1>0, <2>1, HeadTailProperties DEF CallTypeOK
  <2>3. Pending = queue /\ Pending' = Tail(queue)
    BY <1>0, <1>6 DEF RaiseFlag, Goto, Threads, PcTypeOK, callVars, Pending
  <2>4. Outstanding = "none"
    BY <2>1 DEF Outstanding
  <2>5. Outstanding' = Head(queue).kind
    BY <1>6, <2>1, <2>2 DEF RaiseFlag, Outstanding, MemWrites, MemReads
  <2>6. SW!Issue
    BY <2>1, <2>3, <2>4, <2>5 DEF SW!Issue
  <2> QED
    BY <2>6 DEF SW!Next
<1>7. CASE PopRequest
  <2>1. Pending = Tail(queue) /\ Pending' = Tail(queue)
    BY <1>0, <1>7 DEF PopRequest, Goto, Threads, PcTypeOK, Pending
  <2>2. UNCHANGED Outstanding
    BY <1>7 DEF PopRequest, flagVars, Outstanding
  <2> QED
    BY <2>1, <2>2
<1>8. CASE AcquireControl \/ FindEmpty \/ FindRequest \/ IssueRequest
  <2>1. pc["memreq"] # "pop" /\ pc'["memreq"] # "pop"
    BY <1>0, <1>8
    DEF AcquireControl, FindEmpty, FindRequest, IssueRequest, Goto, Threads, PcTypeOK
  <2>2. UNCHANGED <<queue, wait_for_read, wait_for_write>>
    BY <1>8
    DEF AcquireControl, FindEmpty, FindRequest, IssueRequest, callVars, flagVars
  <2> QED
    BY <2>1, <2>2, Stutter
<1>9. CASE \/ HandleStatus \/ AckUnlock \/ LockReadRequests \/ IgnoreReport
           \/ AcceptError \/ AcceptData \/ ReadUnlock \/ PopReadRequest \/ Return
  <2>1. pc'["memreq"] = pc["memreq"]
    BY <1>0, <1>9
    DEF HandleStatus, AckUnlock, LockReadRequests, IgnoreReport, AcceptError, AcceptData,
        ReadUnlock, PopReadRequest, Return, Goto, Threads, Callers, PcTypeOK
  <2>2. UNCHANGED <<queue, wait_for_read, wait_for_write>>
    BY <1>9
    DEF HandleStatus, AckUnlock, LockReadRequests, IgnoreReport, AcceptError, AcceptData,
        ReadUnlock, PopReadRequest, Return, callVars, flagVars
  <2> QED
    BY <1>f, <2>1, <2>2
<1>10. CASE WriteLoop \/ DeviceAnswer \/ DevicePlug \/ UNCHANGED vars
  BY <1>f, <1>10 DEF WriteLoop, DeviceAnswer, DevicePlug, callVars, flagVars, vars
<1> QED
  BY <1>1, <1>2, <1>3, <1>4, <1>5, <1>6, <1>7, <1>8, <1>9, <1>10
  DEF Next, Reader, MemReq, Call, Callers

\* The threads of the wiimote class, for any controller and any timing, issue
\* memory requests in order and one at a time.
THEOREM Refinement == Spec => ImplementsStopAndWait
<1>1. Init => SW!Init
  BY DEF Init, SW!Init, Pending, Outstanding, Threads
<1>2. IInv /\ [Next]_vars => [SW!Next]_<<Pending, Outstanding>>
  BY RefinementStep
<1> QED
  BY Invariance, <1>1, <1>2, PTL DEF Spec, ImplementsStopAndWait, SW!Spec

=============================================================================
