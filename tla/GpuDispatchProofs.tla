------------------------- MODULE GpuDispatchProofs --------------------------
(***************************************************************************)
(* The device's failed flag is enough to keep jobs of a context from       *)
(* meeting, for any number of devices, programs, buffers and calls, and    *)
(* its addresses are handed out once.                                      *)
(***************************************************************************)
EXTENDS GpuDispatch, TLAPS

Early == {"create", "map", "domain", "upload", "submit"}

(* A context is made once and belongs to one device. *)
ContextsOwned ==
    /\ \A d \in Devices : device[d].ctx =< opens
    /\ \A d, e \in Devices : device[d].ctx = device[e].ctx /\ device[d].ctx # 0 => d = e
    /\ \A j \in jobs : j.ctx =< opens
    /\ \A c \in lost : c # 0 /\ c =< opens

(* A device that is not failed has no job, and a context one at most. *)
JobsTracked ==
    /\ \A j, k \in jobs : j.ctx = k.ctx => j = k
    /\ \A d \in Devices, j \in jobs : ~ device[d].failed => j.ctx # device[d].ctx

(* Up to the submission the device is sound; after it the device counts as  *)
(* failed but the context is not lost, and in the readback its job has      *)
(* ended.                                                                   *)
CallTracked ==
    ~ Idle =>
        /\ call.dev \in Devices /\ IsOpen(call.dev)
        /\ call.stage \in Early \cup {"wait", "read"}
        /\ call.stage \in Early => ~ device[call.dev].failed
        /\ call.stage \notin Early => device[call.dev].failed /\ device[call.dev].ctx \notin lost
        /\ call.stage = "read" => \A j \in jobs : j.ctx # device[call.dev].ctx

(* What is submitted belongs to execute or to a program. *)
CallShaped ==
    /\ call.stage = "upload" => call.op = "dispatch"
    /\ call.stage \in {"upload", "submit"} =>
          call.op = "execute" \/ (call.op = "dispatch" /\ call.slot \in Programs)

(* A running call has written nothing. *)
ResultsTracked ==
    /\ written => outcome = "ok"
    /\ ~ Idle => ~ written

IInv ==
    /\ TypeOK /\ ContextsOwned /\ JobsTracked /\ CallTracked
    /\ CallShaped /\ LostStaysFailed /\ ResultsTracked

-----------------------------------------------------------------------------

LEMMA InitIInv == Init => IInv
  <1> SUFFICES ASSUME Init PROVE IInv  OBVIOUS
  <1> USE DEF Init
  <1>1. TypeOK
    <2>1. device \in [Devices -> DeviceType]  BY DEF Closed, DeviceType
    <2>2. program \in [Programs -> ProgramType]  BY DEF NoProgram, Nowhere, Span, ProgramType
    <2>3. buffer \in [Buffers -> BufferType]  BY DEF NoBuffer, Nowhere, Span, BufferType
    <2>4. call \in CallType  BY DEF NoCall, Call, CallType
    <2>5. reserved \in [Devices -> Seq(Span)]  OBVIOUS
    <2>6. /\ files \subseteq Nat /\ objs \subseteq Nat \X Nat /\ maps \subseteq Nat \X Nat
          /\ lost \subseteq Nat /\ jobs \subseteq JobType
      OBVIOUS
    <2>7. opens \in 0 .. MaxOpens /\ submits \in 0 .. MaxSubmits  BY GpuAssumption
    <2>8. written \in BOOLEAN /\ outcome \in {"none", "ok", "error"}  OBVIOUS
    <2> HIDE DEF Init
    <2> QED  BY <2>1, <2>2, <2>3, <2>4, <2>5, <2>6, <2>7, <2>8 DEF TypeOK
  <1>2. ContextsOwned  BY DEF ContextsOwned, Closed
  <1>3. JobsTracked /\ LostStaysFailed  BY DEF JobsTracked, LostStaysFailed
  <1>4. CallTracked /\ ResultsTracked  BY DEF CallTracked, ResultsTracked, Idle, NoCall, Call
  <1>5. CallShaped  BY DEF CallShaped, NoCall, Call
  <1> QED  BY <1>1, <1>2, <1>3, <1>4, <1>5 DEF IInv

-----------------------------------------------------------------------------

LEMMA CallTypes ==
    ASSUME NEW op \in {"execute", "buffer", "program", "dispatch"}, NEW d \in Devices,
           NEW stage \in Early, NEW slot \in Programs \cup Buffers \cup {"none"},
           NEW pages \in Sizes \cup {0}, NEW bufs \in SUBSET Buffers
    PROVE  Call(op, d, stage, slot, pages, bufs) \in CallType
  BY DEF CallType, Call, Early

LEMMA NoCallType == NoCall \in CallType /\ NoCall.op = "none" /\ NoCall.stage = "none"
  BY DEF CallType, NoCall, Call

LEMMA PagesNat == Sizes \cup {0} \subseteq Nat
  BY GpuAssumption

(* Contexts, jobs and the flags survive a step that touches none of them. *)
LEMMA FrameKeeps ==
    ASSUME IInv, UNCHANGED <<device, opens, jobs, lost>>
    PROVE  ContextsOwned' /\ JobsTracked' /\ LostStaysFailed'
  BY DEF IInv, ContextsOwned, JobsTracked, LostStaysFailed

LEMMA OpenKeeps ==
    ASSUME IInv, NEW d \in Devices, Open(d)
    PROVE  IInv'
  <1> USE DEF Open, objectVars, ownerVars, resultVars
  <1>1. PICK fd \in 0 .. MaxOpens :
            /\ files' = files \cup {fd}
            /\ device' = [device EXCEPT ![d] = [fd |-> fd, ctx |-> opens + 1,
                                               failed |-> FALSE, next |-> FirstPage]]
    OBVIOUS
  <1>2. fd \in Nat /\ opens' = opens + 1 /\ opens' \in 0 .. MaxOpens
        /\ FirstPage \in Nat /\ opens \in Nat
    BY GpuAssumption DEF IInv, TypeOK
  <1>3. device' \in [Devices -> DeviceType]  BY <1>1, <1>2 DEF IInv, TypeOK, DeviceType
  <1>4. reserved' \in [Devices -> Seq(Span)]  BY DEF IInv, TypeOK
  <1>5. TypeOK'  BY <1>1, <1>2, <1>3, <1>4 DEF IInv, TypeOK
  <1>6. device'[d].ctx = opens + 1 /\ device'[d].failed = FALSE
        /\ \A e \in Devices : e # d => device'[e] = device[e]
    BY <1>1 DEF IInv, TypeOK
  <1>7. \A e \in Devices : device[e].ctx \in Nat /\ device[e].ctx =< opens
    BY DEF IInv, TypeOK, DeviceType, ContextsOwned
  <1>8. \A j \in jobs : j.ctx \in Nat /\ j.ctx =< opens
    BY DEF IInv, TypeOK, JobType, ContextsOwned
  <1>9. \A c \in lost : c \in Nat /\ c # 0 /\ c =< opens
    BY DEF IInv, TypeOK, ContextsOwned
  <1>10. jobs' = jobs /\ lost' = lost  OBVIOUS
  <1> HIDE DEF Open
  <1>11. ContextsOwned'
    BY <1>2, <1>6, <1>7, <1>8, <1>9, <1>10 DEF IInv, ContextsOwned
  <1>12. JobsTracked'  BY <1>2, <1>6, <1>7, <1>8, <1>10 DEF IInv, JobsTracked
  <1>13. LostStaysFailed'  BY <1>2, <1>6, <1>9, <1>10 DEF IInv, LostStaysFailed
  <1>14. CallTracked' /\ CallShaped' /\ ResultsTracked'
    BY DEF IInv, CallTracked, CallShaped, ResultsTracked, Idle, Open
  <1> QED  BY <1>5, <1>11, <1>12, <1>13, <1>14 DEF IInv

LEMMA CloseKeeps ==
    ASSUME IInv, NEW d \in Devices, Close(d)
    PROVE  IInv'
  <1> USE DEF Close, ownerVars, resultVars
  <1>1. device' = [device EXCEPT ![d] = Closed] /\ Closed \in DeviceType
        /\ Closed.ctx = 0 /\ Closed.failed = FALSE
    BY DEF Closed, DeviceType
  <1>2. device' \in [Devices -> DeviceType]  BY <1>1 DEF IInv, TypeOK
  <1>3. files' \subseteq Nat /\ objs' \subseteq Nat \X Nat  BY DEF IInv, TypeOK
  <1>4. TypeOK'  BY <1>2, <1>3 DEF IInv, TypeOK
  <1>5. device'[d].ctx = 0 /\ \A e \in Devices : e # d => device'[e] = device[e]
    BY <1>1 DEF IInv, TypeOK
  <1>6. UNCHANGED <<opens, jobs, lost, call, written, outcome>> /\ Idle  OBVIOUS
  <1>7. opens \in Nat /\ \A j \in jobs : j.ctx # 0  BY GpuAssumption DEF IInv, TypeOK, JobType
  <1> HIDE DEF Close
  <1>8. ContextsOwned'  BY <1>5, <1>6, <1>7 DEF IInv, ContextsOwned
  <1>9. JobsTracked'  BY <1>5, <1>6, <1>7 DEF IInv, JobsTracked
  <1>10. LostStaysFailed'  BY <1>5, <1>6 DEF IInv, ContextsOwned, LostStaysFailed
  <1>11. CallTracked' /\ CallShaped' /\ ResultsTracked'
    BY <1>6 DEF IInv, CallTracked, CallShaped, ResultsTracked, Idle
  <1> QED  BY <1>4, <1>8, <1>9, <1>10, <1>11 DEF IInv

(* A call that begins on a device of the caller, in an early stage. *)
LEMMA BeginKeeps ==
    ASSUME IInv, NEW c \in CallType, Begin(c), c.dev \in Devices, c.stage \in Early,
           c.stage = "create" \/ (c.op = "dispatch" /\ c.slot \in Programs)
    PROVE  IInv'
  <1> USE DEF Begin, deviceVars, objectVars, ownerVars
  <1>1. ContextsOwned' /\ JobsTracked' /\ LostStaysFailed'  BY FrameKeeps
  <1>2. TypeOK'  BY DEF IInv, TypeOK
  <1>3. CallTracked' /\ CallShaped'  BY DEF CallTracked, CallShaped, IsOpen, Early
  <1>4. ResultsTracked'  BY DEF ResultsTracked
  <1> QED  BY <1>1, <1>2, <1>3, <1>4 DEF IInv

LEMMA MakeKeeps ==
    ASSUME IInv, NEW op \in {"execute", "buffer", "program"}, NEW d \in Devices,
           NEW slot \in Programs \cup Buffers \cup {"none"}, NEW pages \in Sizes,
           Make(op, d, slot, pages)
    PROVE  IInv'
  <1> DEFINE c == Call(op, d, "create", slot, pages, {})
  <1>1. c \in CallType  BY CallTypes DEF Early
  <1>2. c.dev \in Devices /\ c.stage \in Early /\ c.stage = "create"  BY DEF Call, Early
  <1>3. Begin(c)  BY DEF Make
  <1> HIDE DEF c
  <1> QED  BY <1>1, <1>2, <1>3, BeginKeeps

LEMMA BeginDispatchKeeps ==
    ASSUME IInv, NEW p \in Programs, NEW bufs \in SUBSET Buffers, BeginDispatch(p, bufs)
    PROVE  IInv'
  <1> DEFINE c == Call("dispatch", program[p].dev, "upload", p, 0, bufs)
  <1>1. program[p].dev \in Devices
    BY DEF IInv, TypeOK, ProgramType, BeginDispatch, Owns
  <1>2. c \in CallType  BY <1>1, CallTypes DEF Early
  <1>3. /\ c.dev \in Devices /\ c.stage \in Early
        /\ c.op = "dispatch" /\ c.slot \in Programs
    BY <1>1 DEF Call, Early
  <1>4. Begin(c)  BY DEF BeginDispatch
  <1> HIDE DEF c
  <1> QED  BY <1>2, <1>3, <1>4, BeginKeeps

(* A step of the running call to another early stage. *)
LEMMA EarlyKeeps ==
    ASSUME IInv, ~ Idle, call.stage \in Early, call'.stage \in Early, call'.dev = call.dev,
           TypeOK', CallShaped', UNCHANGED <<device, opens, jobs, lost, written, outcome>>
    PROVE  IInv'
  <1>1. ContextsOwned' /\ JobsTracked' /\ LostStaysFailed'  BY FrameKeeps
  <1>2. CallTracked'  BY DEF IInv, CallTracked, IsOpen, Early
  <1>3. ResultsTracked'  BY DEF IInv, ResultsTracked
  <1> QED  BY <1>1, <1>2, <1>3 DEF IInv

LEMMA GemCreateKeeps ==
    ASSUME IInv, GemCreate
    PROVE  IInv'
  <1> USE DEF GemCreate, deviceVars, ownerVars, resultVars, At
  <1>1. PICK h \in 1 .. MaxHandles : /\ objs' = objs \cup {<<Fd, h>>}
                                     /\ call' = [call EXCEPT !.cur = h, !.stage = "map"]
    OBVIOUS
  <1>2. h \in Nat /\ Fd \in Nat
    BY GpuAssumption DEF IInv, TypeOK, CallTracked, DeviceType, Fd
  <1>3. call' \in CallType /\ call'.stage = "map" /\ call'.dev = call.dev
    BY <1>1, <1>2 DEF IInv, TypeOK, CallType
  <1>4. objs' \subseteq Nat \X Nat  BY <1>1, <1>2 DEF IInv, TypeOK
  <1>5. TypeOK'  BY <1>3, <1>4 DEF IInv, TypeOK
  <1>6. call.stage = "create"  OBVIOUS
  <1> QED  BY <1>3, <1>5, <1>6, EarlyKeeps DEF Early, CallShaped

LEMMA GemMapKeeps ==
    ASSUME IInv, GemMap
    PROVE  IInv'
  <1> USE DEF GemMap, deviceVars, ownerVars, resultVars, At
  <1>1. Fd \in Nat /\ call.cur \in Nat
    BY DEF IInv, TypeOK, CallTracked, DeviceType, Fd, CallType
  <1>2. call' \in CallType /\ call'.stage = "domain" /\ call'.dev = call.dev
    BY DEF IInv, TypeOK, CallType
  <1>3. maps' \subseteq Nat \X Nat  BY <1>1 DEF IInv, TypeOK
  <1>4. TypeOK'  BY <1>2, <1>3 DEF IInv, TypeOK
  <1> QED  BY <1>2, <1>4, EarlyKeeps DEF Early, CallShaped

LEMMA GemSetDomainKeeps ==
    ASSUME IInv, GemSetDomain
    PROVE  IInv'
  <1> USE DEF GemSetDomain, deviceVars, objectVars, ownerVars, resultVars, At
  <1>1. call.got \in Seq(Nat) /\ call.cur \in Nat  BY DEF IInv, TypeOK, CallType
  <1>2. Append(call.got, call.cur) \in Seq(Nat)  BY <1>1
  <1>3. call' \in CallType /\ call'.stage = "create" /\ call'.dev = call.dev
    BY <1>2 DEF IInv, TypeOK, CallType
  <1>4. TypeOK'  BY <1>3 DEF IInv, TypeOK
  <1> QED  BY <1>3, <1>4, EarlyKeeps DEF Early, CallShaped

LEMMA PackKeeps ==
    ASSUME IInv, PackExecute \/ PackDispatch
    PROVE  IInv'
  <1> USE DEF PackExecute, PackDispatch, deviceVars, objectVars, ownerVars, resultVars, At
  <1>1. call' = [call EXCEPT !.stage = "submit"]  OBVIOUS
  <1>2. call' \in CallType /\ call'.stage = "submit" /\ call'.dev = call.dev
    BY <1>1 DEF IInv, TypeOK, CallType
  <1>3. program' \in [Programs -> ProgramType]
    <2>1. \A b \in call.bufs : buffer[b].span \in Span
      BY DEF IInv, TypeOK, CallType, BufferType
    <2>2. program \in [Programs -> ProgramType]  BY DEF IInv, TypeOK
    <2>3. CASE program' = program  BY <2>2, <2>3
    <2>4. ASSUME NEW b \in call.bufs,
                 program' = [program EXCEPT ![call.slot].surface = buffer[b].span]
          PROVE  program' \in [Programs -> ProgramType]
      <3> DEFINE x == buffer[b].span
      <3>1. x \in Span  BY <2>1
      <3> HIDE DEF x
      <3>2. \A v \in ProgramType : [v EXCEPT !.surface = x] \in ProgramType
        BY <3>1 DEF ProgramType
      <3>3. program' = [program EXCEPT ![call.slot] = [program[call.slot] EXCEPT !.surface = x]]
        BY <2>4 DEF x
      <3> HIDE DEF PackExecute, PackDispatch
      <3> QED  BY <2>2, <3>2, <3>3
    <2> QED  BY <2>3, <2>4
  <1>4. TypeOK'  BY <1>2, <1>3 DEF IInv, TypeOK
  <1>5. ~ Idle /\ call.stage \in {"create", "upload"}  OBVIOUS
  <1>6. CallShaped'
    <2>1. call'.op = call.op /\ call'.slot = call.slot  BY <1>1 DEF IInv, TypeOK, CallType
    <2> QED  BY <1>2, <1>5, <2>1 DEF IInv, CallShaped
  <1> QED  BY <1>2, <1>4, <1>5, <1>6, EarlyKeeps DEF Early

(* A call that ends, having made nothing worse: the flags and jobs are as   *)
(* the other conjuncts need them.                                           *)
LEMMA EndKeeps ==
    ASSUME TypeOK', ContextsOwned', JobsTracked', LostStaysFailed', call' = NoCall,
           written' => outcome' = "ok"
    PROVE  IInv'
  <1>1. CallTracked' /\ CallShaped' /\ ResultsTracked'
    BY NoCallType DEF CallTracked, CallShaped, ResultsTracked, Idle
  <1> QED  BY <1>1 DEF IInv

LEMMA ReleaseTypes ==
    ASSUME IInv, Release
    PROVE  objs' \subseteq Nat \X Nat /\ maps' \subseteq Nat \X Nat
  BY DEF IInv, TypeOK, Release

LEMMA EarlyFailureKeeps ==
    ASSUME IInv, GemFails \/ SubmitFails
    PROVE  IInv'
  <1> USE DEF GemFails, SubmitFails, Fails, deviceVars, ownerVars, At
  <1>1. ContextsOwned' /\ JobsTracked' /\ LostStaysFailed'  BY FrameKeeps
  <1>2. TypeOK'  BY ReleaseTypes, NoCallType DEF IInv, TypeOK
  <1>3. ~ written' /\ call' = NoCall  BY DEF IInv, ResultsTracked
  <1> QED  BY <1>1, <1>2, <1>3, EndKeeps

(* The job is given up on: its context is lost, its device already failed. *)
LEMMA LateFailureKeeps ==
    ASSUME IInv, WaitFails \/ ReadFails
    PROVE  IInv'
  <1> USE DEF WaitFails, ReadFails, Fails, deviceVars, ownerVars, At
  <1>1. /\ call.dev \in Devices /\ device[call.dev].failed /\ Ctx = device[call.dev].ctx
        /\ Ctx \in Nat /\ Ctx # 0 /\ Ctx =< opens
    BY DEF IInv, TypeOK, DeviceType, CallTracked, ContextsOwned, IsOpen, Ctx, Early
  <1>2. UNCHANGED <<device, opens, jobs>> /\ lost' = lost \cup {Ctx}  OBVIOUS
  <1>3. lost' \subseteq Nat  BY <1>1, <1>2 DEF IInv, TypeOK
  <1>4. TypeOK'  BY <1>3, ReleaseTypes, NoCallType DEF IInv, TypeOK
  <1>5. ~ written' /\ call' = NoCall  BY DEF IInv, ResultsTracked
  <1> HIDE DEF WaitFails, ReadFails
  <1>6. ContextsOwned'  BY <1>1, <1>2 DEF IInv, ContextsOwned
  <1>7. JobsTracked'  BY <1>2 DEF IInv, JobsTracked
  <1>8. LostStaysFailed'  BY <1>1, <1>2 DEF IInv, ContextsOwned, LostStaysFailed
  <1> QED  BY <1>4, <1>5, <1>6, <1>7, <1>8, EndKeeps

LEMMA SubmitKeeps ==
    ASSUME IInv, Submit
    PROVE  IInv'
  <1> USE DEF Submit, objectVars, ownerVars, resultVars, At
  <1> DEFINE job == [id |-> submits', ctx |-> Ctx, spans |-> Spans]
  <1>1. /\ ~ Idle /\ call.dev \in Devices /\ ~ device[call.dev].failed
        /\ Ctx = device[call.dev].ctx /\ Ctx \in Nat \ {0} /\ Ctx =< opens /\ Ctx \notin lost
    <2>1. ~ Idle /\ call.stage \in Early  BY DEF Early
    <2>2. /\ call.dev \in Devices /\ ~ device[call.dev].failed
          /\ device[call.dev].ctx \in Nat \ {0} /\ device[call.dev].ctx =< opens
      BY <2>1 DEF IInv, TypeOK, DeviceType, CallTracked, ContextsOwned, IsOpen
    <2>3. device[call.dev].ctx \notin lost  BY <2>2 DEF IInv, LostStaysFailed
    <2> QED  BY <2>1, <2>2, <2>3 DEF Ctx
  <1>2. submits' \in 0 .. MaxSubmits /\ submits' \in Nat \ {0}
    BY GpuAssumption DEF IInv, TypeOK
  <1>3. Spans \in SUBSET Span
    <2>1. call.pages \in Nat  BY PagesNat DEF IInv, TypeOK, CallType
    <2>2. <<OneShot, call.pages + 2>> \in Span  BY <2>1, GpuAssumption DEF Span
    <2>3. \A b \in call.bufs : buffer[b].span \in Span
      BY DEF IInv, TypeOK, CallType, BufferType
    <2>4. call.op # "execute" => program[call.slot].span \in Span
      BY DEF IInv, TypeOK, CallShaped, ProgramType
    <2> QED  BY <2>2, <2>3, <2>4 DEF Spans
  <1>4. job \in JobType /\ job.ctx = Ctx  BY <1>1, <1>2, <1>3 DEF JobType
  <1>5. jobs' = jobs \cup {job}  OBVIOUS
  <1>6. /\ device' \in [Devices -> DeviceType] /\ device'[call.dev].failed
        /\ \A d \in Devices : device'[d].ctx = device[d].ctx
                              /\ (d # call.dev => device'[d].failed = device[d].failed)
    BY <1>1 DEF IInv, TypeOK, DeviceType
  <1>7. /\ call' \in CallType /\ call'.stage = "wait" /\ call'.dev = call.dev
        /\ call'.op = call.op
    BY DEF IInv, TypeOK, CallType
  <1> HIDE DEF job
  <1>8. TypeOK'  BY <1>2, <1>4, <1>5, <1>6, <1>7 DEF IInv, TypeOK
  <1>9. UNCHANGED <<opens, lost, written, outcome>>  OBVIOUS
  <1> HIDE DEF Submit
  <1>10. ContextsOwned'  BY <1>1, <1>4, <1>5, <1>6, <1>9 DEF IInv, ContextsOwned
  <1>11. \A j \in jobs : j.ctx # Ctx  BY <1>1 DEF IInv, JobsTracked
  <1>12. JobsTracked'
    <2>1. \A j, k \in jobs' : j.ctx = k.ctx => j = k
      BY <1>4, <1>5, <1>11 DEF IInv, JobsTracked
    <2>2. \A d \in Devices : device[d].ctx = Ctx => d = call.dev
      BY <1>1 DEF IInv, ContextsOwned
    <2>3. \A d \in Devices, j \in jobs' : ~ device'[d].failed => j.ctx # device'[d].ctx
      BY <1>4, <1>5, <1>6, <2>2 DEF IInv, JobsTracked
    <2> QED  BY <2>1, <2>3 DEF JobsTracked
  <1>13. LostStaysFailed'  BY <1>1, <1>6, <1>9 DEF IInv, LostStaysFailed
  <1>14. CallTracked'  BY <1>1, <1>6, <1>7, <1>9 DEF CallTracked, IsOpen, Early
  <1>15. CallShaped' /\ ResultsTracked'
    BY <1>1, <1>7, <1>9 DEF IInv, CallShaped, ResultsTracked
  <1> QED  BY <1>8, <1>10, <1>12, <1>13, <1>14, <1>15 DEF IInv

(* What reserve_address leaves of a device. *)
LEMMA ReserveTypes ==
    ASSUME IInv, NEW d \in Devices, NEW pages \in Nat, Reserve(d, pages)
    PROVE  /\ device' \in [Devices -> DeviceType] /\ reserved' \in [Devices -> Seq(Span)]
           /\ <<device[d].next, pages>> \in Span
           /\ \A e \in Devices : device'[e].ctx = device[e].ctx
                                 /\ device'[e].failed = device[e].failed
  <1>1. device \in [Devices -> DeviceType] /\ device[d].next \in Nat
        /\ device[d].next + pages \in Nat
    BY DEF IInv, TypeOK, DeviceType
  <1>2. device' = [device EXCEPT ![d].next = device[d].next + pages]  BY DEF Reserve
  <1>3. device' \in [Devices -> DeviceType]  BY <1>1, <1>2 DEF DeviceType
  <1>4. \A e \in Devices : device'[e].ctx = device[e].ctx /\ device'[e].failed = device[e].failed
    BY <1>1, <1>2 DEF DeviceType
  <1>5. <<device[d].next, pages>> \in Span  BY <1>1 DEF Span
  <1>6. reserved' \in [Devices -> Seq(Span)]
    <2>1. Append(reserved[d], <<device[d].next, pages>>) \in Seq(Span)
      BY <1>5 DEF IInv, TypeOK
    <2> QED  BY <2>1 DEF IInv, TypeOK, Reserve
  <1> QED  BY <1>3, <1>4, <1>5, <1>6

LEMMA ReserveKeeps ==
    ASSUME IInv, NEW d \in Devices, NEW pages \in Nat, Reserve(d, pages),
           UNCHANGED <<opens, jobs, lost>>
    PROVE  ContextsOwned' /\ JobsTracked' /\ LostStaysFailed'
  <1>1. \A e \in Devices : device'[e].ctx = device[e].ctx /\ device'[e].failed = device[e].failed
    BY ReserveTypes
  <1>2. ContextsOwned'  BY <1>1 DEF IInv, ContextsOwned
  <1>3. JobsTracked'  BY <1>1 DEF IInv, JobsTracked
  <1>4. LostStaysFailed'  BY <1>1 DEF IInv, LostStaysFailed
  <1> QED  BY <1>2, <1>3, <1>4

LEMMA FinishKeeps ==
    ASSUME IInv, FinishBuffer \/ FinishProgram
    PROVE  IInv'
  <1> USE DEF objectVars, At
  <1>1. call.dev \in Devices /\ call.pages \in Nat
    BY PagesNat DEF IInv, TypeOK, CallType, CallTracked, FinishBuffer, FinishProgram
  <1>2. /\ UNCHANGED <<files, opens, objs, maps, jobs, submits, written, lost>>
        /\ call' = NoCall /\ outcome' = "ok"
    BY DEF FinishBuffer, FinishProgram
  <1>3. call.got \in Seq(Nat) /\ Len(call.got) \in Nat  BY DEF IInv, TypeOK, CallType
  <1>4. CASE FinishBuffer
    <2>1. Len(call.got) >= 1
      <3>1. ~ (Len(call.got) < Need["buffer"])  BY <1>4 DEF FinishBuffer, Missing
      <3>2. Need["buffer"] = 1  BY DEF Need
      <3> QED  BY <1>3, <3>1, <3>2
    <2>2. call.got[1] \in Nat  BY <1>3, <2>1
    <2>3. Reserve(call.dev, call.pages)  BY <1>4 DEF FinishBuffer
    <2>4. buffer' \in [Buffers -> BufferType] /\ program' = program
      <3> DEFINE new == [dev |-> call.dev, handles |-> {call.got[1]},
                         span |-> <<device[call.dev].next, call.pages>>]
      <3>1. <<device[call.dev].next, call.pages>> \in Span  BY <1>1, <2>3, ReserveTypes
      <3>2. new \in BufferType  BY <1>1, <2>2, <3>1 DEF BufferType
      <3>3. buffer' = [buffer EXCEPT ![call.slot] = new] /\ program' = program
        BY <1>4 DEF FinishBuffer
      <3> HIDE DEF new
      <3> QED  BY <3>2, <3>3 DEF IInv, TypeOK
    <2>5. TypeOK'  BY <1>1, <1>2, <2>3, <2>4, ReserveTypes, NoCallType DEF IInv, TypeOK
    <2>6. ContextsOwned' /\ JobsTracked' /\ LostStaysFailed'
      BY <1>1, <1>2, <2>3, ReserveKeeps
    <2> QED  BY <1>2, <2>5, <2>6, EndKeeps
  <1>5. CASE FinishProgram
    <2>1. Len(call.got) >= 2
      <3>1. ~ (Len(call.got) < Need["program"])  BY <1>5 DEF FinishProgram, Missing
      <3>2. Need["program"] = 2  BY DEF Need
      <3> QED  BY <1>3, <3>1, <3>2
    <2>2. call.got[1] \in Nat /\ call.got[2] \in Nat  BY <1>3, <2>1
    <2>3. Reserve(call.dev, call.pages + 1) /\ call.pages + 1 \in Nat
      BY <1>1, <1>5 DEF FinishProgram
    <2>4. Nowhere \in Span  BY DEF Nowhere, Span
    <2>5. program' \in [Programs -> ProgramType] /\ buffer' = buffer
      <3> DEFINE new == [dev |-> call.dev, handles |-> {call.got[1], call.got[2]},
                         span |-> <<device[call.dev].next, call.pages + 1>>,
                         surface |-> Nowhere]
      <3>1. <<device[call.dev].next, call.pages + 1>> \in Span  BY <1>1, <2>3, ReserveTypes
      <3>2. new \in ProgramType  BY <1>1, <2>2, <2>4, <3>1 DEF ProgramType
      <3>3. program' = [program EXCEPT ![call.slot] = new] /\ buffer' = buffer
        BY <1>5 DEF FinishProgram
      <3> HIDE DEF new
      <3> QED  BY <3>2, <3>3 DEF IInv, TypeOK
    <2>6. TypeOK'  BY <1>1, <1>2, <2>3, <2>5, ReserveTypes, NoCallType DEF IInv, TypeOK
    <2>7. ContextsOwned' /\ JobsTracked' /\ LostStaysFailed'
      BY <1>1, <1>2, <2>3, ReserveKeeps
    <2> QED  BY <1>2, <2>6, <2>7, EndKeeps
  <1> QED  BY <1>4, <1>5

LEMMA WaitDoneKeeps ==
    ASSUME IInv, WaitDone
    PROVE  IInv'
  <1> USE DEF WaitDone, deviceVars, objectVars, ownerVars, resultVars, At
  <1>1. ContextsOwned' /\ JobsTracked' /\ LostStaysFailed'  BY FrameKeeps
  <1>2. call' \in CallType /\ call'.stage = "read" /\ call'.dev = call.dev
    BY DEF IInv, TypeOK, CallType
  <1>3. TypeOK'  BY <1>2 DEF IInv, TypeOK
  <1>4. \A j \in jobs : j.ctx # device[call.dev].ctx  BY DEF Running, Ctx
  <1>5. CallTracked'  BY <1>2, <1>4 DEF IInv, CallTracked, IsOpen, Early
  <1>6. CallShaped' /\ ResultsTracked'  BY <1>2 DEF IInv, CallShaped, ResultsTracked
  <1> QED  BY <1>1, <1>3, <1>5, <1>6 DEF IInv

LEMMA ReadDoneKeeps ==
    ASSUME IInv, ReadDone
    PROVE  IInv'
  <1> USE DEF ReadDone, ownerVars, At
  <1>1. /\ call.dev \in Devices /\ device[call.dev].ctx \notin lost
        /\ \A j \in jobs : j.ctx # device[call.dev].ctx
    BY DEF IInv, CallTracked, Early
  <1>2. /\ device' \in [Devices -> DeviceType]
        /\ \A d \in Devices : device'[d].ctx = device[d].ctx
                              /\ (d # call.dev => device'[d].failed = device[d].failed)
    BY <1>1 DEF IInv, TypeOK, DeviceType
  <1>3. /\ UNCHANGED <<opens, jobs, lost>> /\ call' = NoCall /\ outcome' = "ok"
        /\ written' \in BOOLEAN
    OBVIOUS
  <1>4. TypeOK'  BY <1>2, <1>3, ReleaseTypes, NoCallType DEF IInv, TypeOK
  <1> HIDE DEF ReadDone
  <1>5. ContextsOwned'  BY <1>2, <1>3 DEF IInv, ContextsOwned
  <1>6. JobsTracked'  BY <1>1, <1>2, <1>3 DEF IInv, JobsTracked
  <1>7. LostStaysFailed'  BY <1>1, <1>2, <1>3 DEF IInv, LostStaysFailed
  <1> QED  BY <1>3, <1>4, <1>5, <1>6, <1>7, EndKeeps

LEMMA DestroyKeeps ==
    ASSUME IInv, DestroyStep
    PROVE  IInv'
  <1> USE DEF DestroyStep, BufferDestroy, ProgramDestroy, Destroy, deviceVars, resultVars
  <1>1. ContextsOwned' /\ JobsTracked' /\ LostStaysFailed'  BY FrameKeeps
  <1>2. NoProgram \in ProgramType /\ NoBuffer \in BufferType
    BY DEF NoProgram, NoBuffer, Nowhere, Span, ProgramType, BufferType
  <1>3. program' \in [Programs -> ProgramType] /\ buffer' \in [Buffers -> BufferType]
    BY <1>2 DEF IInv, TypeOK
  <1>4. objs' \subseteq Nat \X Nat /\ maps' \subseteq Nat \X Nat  BY DEF IInv, TypeOK
  <1>5. UNCHANGED <<files, opens, device, call, jobs, submits, written, outcome, lost, reserved>>
    OBVIOUS
  <1> HIDE DEF DestroyStep
  <1>6. TypeOK'  BY <1>3, <1>4, <1>5 DEF IInv, TypeOK
  <1>7. CallTracked' /\ CallShaped' /\ ResultsTracked'
    BY <1>5 DEF IInv, CallTracked, CallShaped, ResultsTracked, Idle, IsOpen
  <1> QED  BY <1>1, <1>6, <1>7 DEF IInv

LEMMA JobEndsKeeps ==
    ASSUME IInv, JobEndsStep
    PROVE  IInv'
  <1> USE DEF JobEndsStep, JobEnds, deviceVars, objectVars, ownerVars, resultVars
  <1>1. /\ jobs' \subseteq jobs
        /\ UNCHANGED <<files, opens, device, objs, maps, program, buffer, call, submits,
                       written, outcome, lost, reserved>>
    OBVIOUS
  <1> HIDE DEF JobEndsStep
  <1>2. TypeOK'  BY <1>1 DEF IInv, TypeOK
  <1>3. ContextsOwned' /\ JobsTracked' /\ LostStaysFailed'
    BY <1>1 DEF IInv, ContextsOwned, JobsTracked, LostStaysFailed
  <1>4. CallTracked' /\ CallShaped' /\ ResultsTracked'
    BY <1>1 DEF IInv, CallTracked, CallShaped, ResultsTracked, Idle, IsOpen
  <1> QED  BY <1>2, <1>3, <1>4 DEF IInv

-----------------------------------------------------------------------------

LEMMA NextIInv == IInv /\ [Next]_vars => IInv'
  <1> SUFFICES ASSUME IInv, [Next]_vars PROVE IInv'  OBVIOUS
  <1>1. CASE OpenStep  BY <1>1, OpenKeeps DEF OpenStep
  <1>2. CASE CloseStep  BY <1>2, CloseKeeps DEF CloseStep
  <1>3. CASE BeginExecuteStep  BY <1>3, MakeKeeps DEF BeginExecuteStep, BeginExecute
  <1>4. CASE BeginBufferStep  BY <1>4, MakeKeeps DEF BeginBufferStep, BeginBuffer
  <1>5. CASE BeginProgramStep  BY <1>5, MakeKeeps DEF BeginProgramStep, BeginProgram
  <1>6. CASE BeginDispatchStep  BY <1>6, BeginDispatchKeeps DEF BeginDispatchStep
  <1>7. CASE GemCreate \/ GemMap \/ GemSetDomain
    BY <1>7, GemCreateKeeps, GemMapKeeps, GemSetDomainKeeps
  <1>8. CASE GemFails \/ SubmitFails  BY <1>8, EarlyFailureKeeps
  <1>9. CASE FinishBuffer \/ FinishProgram  BY <1>9, FinishKeeps
  <1>10. CASE PackExecute \/ PackDispatch  BY <1>10, PackKeeps
  <1>11. CASE Submit  BY <1>11, SubmitKeeps
  <1>12. CASE WaitDone  BY <1>12, WaitDoneKeeps
  <1>13. CASE WaitFails \/ ReadFails  BY <1>13, LateFailureKeeps
  <1>14. CASE ReadDone  BY <1>14, ReadDoneKeeps
  <1>15. CASE DestroyStep  BY <1>15, DestroyKeeps
  <1>16. CASE JobEndsStep  BY <1>16, JobEndsKeeps
  <1>17. CASE UNCHANGED vars
    <2> USE <1>17 DEF vars, deviceVars, objectVars, ownerVars, resultVars
    <2>1. ContextsOwned' /\ JobsTracked' /\ LostStaysFailed'  BY FrameKeeps
    <2>2. TypeOK'  BY DEF IInv, TypeOK
    <2>3. CallTracked' /\ CallShaped' /\ ResultsTracked'
      BY DEF IInv, CallTracked, CallShaped, ResultsTracked, Idle, IsOpen
    <2> QED  BY <2>1, <2>2, <2>3 DEF IInv
  <1> QED
    BY <1>1, <1>2, <1>3, <1>4, <1>5, <1>6, <1>7, <1>8, <1>9, <1>10, <1>11, <1>12, <1>13,
       <1>14, <1>15, <1>16, <1>17 DEF Next

LEMMA IInvHolds == Spec => []IInv
  BY InitIInv, NextIInv, PTL DEF Spec

(* The state of the package stays well formed, whatever the driver refuses. *)
THEOREM GpuTypes == Spec => []TypeOK
  <1>1. IInv => TypeOK  BY DEF IInv
  <1> QED  BY <1>1, IInvHolds, PTL

(* However calls fail and however long jobs run, two jobs of a context      *)
(* never share GPU addresses.                                               *)
THEOREM JobsNeverMeet == Spec => []JobsApart
  <1>1. IInv => JobsApart  BY DEF IInv, JobsTracked, JobsApart
  <1> QED  BY <1>1, IInvHolds, PTL

(* dispatch never rewrites a program while a job of its context runs. *)
THEOREM UploadsNeverRace == Spec => []UploadsSafe
  <1>1. IInv => UploadsSafe
    BY DEF IInv, JobsTracked, CallTracked, UploadsSafe, Running, Ctx, At, Early
  <1> QED  BY <1>1, IInvHolds, PTL

(* A device whose job was given up on serves nothing until it is closed. *)
THEOREM LostIsFinal == Spec => []LostStaysFailed
  <1>1. IInv => LostStaysFailed  BY DEF IInv
  <1> QED  BY <1>1, IInvHolds, PTL

(* Results are written by calls that succeed, and a device that is not      *)
(* failed has no job left.                                                  *)
THEOREM SuccessIsFinal == Spec => []SuccessMeansFinished
  <1>1. IInv => SuccessMeansFinished
    BY DEF IInv, ResultsTracked, JobsTracked, SuccessMeansFinished, Running
  <1> QED  BY <1>1, IInvHolds, PTL

-----------------------------------------------------------------------------
(* Addresses.  What a device has handed out lies between the first page and *)
(* the next one; buffers and surfaces are what was handed out.              *)

GivenIn(all, d, s) == \E i \in DOMAIN all[d] : all[d][i] = s

Given(d, s) == GivenIn(reserved, d, s)

SpansOrdered ==
    \A d \in Devices :
        /\ \A i \in DOMAIN reserved[d] : reserved[d][i][1] >= FirstPage
        /\ \A i, k \in DOMAIN reserved[d] : i # k => Apart(reserved[d][i], reserved[d][k])
        /\ IsOpen(d) => /\ device[d].next >= FirstPage
                        /\ \A i \in DOMAIN reserved[d] :
                              reserved[d][i][1] + reserved[d][i][2] =< device[d].next

OwnersGiven ==
    /\ \A p \in Programs : Owns(program[p]) =>
          /\ IsOpen(program[p].dev)
          /\ program[p].surface = Nowhere \/ Given(program[p].dev, program[p].surface)
    /\ \A b \in Buffers : Owns(buffer[b]) =>
          IsOpen(buffer[b].dev) /\ Given(buffer[b].dev, buffer[b].span)

DispatchOwned ==
    call.op = "dispatch" =>
        /\ call.slot \in Programs /\ program[call.slot].dev = call.dev
        /\ \A b \in call.bufs : buffer[b].dev = call.dev

AInv == SpansOrdered /\ OwnersGiven /\ DispatchOwned

LEMMA InitAInv == Init => AInv
  <1> SUFFICES ASSUME Init PROVE AInv  OBVIOUS
  <1>1. SpansOrdered
    <2>1. \A d \in Devices : reserved[d] = <<>> /\ device[d].ctx = 0  BY DEF Init, Closed
    <2>2. ASSUME NEW d \in Devices PROVE DOMAIN reserved[d] = {}
      <3>1. reserved[d] = <<>>  BY <2>1
      <3> QED  BY <3>1
    <2> QED  BY <2>1, <2>2 DEF SpansOrdered, IsOpen
  <1>2. OwnersGiven  BY DEF Init, OwnersGiven, Owns, NoProgram, NoBuffer
  <1>3. DispatchOwned  BY DEF Init, DispatchOwned, NoCall, Call
  <1> QED  BY <1>1, <1>2, <1>3 DEF AInv

(* Steps that neither reserve nor change an owner. *)
LEMMA AddressFrame ==
    ASSUME IInv, AInv, UNCHANGED <<reserved, program, buffer>>,
           \A d \in Devices : device'[d].ctx = device[d].ctx /\ device'[d].next = device[d].next,
           DispatchOwned'
    PROVE  AInv'
  <1>1. \A d \in Devices : IsOpen(d)' <=> IsOpen(d)  BY DEF IsOpen
  <1>2. SpansOrdered'  BY <1>1 DEF AInv, SpansOrdered
  <1>3. OwnersGiven'
    <2>1. \A p \in Programs : Owns(program[p]) => program[p].dev \in Devices
      BY DEF IInv, TypeOK, ProgramType, Owns
    <2>2. \A b \in Buffers : Owns(buffer[b]) => buffer[b].dev \in Devices
      BY DEF IInv, TypeOK, BufferType, Owns
    <2> QED  BY <1>1, <2>1, <2>2 DEF AInv, OwnersGiven, Owns, Given
  <1> QED  BY <1>2, <1>3 DEF AInv

(* A call that is not a dispatch, or goes on with what it began with. *)
LEMMA DispatchFrame ==
    ASSUME AInv, UNCHANGED <<program, buffer>>,
           \/ call'.op # "dispatch"
           \/ call'.op = call.op /\ call'.slot = call.slot /\ call'.dev = call.dev
              /\ call'.bufs = call.bufs
    PROVE  DispatchOwned'
  BY DEF AInv, DispatchOwned

LEMMA QuietAddresses ==
    ASSUME IInv, AInv,
           \/ BeginExecuteStep \/ BeginBufferStep \/ BeginProgramStep
           \/ GemCreate \/ GemMap \/ GemSetDomain \/ GemFails \/ PackExecute
           \/ SubmitFails \/ WaitDone \/ WaitFails \/ ReadFails \/ JobEndsStep
    PROVE  AInv'
  <1>1. UNCHANGED <<reserved, program, buffer, device>>
    BY DEF BeginExecuteStep, BeginBufferStep, BeginProgramStep, BeginExecute, BeginBuffer,
           BeginProgram, Make, Begin, GemCreate, GemMap, GemSetDomain, GemFails, PackExecute,
           SubmitFails, WaitDone, WaitFails, ReadFails, JobEndsStep, JobEnds, Fails,
           deviceVars, ownerVars
  <1>2. \/ call'.op # "dispatch"
        \/ call'.op = call.op /\ call'.slot = call.slot /\ call'.dev = call.dev
           /\ call'.bufs = call.bufs
    <2>1. call \in CallType  BY DEF IInv, TypeOK
    <2>2. CASE BeginExecuteStep \/ BeginBufferStep \/ BeginProgramStep
      <3>1. \E op \in {"execute", "buffer", "program"} : \E d, slot, pages : Make(op, d, slot, pages)
        BY <2>2 DEF BeginExecuteStep, BeginBufferStep, BeginProgramStep, BeginExecute,
                    BeginBuffer, BeginProgram
      <3>2. \A op, d, slot, pages : Make(op, d, slot, pages) => call'.op = op
        BY DEF Make, Begin, Call
      <3> QED  BY <3>1, <3>2
    <2>3. CASE GemFails \/ SubmitFails \/ WaitFails \/ ReadFails
      BY <2>3, NoCallType DEF GemFails, SubmitFails, WaitFails, ReadFails, Fails
    <2>4. CASE GemCreate  BY <2>1, <2>4 DEF GemCreate, CallType
    <2>5. CASE GemMap \/ PackExecute \/ WaitDone
      BY <2>1, <2>5 DEF GemMap, PackExecute, WaitDone, CallType
    <2>6. CASE GemSetDomain  BY <2>1, <2>6 DEF GemSetDomain, CallType
    <2>7. CASE JobEndsStep  BY <2>7 DEF JobEndsStep, JobEnds
    <2> QED  BY <2>2, <2>3, <2>4, <2>5, <2>6, <2>7
  <1>3. DispatchOwned'  BY <1>1, <1>2, DispatchFrame
  <1> QED  BY <1>1, <1>3, AddressFrame

LEMMA FlagAddresses ==
    ASSUME IInv, AInv, Submit \/ ReadDone
    PROVE  AInv'
  <1>1. UNCHANGED <<reserved, program, buffer>>  BY DEF Submit, ReadDone, ownerVars
  <1>2. \A d \in Devices : device'[d].ctx = device[d].ctx /\ device'[d].next = device[d].next
    <2>1. device \in [Devices -> DeviceType] /\ call.dev \in Devices
      BY DEF IInv, TypeOK, CallTracked, Submit, ReadDone, At
    <2>2. CASE device' = [device EXCEPT ![call.dev].failed = TRUE]  BY <2>1, <2>2 DEF DeviceType
    <2>3. CASE device' = [device EXCEPT ![call.dev].failed = FALSE]  BY <2>1, <2>3 DEF DeviceType
    <2> QED  BY <2>2, <2>3 DEF Submit, ReadDone
  <1>3. \/ call'.op # "dispatch"
        \/ call'.op = call.op /\ call'.slot = call.slot /\ call'.dev = call.dev
           /\ call'.bufs = call.bufs
    <2>1. CASE Submit  BY <2>1 DEF Submit, IInv, TypeOK, CallType
    <2>2. CASE ReadDone  BY <2>2, NoCallType DEF ReadDone
    <2> QED  BY <2>1, <2>2
  <1>4. DispatchOwned'  BY <1>1, <1>3, DispatchFrame
  <1> QED  BY <1>1, <1>2, <1>4, AddressFrame

LEMMA BeginDispatchAddresses ==
    ASSUME IInv, AInv, NEW p \in Programs, NEW bufs \in SUBSET Buffers, BeginDispatch(p, bufs)
    PROVE  AInv'
  <1>1. UNCHANGED <<reserved, program, buffer, device>>
    BY DEF BeginDispatch, Begin, deviceVars, ownerVars
  <1>2. call' = Call("dispatch", program[p].dev, "upload", p, 0, bufs)
    BY DEF BeginDispatch, Begin
  <1>3. DispatchOwned'  BY <1>1, <1>2 DEF DispatchOwned, Call, BeginDispatch
  <1> QED  BY <1>1, <1>3, AddressFrame

(* An owner belongs to a device that is open, so to another than the one    *)
(* that is being opened.                                                    *)
LEMMA OpenAddresses ==
    ASSUME IInv, AInv, NEW d \in Devices, Open(d)
    PROVE  AInv'
  <1> USE DEF Open, ownerVars
  <1>1. UNCHANGED <<program, buffer, call>> /\ ~ IsOpen(d)  OBVIOUS
  <1>2. /\ reserved'[d] = <<>> /\ device'[d].next = FirstPage
        /\ \A e \in Devices : e # d => reserved'[e] = reserved[e] /\ device'[e] = device[e]
    BY DEF IInv, TypeOK
  <1> HIDE DEF Open
  <1>3. DOMAIN reserved'[d] = {}  BY <1>2
  <1>4. FirstPage >= FirstPage  BY GpuAssumption
  <1>5. SpansOrdered'
    <2> SUFFICES ASSUME NEW e \in Devices
                 PROVE  /\ \A i \in DOMAIN reserved'[e] : reserved'[e][i][1] >= FirstPage
                        /\ \A i, k \in DOMAIN reserved'[e] :
                              i # k => Apart(reserved'[e][i], reserved'[e][k])
                        /\ IsOpen(e)' =>
                              /\ device'[e].next >= FirstPage
                              /\ \A i \in DOMAIN reserved'[e] :
                                    reserved'[e][i][1] + reserved'[e][i][2] =< device'[e].next
      BY DEF SpansOrdered, Apart
    <2>1. CASE e = d  BY <1>2, <1>3, <1>4, <2>1
    <2>2. CASE e # d  BY <1>2, <2>2 DEF AInv, SpansOrdered, IsOpen
    <2> QED  BY <2>1, <2>2
  <1>6. OwnersGiven'
    <2>1. \A p \in Programs : Owns(program[p]) => program[p].dev \in Devices \ {d}
      BY <1>1 DEF IInv, TypeOK, ProgramType, Owns, AInv, OwnersGiven
    <2>2. \A b \in Buffers : Owns(buffer[b]) => buffer[b].dev \in Devices \ {d}
      BY <1>1 DEF IInv, TypeOK, BufferType, Owns, AInv, OwnersGiven
    <2>3. \A e \in Devices \ {d} : \A s : GivenIn(reserved, e, s) => GivenIn(reserved', e, s)
      BY <1>2 DEF GivenIn
    <2>4. \A e \in Devices \ {d} : device'[e].ctx = device[e].ctx  BY <1>2
    <2>5. \A p \in Programs : Owns(program[p]) =>
             /\ device'[program[p].dev].ctx # 0
             /\ \/ program[p].surface = Nowhere
                \/ GivenIn(reserved', program[p].dev, program[p].surface)
      BY <2>1, <2>3, <2>4 DEF AInv, OwnersGiven, Given, IsOpen
    <2>6. \A b \in Buffers : Owns(buffer[b]) =>
             device'[buffer[b].dev].ctx # 0 /\ GivenIn(reserved', buffer[b].dev, buffer[b].span)
      BY <2>2, <2>3, <2>4 DEF AInv, OwnersGiven, Given, IsOpen
    <2> QED  BY <1>1, <2>5, <2>6 DEF OwnersGiven, Given, IsOpen, Owns
  <1>7. DispatchOwned'  BY <1>1 DEF AInv, DispatchOwned
  <1> QED  BY <1>5, <1>6, <1>7 DEF AInv

LEMMA CloseAddresses ==
    ASSUME IInv, AInv, NEW d \in Devices, Close(d)
    PROVE  AInv'
  <1> USE DEF Close, ownerVars
  <1>1. UNCHANGED <<program, buffer, call, reserved>>  OBVIOUS
  <1>2. ~ IsOpen(d)' /\ \A e \in Devices : e # d => device'[e] = device[e]
    BY DEF IInv, TypeOK, IsOpen, Closed
  <1>3. SpansOrdered'  BY <1>1, <1>2 DEF AInv, SpansOrdered, IsOpen
  <1>4. OwnersGiven'
    <2>1. \A p \in Programs : Owns(program[p]) => program[p].dev \in Devices \ {d}
      BY DEF IInv, TypeOK, ProgramType, Owns, InUse
    <2>2. \A b \in Buffers : Owns(buffer[b]) => buffer[b].dev \in Devices \ {d}
      BY DEF IInv, TypeOK, BufferType, Owns, InUse
    <2> HIDE DEF Close
    <2> QED  BY <1>1, <1>2, <2>1, <2>2 DEF AInv, OwnersGiven, Owns, Given, IsOpen
  <1>5. DispatchOwned'  BY <1>1 DEF AInv, DispatchOwned
  <1> QED  BY <1>3, <1>4, <1>5 DEF AInv

LEMMA DestroyAddresses ==
    ASSUME IInv, AInv, DestroyStep
    PROVE  AInv'
  <1> USE DEF DestroyStep, BufferDestroy, ProgramDestroy, deviceVars
  <1>1. UNCHANGED <<device, call, reserved>> /\ Idle  OBVIOUS
  <1>2. \A p \in Programs : program'[p] \in {program[p], NoProgram}  BY DEF IInv, TypeOK
  <1>3. \A b \in Buffers : buffer'[b] \in {buffer[b], NoBuffer}  BY DEF IInv, TypeOK
  <1> HIDE DEF DestroyStep
  <1>4. ~ Owns(NoProgram) /\ ~ Owns(NoBuffer)  BY DEF Owns, NoProgram, NoBuffer
  <1>5. SpansOrdered'  BY <1>1 DEF AInv, SpansOrdered, IsOpen
  <1>6. OwnersGiven'  BY <1>1, <1>2, <1>3, <1>4 DEF AInv, OwnersGiven, Owns, Given, IsOpen
  <1>7. DispatchOwned'  BY <1>1 DEF DispatchOwned, Idle
  <1> QED  BY <1>5, <1>6, <1>7 DEF AInv

(* The surface follows a buffer of the same device. *)
LEMMA PackDispatchAddresses ==
    ASSUME IInv, AInv, PackDispatch
    PROVE  AInv'
  <1> USE DEF PackDispatch, deviceVars
  <1>1. UNCHANGED <<device, buffer, reserved>>  OBVIOUS
  <1>2. /\ call'.op = call.op /\ call'.slot = call.slot /\ call'.dev = call.dev
        /\ call'.bufs = call.bufs
    BY DEF IInv, TypeOK, CallType
  <1>3. \A p \in Programs :
            /\ program'[p].dev = program[p].dev
            /\ \/ program'[p].surface = program[p].surface
               \/ /\ call.op = "dispatch" /\ p = call.slot
                  /\ \E b \in call.bufs : program'[p].surface = buffer[b].span
    <2>1. program \in [Programs -> ProgramType]  BY DEF IInv, TypeOK
    <2>2. call.op = "dispatch" /\ ~ Idle  BY DEF IInv, CallShaped, At
    <2>3. CASE program' = program  BY <2>3
    <2>4. ASSUME NEW b \in call.bufs,
                 program' = [program EXCEPT ![call.slot].surface = buffer[b].span]
          PROVE  \A p \in Programs :
                    /\ program'[p].dev = program[p].dev
                    /\ \/ program'[p].surface = program[p].surface
                       \/ p = call.slot /\ program'[p].surface = buffer[b].span
      <3> DEFINE x == buffer[b].span
      <3>1. program' = [program EXCEPT ![call.slot] = [program[call.slot] EXCEPT !.surface = x]]
        BY <2>4
      <3> HIDE DEF x, PackDispatch
      <3>2. \A v \in ProgramType : LET w == [v EXCEPT !.surface = x]
                                   IN  w.dev = v.dev /\ w.surface = x
        BY DEF ProgramType
      <3>3. \A p \in Programs : program'[p] = program[p]
                \/ (p = call.slot /\ program'[p] = [program[p] EXCEPT !.surface = x])
        BY <2>1, <3>1
      <3>4. \A p \in Programs : /\ program'[p].dev = program[p].dev
                                /\ \/ program'[p].surface = program[p].surface
                                   \/ p = call.slot /\ program'[p].surface = x
        <4> SUFFICES ASSUME NEW p \in Programs
                     PROVE  /\ program'[p].dev = program[p].dev
                            /\ \/ program'[p].surface = program[p].surface
                               \/ p = call.slot /\ program'[p].surface = x
          OBVIOUS
        <4>1. program[p] \in ProgramType  BY <2>1
        <4>2. CASE program'[p] = program[p]  BY <4>2
        <4>3. CASE p = call.slot /\ program'[p] = [program[p] EXCEPT !.surface = x]
          BY <3>2, <4>1, <4>3
        <4> QED  BY <3>3, <4>2, <4>3
      <3> QED  BY <3>4 DEF x
    <2> QED  BY <2>2, <2>3, <2>4
  <1>4. call.bufs \subseteq Buffers  BY DEF IInv, TypeOK, CallType
  <1>5. \A p \in Programs : Owns(program[p]) => program[p].dev \in Devices
    BY DEF IInv, TypeOK, ProgramType, Owns
  <1> HIDE DEF PackDispatch
  <1>6. SpansOrdered'  BY <1>1 DEF AInv, SpansOrdered, IsOpen
  <1>7. OwnersGiven'
    <2>1. \A b \in Buffers : Owns(buffer[b]) =>
             IsOpen(buffer[b].dev) /\ GivenIn(reserved, buffer[b].dev, buffer[b].span)
      BY DEF AInv, OwnersGiven, Given
    <2>2. ASSUME NEW p \in Programs, program'[p].dev # "none"
          PROVE  /\ device[program'[p].dev].ctx # 0
                 /\ \/ program'[p].surface = Nowhere
                    \/ GivenIn(reserved, program'[p].dev, program'[p].surface)
      <3>1. program'[p].dev = program[p].dev /\ Owns(program[p])  BY <1>3, <2>2 DEF Owns
      <3>2. device[program'[p].dev].ctx # 0  BY <3>1 DEF AInv, OwnersGiven, IsOpen
      <3>3. CASE program'[p].surface = program[p].surface
        BY <3>1, <3>2, <3>3 DEF AInv, OwnersGiven, Given
      <3>4. CASE /\ call.op = "dispatch" /\ p = call.slot
                 /\ \E b \in call.bufs : program'[p].surface = buffer[b].span
        <4>1. PICK b \in call.bufs : program'[p].surface = buffer[b].span  BY <3>4
        <4>2. buffer[b].dev = program[p].dev  BY <3>4 DEF AInv, DispatchOwned
        <4>3. b \in Buffers /\ Owns(buffer[b])  BY <1>4, <3>1, <4>2 DEF Owns
        <4> QED  BY <2>1, <3>1, <3>2, <4>1, <4>2, <4>3
      <3> QED  BY <1>3, <3>3, <3>4
    <2> QED  BY <1>1, <2>1, <2>2 DEF OwnersGiven, Given, IsOpen, Owns
  <1>8. DispatchOwned'  BY <1>1, <1>2, <1>3 DEF AInv, DispatchOwned
  <1> QED  BY <1>6, <1>7, <1>8 DEF AInv

(* A reservation starts where the last one ended. *)
LEMMA ReserveAddresses ==
    ASSUME IInv, AInv, NEW d \in Devices, IsOpen(d), NEW pages \in Nat, Reserve(d, pages)
    PROVE  /\ SpansOrdered'
           /\ GivenIn(reserved', d, <<device[d].next, pages>>)
           /\ \A e \in Devices : \A s : GivenIn(reserved, e, s) => GivenIn(reserved', e, s)
           /\ \A e \in Devices : device[e].ctx # 0 => device'[e].ctx # 0
  <1> DEFINE old == reserved[d]
             n == Len(old)
             next == device[d].next
             new == <<next, pages>>
  <1>1. next \in Nat /\ old \in Seq(Span) /\ n \in Nat /\ DOMAIN old = 1 .. n
    BY DEF IInv, TypeOK, DeviceType
  <1>2. new \in Span  BY <1>1 DEF Span
  <1>3. /\ reserved'[d] = Append(old, new)
        /\ \A e \in Devices : e # d => reserved'[e] = reserved[e]
    BY DEF IInv, TypeOK, Reserve
  <1>4. /\ device'[d].next = next + pages
        /\ \A e \in Devices : e # d => device'[e] = device[e]
    BY DEF IInv, TypeOK, DeviceType, Reserve
  <1>5. \A e \in Devices : device'[e].ctx = device[e].ctx  BY ReserveTypes
  <1>6. /\ DOMAIN Append(old, new) = 1 .. n + 1 /\ Append(old, new)[n + 1] = new
        /\ \A i \in 1 .. n : Append(old, new)[i] = old[i]
    BY <1>1, <1>2
  <1>7. /\ next >= FirstPage
        /\ \A i \in 1 .. n : old[i][1] >= FirstPage /\ old[i][1] + old[i][2] =< next
        /\ \A i, k \in 1 .. n : i # k => Apart(old[i], old[k])
    BY <1>1 DEF AInv, SpansOrdered
  <1>8. \A i \in 1 .. n : old[i][1] \in Nat /\ old[i][2] \in Nat
    <2>1. \A i \in 1 .. n : old[i] \in Span  BY <1>1
    <2> QED  BY <2>1 DEF Span
  <1>9. new[1] = next /\ new[2] = pages  OBVIOUS
  <1> HIDE DEF old, n, next, new
  <1>10. \A i \in 1 .. n + 1 : i \in 1 .. n \/ i = n + 1  BY <1>1
  <1>11. SpansOrdered'
    <2> SUFFICES ASSUME NEW e \in Devices
                 PROVE  /\ \A i \in DOMAIN reserved'[e] : reserved'[e][i][1] >= FirstPage
                        /\ \A i, k \in DOMAIN reserved'[e] :
                              i # k => Apart(reserved'[e][i], reserved'[e][k])
                        /\ IsOpen(e)' =>
                              /\ device'[e].next >= FirstPage
                              /\ \A i \in DOMAIN reserved'[e] :
                                    reserved'[e][i][1] + reserved'[e][i][2] =< device'[e].next
      BY DEF SpansOrdered, Apart
    <2>1. CASE e # d  BY <1>3, <1>4, <2>1 DEF AInv, SpansOrdered, IsOpen
    <2>2. CASE e = d
      <3> DEFINE all == Append(old, new)
      <3>1. FirstPage \in Nat  BY GpuAssumption
      <3>2. DOMAIN all = 1 .. n + 1 /\ all[n + 1] = new /\ \A i \in 1 .. n : all[i] = old[i]
        BY <1>6
      <3>3. reserved'[e] = all  BY <1>3, <2>2
      <3> HIDE DEF all
      <3>4. \A i \in 1 .. n + 1 : all[i][1] >= FirstPage  BY <1>7, <1>9, <1>10, <3>2
      <3>5. \A i, k \in 1 .. n + 1 : i # k => Apart(all[i], all[k])
        <4>1. \A i \in 1 .. n : Apart(old[i], new) /\ Apart(new, old[i])
          BY <1>7, <1>9 DEF Apart
        <4> QED  BY <1>7, <1>10, <3>2, <4>1
      <3>6. device'[e].next >= FirstPage  BY <1>1, <1>4, <1>7, <2>2, <3>1
      <3>7. \A i \in 1 .. n + 1 : all[i][1] + all[i][2] =< next + pages
        <4>1. \A i \in 1 .. n : old[i][1] + old[i][2] =< next + pages
          BY <1>1, <1>7, <1>8
        <4>2. new[1] + new[2] =< next + pages  BY <1>1, <1>9
        <4> QED  BY <1>10, <3>2, <4>1, <4>2
      <3>8. \A i \in DOMAIN reserved'[e] :
                reserved'[e][i][1] + reserved'[e][i][2] =< device'[e].next
        BY <1>4, <2>2, <3>2, <3>3, <3>7
      <3> QED  BY <3>2, <3>3, <3>4, <3>5, <3>6, <3>8
    <2> QED  BY <2>1, <2>2
  <1>12. GivenIn(reserved', d, new)
    <2>1. n + 1 \in 1 .. n + 1  BY <1>1
    <2> QED  BY <1>3, <1>6, <2>1 DEF GivenIn
  <1>13. ASSUME NEW e \in Devices, NEW s, GivenIn(reserved, e, s)
         PROVE  GivenIn(reserved', e, s)
    <2>1. CASE e # d  BY <1>3, <1>13, <2>1 DEF GivenIn
    <2>2. CASE e = d
      <3>1. PICK i \in 1 .. n : old[i] = s  BY <1>1, <1>13, <2>2 DEF GivenIn, old
      <3>2. i \in 1 .. n + 1 /\ Append(old, new)[i] = s  BY <1>1, <1>6, <3>1
      <3> QED  BY <1>3, <1>6, <2>2, <3>2 DEF GivenIn
    <2> QED  BY <2>1, <2>2
  <1>14. \A e \in Devices : device[e].ctx # 0 => device'[e].ctx # 0  BY <1>5 DEF IsOpen
  <1> QED  BY <1>11, <1>12, <1>13, <1>14 DEF new, next

LEMMA FinishAddresses ==
    ASSUME IInv, AInv, FinishBuffer \/ FinishProgram
    PROVE  AInv'
  <1>1. call.dev \in Devices /\ IsOpen(call.dev) /\ call.pages \in Nat /\ call.pages + 1 \in Nat
    <2>1. ~ Idle  BY DEF FinishBuffer, FinishProgram, At
    <2>2. call.pages \in Nat  BY PagesNat DEF IInv, TypeOK, CallType
    <2> QED  BY <2>1, <2>2 DEF IInv, CallTracked
  <1>2. call' = NoCall  BY DEF FinishBuffer, FinishProgram
  <1>3. DispatchOwned'  BY <1>2, NoCallType DEF DispatchOwned
  <1>4. \A p \in Programs : Owns(program[p]) => program[p].dev \in Devices
    BY DEF IInv, TypeOK, ProgramType, Owns
  <1>5. \A b \in Buffers : Owns(buffer[b]) => buffer[b].dev \in Devices
    BY DEF IInv, TypeOK, BufferType, Owns
  <1>6. CASE FinishBuffer
    <2> DEFINE span == <<device[call.dev].next, call.pages>>
    <2>1. Reserve(call.dev, call.pages) /\ program' = program  BY <1>6 DEF FinishBuffer
    <2>2. /\ SpansOrdered'
          /\ GivenIn(reserved', call.dev, span)
          /\ \A e \in Devices : \A s : GivenIn(reserved, e, s) => GivenIn(reserved', e, s)
          /\ \A e \in Devices : device[e].ctx # 0 => device'[e].ctx # 0
      BY <1>1, <2>1, ReserveAddresses
    <2>3. \A b \in Buffers : buffer'[b] = buffer[b]
                             \/ (buffer'[b].dev = call.dev /\ buffer'[b].span = span)
      <3> DEFINE new == [dev |-> call.dev, handles |-> {call.got[1]}, span |-> span]
      <3>1. buffer' = [buffer EXCEPT ![call.slot] = new]  BY <1>6 DEF FinishBuffer
      <3>2. new.dev = call.dev /\ new.span = span  OBVIOUS
      <3>3. buffer \in [Buffers -> BufferType]  BY DEF IInv, TypeOK
      <3> HIDE DEF new
      <3>4. \A b \in Buffers : buffer'[b] \in {buffer[b], new}  BY <3>1, <3>3
      <3> QED  BY <3>2, <3>4
    <2> HIDE DEF span
    <2>4. ASSUME NEW b \in Buffers, Owns(buffer[b])'
          PROVE  IsOpen(buffer[b].dev)' /\ Given(buffer[b].dev, buffer[b].span)'
      <3>1. CASE buffer'[b] = buffer[b]
        BY <1>5, <2>2, <2>4, <3>1 DEF AInv, OwnersGiven, Owns, IsOpen, Given
      <3>2. CASE buffer'[b].dev = call.dev /\ buffer'[b].span = span
        BY <1>1, <2>2, <3>2 DEF IsOpen, Given
      <3> QED  BY <2>3, <3>1, <3>2
    <2>5. ASSUME NEW p \in Programs, Owns(program[p])'
          PROVE  /\ IsOpen(program[p].dev)'
                 /\ program'[p].surface = Nowhere \/ Given(program[p].dev, program[p].surface)'
      BY <1>4, <2>1, <2>2, <2>5 DEF AInv, OwnersGiven, Owns, IsOpen, Given
    <2>6. OwnersGiven'  BY <2>4, <2>5 DEF OwnersGiven
    <2> QED  BY <1>3, <2>2, <2>6 DEF AInv
  <1>7. CASE FinishProgram
    <2>1. Reserve(call.dev, call.pages + 1) /\ buffer' = buffer  BY <1>7 DEF FinishProgram
    <2>2. /\ SpansOrdered'
          /\ \A e \in Devices : \A s : GivenIn(reserved, e, s) => GivenIn(reserved', e, s)
          /\ \A e \in Devices : device[e].ctx # 0 => device'[e].ctx # 0
      BY <1>1, <2>1, ReserveAddresses
    <2>3. \A p \in Programs : program'[p] = program[p]
                              \/ (program'[p].dev = call.dev /\ program'[p].surface = Nowhere)
      <3> DEFINE new == [dev |-> call.dev, handles |-> {call.got[1], call.got[2]},
                         span |-> <<device[call.dev].next, call.pages + 1>>,
                         surface |-> Nowhere]
      <3>1. program' = [program EXCEPT ![call.slot] = new]  BY <1>7 DEF FinishProgram
      <3>2. new.dev = call.dev /\ new.surface = Nowhere  OBVIOUS
      <3>3. program \in [Programs -> ProgramType]  BY DEF IInv, TypeOK
      <3> HIDE DEF new
      <3>4. \A p \in Programs : program'[p] \in {program[p], new}  BY <3>1, <3>3
      <3> QED  BY <3>2, <3>4
    <2>4. ASSUME NEW b \in Buffers, Owns(buffer[b])'
          PROVE  IsOpen(buffer[b].dev)' /\ Given(buffer[b].dev, buffer[b].span)'
      BY <1>5, <2>1, <2>2, <2>4 DEF AInv, OwnersGiven, Owns, IsOpen, Given
    <2>5. ASSUME NEW p \in Programs, Owns(program[p])'
          PROVE  /\ IsOpen(program[p].dev)'
                 /\ program'[p].surface = Nowhere \/ Given(program[p].dev, program[p].surface)'
      <3>1. CASE program'[p] = program[p]
        BY <1>4, <2>2, <2>5, <3>1 DEF AInv, OwnersGiven, Owns, IsOpen, Given
      <3>2. CASE program'[p].dev = call.dev /\ program'[p].surface = Nowhere
        BY <1>1, <2>2, <3>2 DEF IsOpen
      <3> QED  BY <2>3, <3>1, <3>2
    <2>6. OwnersGiven'  BY <2>4, <2>5 DEF OwnersGiven, Nowhere
    <2> QED  BY <1>3, <2>2, <2>6 DEF AInv
  <1> QED  BY <1>6, <1>7

LEMMA NextAInv == IInv /\ AInv /\ [Next]_vars => AInv'
  <1> SUFFICES ASSUME IInv, AInv, [Next]_vars PROVE AInv'  OBVIOUS
  <1>1. CASE OpenStep  BY <1>1, OpenAddresses DEF OpenStep
  <1>2. CASE CloseStep  BY <1>2, CloseAddresses DEF CloseStep
  <1>3. CASE BeginDispatchStep  BY <1>3, BeginDispatchAddresses DEF BeginDispatchStep
  <1>4. CASE FinishBuffer \/ FinishProgram  BY <1>4, FinishAddresses
  <1>5. CASE PackDispatch  BY <1>5, PackDispatchAddresses
  <1>6. CASE Submit \/ ReadDone  BY <1>6, FlagAddresses
  <1>7. CASE DestroyStep  BY <1>7, DestroyAddresses
  <1>8. CASE \/ BeginExecuteStep \/ BeginBufferStep \/ BeginProgramStep
             \/ GemCreate \/ GemMap \/ GemSetDomain \/ GemFails \/ PackExecute
             \/ SubmitFails \/ WaitDone \/ WaitFails \/ ReadFails \/ JobEndsStep
    BY <1>8, QuietAddresses
  <1>9. CASE UNCHANGED vars
    <2>1. UNCHANGED <<reserved, program, buffer, device, call>>
      BY <1>9 DEF vars, deviceVars, ownerVars
    <2>2. DispatchOwned'  BY <2>1 DEF AInv, DispatchOwned
    <2> QED  BY <2>1, <2>2, AddressFrame
  <1> QED  BY <1>1, <1>2, <1>3, <1>4, <1>5, <1>6, <1>7, <1>8, <1>9 DEF Next

LEMMA AddressesFollow == IInv /\ AInv => AddressesFresh
  <1> SUFFICES ASSUME IInv, AInv, NEW d \in Devices
               PROVE  /\ \A i, k \in DOMAIN reserved[d] :
                            i # k => Apart(reserved[d][i], reserved[d][k])
                      /\ \A i \in DOMAIN reserved[d], n \in Sizes :
                            Apart(reserved[d][i], <<OneShot, n + 2>>)
                      /\ SurfacesNameTheirs(d)
    BY DEF AddressesFresh
  <1>1. \A i, k \in DOMAIN reserved[d] : i # k => Apart(reserved[d][i], reserved[d][k])
    BY DEF AInv, SpansOrdered
  <1>2. \A i \in DOMAIN reserved[d] : /\ reserved[d][i][1] \in Nat /\ reserved[d][i][2] \in Nat
                                      /\ reserved[d][i][1] >= FirstPage
    <2>1. \A i \in DOMAIN reserved[d] : reserved[d][i] \in Span  BY DEF IInv, TypeOK
    <2> QED  BY <2>1 DEF Span, AInv, SpansOrdered
  <1>3. ASSUME NEW i \in DOMAIN reserved[d], NEW n \in Sizes
        PROVE  Apart(reserved[d][i], <<OneShot, n + 2>>)
    <2>1. n \in Nat /\ OneShot \in Nat /\ FirstPage \in Nat /\ OneShot + n + 2 =< FirstPage
      BY GpuAssumption
    <2>2. OneShot + (n + 2) =< reserved[d][i][1]  BY <1>2, <2>1
    <2> QED  BY <2>2 DEF Apart
  <1>4. ASSUME NEW p \in Programs, NEW b \in Buffers, program[p].dev = d, buffer[b].dev = d
        PROVE  program[p].surface = buffer[b].span
               \/ Apart(program[p].surface, buffer[b].span)
    <2>1. Owns(program[p]) /\ Owns(buffer[b])  BY <1>4, GpuAssumption DEF Owns
    <2>2. PICK k \in DOMAIN reserved[d] : reserved[d][k] = buffer[b].span
      BY <1>4, <2>1 DEF AInv, OwnersGiven, Given, GivenIn
    <2>3. CASE program[p].surface = Nowhere
      <3>1. Nowhere[1] = 0 /\ Nowhere[2] = 0  BY DEF Nowhere
      <3>2. Apart(Nowhere, buffer[b].span)  BY <1>2, <2>2, <3>1 DEF Apart
      <3> QED  BY <2>3, <3>2
    <2>4. CASE Given(d, program[p].surface)  BY <1>1, <2>2, <2>4 DEF Given, GivenIn
    <2> QED  BY <1>4, <2>1, <2>3, <2>4 DEF AInv, OwnersGiven
  <1> QED  BY <1>1, <1>3, <1>4 DEF SurfacesNameTheirs

(* No address of a device is ever handed out twice, and a surface left from *)
(* an earlier dispatch never lies in a buffer made since.                   *)
THEOREM AddressesNeverReused == Spec => []AddressesFresh
  BY InitAInv, NextAInv, AddressesFollow, IInvHolds, PTL DEF Spec
=============================================================================
