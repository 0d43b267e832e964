---------------------------- MODULE GpuDispatch -----------------------------
(***************************************************************************)
(* gpu-dispatch/gpu: a process that runs kernels on the GPU through the    *)
(* i915 driver.  A device is a descriptor and a context; programs and      *)
(* buffers are uploaded once and used by dispatch, execute makes its       *)
(* objects for one call.  Three parties move: the caller's running call,   *)
(* the driver, which may refuse any request, and the GPU, which finishes a *)
(* job whenever it likes, long after the wait for it has timed out.        *)
(*                                                                         *)
(* The driver is external: a descriptor is the lowest free number, so is   *)
(* a GEM handle of a descriptor, closing a descriptor drops its objects,   *)
(* and a job keeps running whatever the process closes.  Addresses count   *)
(* pages.  Calls refused by validation, or because the device has failed,  *)
(* change nothing and are not steps.                                       *)
(*                                                                         *)
(* Callers keep the rules of the README: handles are not overwritten while *)
(* they own something, and are destroyed before their device is closed.    *)
(***************************************************************************)
EXTENDS Integers, Sequences

CONSTANTS Devices,      \* the caller's Device variables
          Programs,     \* its Program variables
          Buffers,      \* its Buffer variables
          Sizes,        \* pages of a buffer, or of the state of a kernel
          OneShot,      \* first page of execute's objects, 0x100000
          FirstPage,    \* first page of reserve_address, 0x1_0010_0000
          MaxPage,      \* bound: pages of the address space
          MaxHandles,   \* bound: GEM objects of a descriptor
          MaxOpens,     \* bound: calls of open
          MaxSubmits,   \* bound: jobs
          RepeatClose   \* whether callers close a closed device

ASSUME GpuAssumption ==
    /\ Sizes \subseteq Nat \ {0} /\ OneShot \in Nat /\ FirstPage \in Nat
    /\ \A n \in Sizes : OneShot + n + 2 =< FirstPage
    /\ MaxPage \in Nat /\ MaxHandles \in Nat /\ MaxOpens \in Nat /\ MaxSubmits \in Nat
    /\ RepeatClose \in BOOLEAN
    /\ "none" \notin Devices

VARIABLES files,     \* descriptors open in the process; 0 is not ours
          objs,      \* GEM handles that exist, <<descriptor, handle>>
          maps,      \* the ones mapped into the process
          device,    \* Device of each variable
          program,   \* Program of each variable
          buffer,    \* Buffer of each variable
          call,      \* the API call that is running
          jobs,      \* the jobs the GPU is running
          opens,     \* contexts made so far; ids are not reused
          submits,   \* jobs submitted so far
          written,   \* whether the last execute wrote the caller's results
          outcome,   \* how the last call ended
          lost,      \* history: contexts with a job given up on
          reserved   \* history: spans reserved on each device since its open

deviceVars == <<files, device, opens>>
objectVars == <<objs, maps>>
ownerVars == <<program, buffer>>
resultVars == <<written, outcome>>
vars == <<deviceVars, objectVars, ownerVars, call, jobs, submits, resultVars, lost, reserved>>

Closed == [fd |-> 0, ctx |-> 0, failed |-> FALSE, next |-> 0]

Nowhere == <<0, 0>>

NoProgram == [dev |-> "none", handles |-> {}, span |-> Nowhere, surface |-> Nowhere]

NoBuffer == [dev |-> "none", handles |-> {}, span |-> Nowhere]

(* A call; `got' are the objects it has made, `cur' is the one it is making. *)
Call(op, d, stage, slot, pages, bufs) ==
    [op |-> op, dev |-> d, stage |-> stage, slot |-> slot, pages |-> pages, bufs |-> bufs,
     got |-> <<>>, cur |-> 0]

NoCall == Call("none", "none", "none", "none", 0, {})

Idle == call.op = "none"

IsOpen(d) == device[d].ctx # 0

Owns(v) == v.dev # "none"

Init ==
    /\ files = {0} /\ objs = {} /\ maps = {}
    /\ device = [d \in Devices |-> Closed]
    /\ program = [p \in Programs |-> NoProgram]
    /\ buffer = [b \in Buffers |-> NoBuffer]
    /\ call = NoCall /\ jobs = {} /\ opens = 0 /\ submits = 0
    /\ written = FALSE /\ outcome = "none" /\ lost = {}
    /\ reserved = [d \in Devices |-> <<>>]

-----------------------------------------------------------------------------
(* Devices. *)

Lowest(n, from, used) == n \notin used /\ from .. n - 1 \subseteq used

(* open: every failure closes the descriptor again. *)
Open(d) ==
    /\ Idle /\ ~ IsOpen(d) /\ opens < MaxOpens
    /\ \E fd \in 0 .. MaxOpens :
          /\ Lowest(fd, 0, files)
          /\ files' = files \cup {fd}
          /\ device' = [device EXCEPT ![d] = [fd |-> fd, ctx |-> opens + 1,
                                              failed |-> FALSE, next |-> FirstPage]]
    /\ opens' = opens + 1
    /\ reserved' = [reserved EXCEPT ![d] = <<>>]
    /\ UNCHANGED <<objectVars, ownerVars, call, jobs, submits, resultVars, lost>>

InUse(d) ==
    \/ \E p \in Programs : program[p].dev = d
    \/ \E b \in Buffers : buffer[b].dev = d

(* close: the context, then the descriptor, whatever they are by now. *)
Close(d) ==
    /\ Idle /\ ~ InUse(d)
    /\ IsOpen(d) \/ (RepeatClose /\ opens > 0)
    /\ files' = files \ {device[d].fd}
    /\ objs' = {o \in objs : o[1] # device[d].fd}
    /\ device' = [device EXCEPT ![d] = Closed]
    /\ UNCHANGED <<maps, opens, ownerVars, call, jobs, submits, resultVars, lost, reserved>>

-----------------------------------------------------------------------------
(* Calls. *)

(* Variant: a failed device is not refused. *)
BeginAnyway(c) ==
    /\ Idle /\ IsOpen(c.dev)
    /\ call' = c
    /\ written' = FALSE /\ outcome' = "none"
    /\ UNCHANGED <<deviceVars, objectVars, ownerVars, jobs, submits, lost, reserved>>

Begin(c) ==
    /\ Idle /\ IsOpen(c.dev)
    /\ ~ device[c.dev].failed
    /\ call' = c
    /\ written' = FALSE /\ outcome' = "none"
    /\ UNCHANGED <<deviceVars, objectVars, ownerVars, jobs, submits, lost, reserved>>

Make(op, d, slot, pages) == Begin(Call(op, d, "create", slot, pages, {}))

BeginExecute(d, pages) == Make("execute", d, "none", pages)

BeginBuffer(b, d, pages) == ~ Owns(buffer[b]) /\ Make("buffer", d, b, pages)

BeginProgram(p, d, pages) == ~ Owns(program[p]) /\ Make("program", d, p, pages)

(* dispatch refuses buffers of another device and ones named twice. *)
BeginDispatch(p, bufs) ==
    /\ Owns(program[p])
    /\ \A b \in bufs : buffer[b].dev = program[p].dev
    /\ Begin(Call("dispatch", program[p].dev, "upload", p, 0, bufs))

Fd == device[call.dev].fd

Ctx == device[call.dev].ctx

Handles == {<<Fd, call.got[i]>> : i \in DOMAIN call.got}

(* Variant: the object being made is forgotten. *)
ReleaseHalfMade == objs' = objs \ Handles /\ maps' = maps \ Handles

(* The deferred destructions of what the call has made so far; dispatch     *)
(* makes nothing.                                                           *)
Release ==
    LET gone == Handles \cup {<<Fd, call.cur>>}
    IN  objs' = objs \ gone /\ maps' = maps \ gone

(* or_return *)
Fails ==
    /\ Release
    /\ call' = NoCall /\ outcome' = "error"
    /\ UNCHANGED <<deviceVars, ownerVars, jobs, submits, written, reserved>>

At(stage) == ~ Idle /\ call.stage = stage

(* gem_buffer_create: create, map, set_domain. *)

Need == [buffer |-> 1, program |-> 2, execute |-> 3]

Missing == Len(call.got) < Need[call.op]

GemCreate ==
    /\ At("create") /\ Missing
    /\ \E h \in 1 .. MaxHandles :
          /\ Lowest(h, 1, {n \in 1 .. MaxHandles : <<Fd, n>> \in objs})
          /\ objs' = objs \cup {<<Fd, h>>}
          /\ call' = [call EXCEPT !.cur = h, !.stage = "map"]
    /\ UNCHANGED <<deviceVars, maps, ownerVars, jobs, submits, resultVars, lost, reserved>>

GemMap ==
    /\ At("map")
    /\ maps' = maps \cup {<<Fd, call.cur>>}
    /\ call' = [call EXCEPT !.stage = "domain"]
    /\ UNCHANGED <<deviceVars, objs, ownerVars, jobs, submits, resultVars, lost, reserved>>

GemSetDomain ==
    /\ At("domain")
    /\ call' = [call EXCEPT !.got = Append(@, call.cur), !.cur = 0, !.stage = "create"]
    /\ UNCHANGED <<deviceVars, objectVars, ownerVars, jobs, submits, resultVars, lost, reserved>>

GemFails ==
    /\ At("map") \/ At("domain") \/ (At("create") /\ Missing)
    /\ Fails
    /\ UNCHANGED lost

(* Variant: the address is not advanced. *)
ReserveNothing(d, pages) ==
    /\ device' = device
    /\ reserved' = [reserved EXCEPT ![d] = Append(@, <<device[d].next, pages>>)]

(* reserve_address for objects of these many pages in all: the addresses of *)
(* a device only grow.                                                      *)
Reserve(d, pages) ==
    /\ device[d].next + pages < MaxPage
    /\ device' = [device EXCEPT ![d].next = @ + pages]
    /\ reserved' = [reserved EXCEPT ![d] = Append(@, <<device[d].next, pages>>)]

FinishBuffer ==
    /\ At("create") /\ ~ Missing /\ call.op = "buffer"
    /\ Reserve(call.dev, call.pages)
    /\ buffer' = [buffer EXCEPT ![call.slot] =
                    [dev |-> call.dev, handles |-> {call.got[1]},
                     span |-> <<device[call.dev].next, call.pages>>]]
    /\ call' = NoCall /\ outcome' = "ok"
    /\ UNCHANGED <<files, opens, objectVars, program, jobs, submits, written, lost>>

(* The state's pages and the batch's one. *)
FinishProgram ==
    /\ At("create") /\ ~ Missing /\ call.op = "program"
    /\ Reserve(call.dev, call.pages + 1)
    /\ program' = [program EXCEPT ![call.slot] =
                     [dev |-> call.dev, handles |-> {call.got[1], call.got[2]},
                      span |-> <<device[call.dev].next, call.pages + 1>>,
                      surface |-> Nowhere]]
    /\ call' = NoCall /\ outcome' = "ok"
    /\ UNCHANGED <<files, opens, objectVars, buffer, jobs, submits, written, lost>>

(* execute packs objects of its own. *)
PackExecute ==
    /\ At("create") /\ ~ Missing /\ call.op = "execute"
    /\ call' = [call EXCEPT !.stage = "submit"]
    /\ UNCHANGED <<deviceVars, objectVars, ownerVars, jobs, submits, resultVars, lost, reserved>>

(* dispatch overwrites those of the program, which jobs used before; the    *)
(* surface follows the first buffer, and without one it keeps the last.     *)
PackDispatch ==
    /\ At("upload")
    /\ \/ /\ call.bufs = {}
          /\ UNCHANGED program
       \/ \E first \in call.bufs :
             program' = [program EXCEPT ![call.slot].surface = buffer[first].span]
    /\ call' = [call EXCEPT !.stage = "submit"]
    /\ UNCHANGED <<deviceVars, objectVars, buffer, jobs, submits, resultVars, lost, reserved>>

Spans ==
    IF call.op = "execute" THEN {<<OneShot, call.pages + 2>>}
    ELSE {program[call.slot].span} \cup {buffer[b].span : b \in call.bufs}

(* Variant: a job that is submitted does not count as failed. *)
SubmitTrusting ==
    /\ At("submit") /\ submits < MaxSubmits
    /\ submits' = submits + 1
    /\ jobs' = jobs \cup {[id |-> submits', ctx |-> Ctx, spans |-> Spans]}
    /\ call' = [call EXCEPT !.stage = "wait"]
    /\ UNCHANGED <<deviceVars, objectVars, ownerVars, resultVars, lost, reserved>>

(* Variant: the job goes to the default context. *)
SubmitDefaultContext ==
    /\ At("submit") /\ submits < MaxSubmits
    /\ submits' = submits + 1
    /\ jobs' = jobs \cup {[id |-> submits', ctx |-> 0, spans |-> Spans]}
    /\ device' = [device EXCEPT ![call.dev].failed = TRUE]
    /\ call' = [call EXCEPT !.stage = "wait"]
    /\ UNCHANGED <<files, opens, objectVars, ownerVars, resultVars, lost, reserved>>

(* EXECBUFFER2: from here until the readback the device counts as failed.   *)
Submit ==
    /\ At("submit") /\ submits < MaxSubmits
    /\ submits' = submits + 1
    /\ jobs' = jobs \cup {[id |-> submits', ctx |-> Ctx, spans |-> Spans]}
    /\ device' = [device EXCEPT ![call.dev].failed = TRUE]
    /\ call' = [call EXCEPT !.stage = "wait"]
    /\ UNCHANGED <<files, opens, objectVars, ownerVars, resultVars, lost, reserved>>

SubmitFails == (At("upload") \/ At("submit")) /\ Fails /\ UNCHANGED lost

Running(ctx) == {j \in jobs : j.ctx = ctx}

(* Variant: the error of the wait is dropped. *)
WaitIgnored ==
    /\ At("wait")
    /\ call' = [call EXCEPT !.stage = "read"]
    /\ UNCHANGED <<deviceVars, objectVars, ownerVars, jobs, submits, resultVars, lost, reserved>>

(* GEM_WAIT returns when the job has ended. *)
WaitDone ==
    /\ At("wait") /\ Running(Ctx) = {}
    /\ call' = [call EXCEPT !.stage = "read"]
    /\ UNCHANGED <<deviceVars, objectVars, ownerVars, jobs, submits, resultVars, lost, reserved>>

(* It times out or is interrupted; the job goes on.                         *)
WaitFails == At("wait") /\ Fails /\ lost' = lost \cup {Ctx}

(* set_domain fails, or execute finds its canary overwritten.               *)
ReadFails == At("read") /\ Fails /\ lost' = lost \cup {Ctx}

ReadDone ==
    /\ At("read")
    /\ Release
    /\ device' = [device EXCEPT ![call.dev].failed = FALSE]
    /\ written' = (call.op = "execute")
    /\ call' = NoCall /\ outcome' = "ok"
    /\ UNCHANGED <<files, opens, ownerVars, jobs, submits, lost, reserved>>

-----------------------------------------------------------------------------

Destroy(v) ==
    LET gone == {<<device[v.dev].fd, h>> : h \in v.handles}
    IN  objs' = objs \ gone /\ maps' = maps \ gone

BufferDestroy(b) ==
    /\ Idle /\ Owns(buffer[b])
    /\ Destroy(buffer[b])
    /\ buffer' = [buffer EXCEPT ![b] = NoBuffer]
    /\ UNCHANGED <<deviceVars, program, call, jobs, submits, resultVars, lost, reserved>>

ProgramDestroy(p) ==
    /\ Idle /\ Owns(program[p])
    /\ Destroy(program[p])
    /\ program' = [program EXCEPT ![p] = NoProgram]
    /\ UNCHANGED <<deviceVars, buffer, call, jobs, submits, resultVars, lost, reserved>>

(* The GPU finishes a job. *)
JobEnds(j) ==
    /\ jobs' = jobs \ {j}
    /\ UNCHANGED <<deviceVars, objectVars, ownerVars, call, submits, resultVars, lost, reserved>>

OpenStep == \E d \in Devices : Open(d)
CloseStep == \E d \in Devices : Close(d)
BeginExecuteStep == \E d \in Devices, pages \in Sizes : BeginExecute(d, pages)
BeginBufferStep == \E b \in Buffers, d \in Devices, pages \in Sizes : BeginBuffer(b, d, pages)
BeginProgramStep == \E p \in Programs, d \in Devices, pages \in Sizes : BeginProgram(p, d, pages)
BeginDispatchStep == \E p \in Programs : \E bufs \in SUBSET Buffers : BeginDispatch(p, bufs)
DestroyStep == (\E b \in Buffers : BufferDestroy(b)) \/ (\E p \in Programs : ProgramDestroy(p))
JobEndsStep == \E j \in jobs : JobEnds(j)

Next ==
    \/ OpenStep \/ CloseStep
    \/ BeginExecuteStep \/ BeginBufferStep \/ BeginProgramStep \/ BeginDispatchStep
    \/ GemCreate \/ GemMap \/ GemSetDomain \/ GemFails
    \/ FinishBuffer \/ FinishProgram \/ PackExecute \/ PackDispatch
    \/ Submit \/ SubmitFails \/ WaitDone \/ WaitFails \/ ReadFails \/ ReadDone
    \/ DestroyStep \/ JobEndsStep

Spec == Init /\ [][Next]_vars

-----------------------------------------------------------------------------

Span == Nat \X Nat

DeviceType == [fd : Nat, ctx : Nat, failed : BOOLEAN, next : Nat]

ProgramType == [dev : Devices \cup {"none"}, handles : SUBSET Nat, span : Span, surface : Span]

BufferType == [dev : Devices \cup {"none"}, handles : SUBSET Nat, span : Span]

CallType == [op : {"none", "execute", "buffer", "program", "dispatch"},
             dev : Devices \cup {"none"},
             stage : {"none", "create", "map", "domain", "upload", "submit", "wait", "read"},
             slot : Programs \cup Buffers \cup {"none"},
             pages : Sizes \cup {0}, bufs : SUBSET Buffers, got : Seq(Nat), cur : Nat]

JobType == [id : Nat \ {0}, ctx : Nat \ {0}, spans : SUBSET Span]

(* Devices, owners, the running call and the jobs are well formed; a job    *)
(* runs in a context that open made, never in the driver's default one.     *)
TypeOK ==
    /\ files \subseteq Nat /\ objs \subseteq Nat \X Nat /\ maps \subseteq Nat \X Nat
    /\ opens \in 0 .. MaxOpens /\ submits \in 0 .. MaxSubmits
    /\ device \in [Devices -> DeviceType]
    /\ program \in [Programs -> ProgramType] /\ buffer \in [Buffers -> BufferType]
    /\ call \in CallType
    /\ jobs \subseteq JobType /\ lost \subseteq Nat
    /\ written \in BOOLEAN /\ outcome \in {"none", "ok", "error"}
    /\ reserved \in [Devices -> Seq(Span)]

Apart(s, t) == s[1] + s[2] =< t[1] \/ t[1] + t[2] =< s[1]

(* No job runs on GPU addresses that a job given up on still owns ("An      *)
(* interrupted/timed-out job can still own these GPU virtual addresses",    *)
(* gpu/api.odin): execute places every job at the same addresses, dispatch  *)
(* reuses those of the program and its buffers.                             *)
JobsApart ==
    \A j, k \in jobs : j.id # k.id /\ j.ctx = k.ctx =>
        \A s \in j.spans, t \in k.spans : Apart(s, t)

(* While dispatch writes the parameters and commands of a program, no job   *)
(* of the context runs that could be reading them.                          *)
UploadsSafe == At("upload") \/ At("submit") => Running(Ctx) = {}

(* A context with a job given up on never serves again: its device stays    *)
(* failed until it is closed, whatever is called on it (README: "close it   *)
(* and open a fresh one before submitting again").                          *)
LostStaysFailed == \A d \in Devices : device[d].ctx \in lost => device[d].failed

(* The caller's results are written only by a call that succeeds (README:   *)
(* "Results are unchanged on failure"), and a device whose call succeeded   *)
(* has no job left that could still be writing them.                        *)
SuccessMeansFinished ==
    /\ written => outcome = "ok"
    /\ \A d \in Devices : Idle /\ IsOpen(d) /\ ~ device[d].failed => Running(device[d].ctx) = {}

HandlesOf(d) ==
    UNION ({program[p].handles : p \in {p \in Programs : program[p].dev = d}} \cup
           {buffer[b].handles : b \in {b \in Buffers : buffer[b].dev = d}})

(* Between calls the driver's objects and the mappings are exactly those of *)
(* the programs and buffers the caller holds (README: "Per-call GEM objects *)
(* and mappings are released on success and failure"), whichever of the     *)
(* steps of gem_buffer_create, program_create or execute failed.            *)
NoLeak ==
    Idle => LET held == UNION {{<<device[d].fd, h>> : h \in HandlesOf(d)} : d \in Devices}
            IN  objs = held /\ maps = held

SurfacesNameTheirs(d) ==
    \A p \in Programs, b \in Buffers :
        program[p].dev = d /\ buffer[b].dev = d =>
            \/ program[p].surface = buffer[b].span
            \/ Apart(program[p].surface, buffer[b].span)

(* No address of a device is handed out twice, even after what had it is    *)
(* destroyed, and none meets the fixed addresses of execute.  So the        *)
(* surface a program keeps from an earlier dispatch, whose buffer may be    *)
(* gone, never lies in a buffer made since.                                 *)
AddressesFresh ==
    \A d \in Devices :
        /\ \A i, k \in DOMAIN reserved[d] : i # k => Apart(reserved[d][i], reserved[d][k])
        /\ \A i \in DOMAIN reserved[d], n \in Sizes :
              Apart(reserved[d][i], <<OneShot, n + 2>>)
        /\ IsOpen(d) => SurfacesNameTheirs(d)

(* README: "repeated close is harmless".  What is not the device's stays    *)
(* open.                                                                    *)
RepeatedCloseHarmless == 0 \in files
=============================================================================
