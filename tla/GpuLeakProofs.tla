--------------------------- MODULE GpuLeakProofs ----------------------------
(***************************************************************************)
(* Every object of a device has one holder: what programs and buffers own, *)
(* what the running call has made, and what the kernel still has are the   *)
(* same, for any number of devices, programs, buffers and calls.           *)
(***************************************************************************)
EXTENDS GpuDispatchProofs

(* Objects.  What exists is what programs and buffers hold and what the     *)
(* running call has made; nothing has two holders.                          *)

GemHandles == 1 .. MaxHandles

ProgramHolds(p, d, h) == program[p].dev = d /\ h \in program[p].handles

BufferHolds(b, d, h) == buffer[b].dev = d /\ h \in buffer[b].handles

Holds(d, h) ==
    \/ \E p \in Programs : ProgramHolds(p, d, h)
    \/ \E b \in Buffers : BufferHolds(b, d, h)

Making == ~ Idle /\ call.stage \in {"map", "domain"}

(* What the deferred destructions of the call will give back. *)
CallHolds(d, h) ==
    /\ ~ Idle /\ d = call.dev
    /\ (\E i \in DOMAIN call.got : h = call.got[i]) \/ (Making /\ h = call.cur)

Live(d, h) == Holds(d, h) \/ CallHolds(d, h)

Mapped(d, h) == Live(d, h) /\ ~ (At("map") /\ d = call.dev /\ h = call.cur)

(* Descriptors of open devices are open files, each of one device. *)
FilesOwned ==
    /\ \A d \in Devices : IsOpen(d) => device[d].fd \in files
    /\ \A d, e \in Devices :
          IsOpen(d) /\ IsOpen(e) /\ device[d].fd = device[e].fd => d = e

HandlesMade ==
    /\ \A p \in Programs : program[p].handles \subseteq GemHandles
    /\ \A b \in Buffers : buffer[b].handles \subseteq GemHandles
    /\ \A i \in DOMAIN call.got : call.got[i] \in GemHandles
    /\ IF Making THEN call.cur \in GemHandles ELSE call.cur = 0

OneHolder ==
    \A d \in Devices, h \in GemHandles :
        /\ \A p, q \in Programs : ProgramHolds(p, d, h) /\ ProgramHolds(q, d, h) => p = q
        /\ \A b, c \in Buffers : BufferHolds(b, d, h) /\ BufferHolds(c, d, h) => b = c
        /\ \A p \in Programs, b \in Buffers : ~ (ProgramHolds(p, d, h) /\ BufferHolds(b, d, h))
        /\ CallHolds(d, h) => ~ Holds(d, h)

(* The variable a call will fill owns nothing, and the call makes no more   *)
(* than it will hand over.                                                  *)
SlotsFree ==
    /\ call.op = "buffer" =>
          /\ call.slot \in Buffers /\ ~ Owns(buffer[call.slot])
          /\ Len(call.got) =< 1 /\ (Making => Len(call.got) < 1)
    /\ call.op = "program" =>
          /\ call.slot \in Programs /\ ~ Owns(program[call.slot])
          /\ Len(call.got) =< 2 /\ (Making => Len(call.got) < 2)

ObjectsLive ==
    /\ \A d \in Devices, h \in GemHandles : Live(d, h) => <<device[d].fd, h>> \in objs
    /\ \A o \in objs : \E d \in Devices, h \in GemHandles :
          Live(d, h) /\ o = <<device[d].fd, h>>

MapsLive ==
    /\ \A d \in Devices, h \in GemHandles : Mapped(d, h) => <<device[d].fd, h>> \in maps
    /\ \A o \in maps : \E d \in Devices, h \in GemHandles :
          Mapped(d, h) /\ o = <<device[d].fd, h>>

LInv == FilesOwned /\ HandlesMade /\ OneHolder /\ SlotsFree /\ ObjectsLive /\ MapsLive

LEMMA InitLInv == Init => LInv
  <1> SUFFICES ASSUME Init PROVE LInv  OBVIOUS
  <1>1. /\ call = NoCall /\ Idle /\ ~ Making /\ call.cur = 0 /\ call.got = <<>>
        /\ call.op = "none"
    BY DEF Init, Idle, Making, NoCall, Call
  <1>2. DOMAIN call.got = {}  BY <1>1
  <1>3. /\ \A p \in Programs : program[p].handles = {}
        /\ \A b \in Buffers : buffer[b].handles = {}
        /\ \A d \in Devices : device[d].ctx = 0
        /\ objs = {} /\ maps = {}
    BY DEF Init, NoProgram, NoBuffer, Closed
  <1>4. \A d, h : ~ Holds(d, h) /\ ~ CallHolds(d, h)
    BY <1>1, <1>3 DEF Holds, ProgramHolds, BufferHolds, CallHolds
  <1>5. FilesOwned  BY <1>3 DEF FilesOwned, IsOpen
  <1>6. HandlesMade  BY <1>1, <1>2, <1>3 DEF HandlesMade
  <1>7. OneHolder  BY <1>3, <1>4 DEF OneHolder, ProgramHolds, BufferHolds
  <1>8. SlotsFree  BY <1>1 DEF SlotsFree
  <1>9. ObjectsLive /\ MapsLive  BY <1>3, <1>4 DEF ObjectsLive, MapsLive, Live, Mapped
  <1> QED  BY <1>5, <1>6, <1>7, <1>8, <1>9 DEF LInv

(* Who holds what depends on the variables and the call only. *)
LEMMA HoldsFrame ==
    ASSUME UNCHANGED <<program, buffer, call>>
    PROVE  \A d \in Devices, h \in GemHandles :
              /\ \A p \in Programs : ProgramHolds(p, d, h)' <=> ProgramHolds(p, d, h)
              /\ \A b \in Buffers : BufferHolds(b, d, h)' <=> BufferHolds(b, d, h)
              /\ Holds(d, h)' <=> Holds(d, h)
              /\ CallHolds(d, h)' <=> CallHolds(d, h)
              /\ Live(d, h)' <=> Live(d, h)
              /\ Mapped(d, h)' <=> Mapped(d, h)
  <1> TAKE d \in Devices, h \in GemHandles
  <1>1. /\ \A p \in Programs : ProgramHolds(p, d, h)' <=> ProgramHolds(p, d, h)
        /\ \A b \in Buffers : BufferHolds(b, d, h)' <=> BufferHolds(b, d, h)
    BY DEF ProgramHolds, BufferHolds
  <1>2. Holds(d, h)' <=> Holds(d, h)  BY <1>1 DEF Holds
  <1>3. CallHolds(d, h)' <=> CallHolds(d, h)  BY DEF CallHolds, Idle, Making
  <1>4. At("map")' <=> At("map")  BY DEF At, Idle
  <1> QED  BY <1>1, <1>2, <1>3, <1>4 DEF Live, Mapped

(* Objects and mappings stay those that are live when what is given up is   *)
(* closed, and the descriptors of what stays are the same.                  *)
LEMMA ObjectsKept ==
    ASSUME ObjectsLive, GemHandles' = GemHandles, NEW gone, objs' = objs \ gone,
           \A d \in Devices, h \in GemHandles :
              /\ Live(d, h)' <=> Live(d, h) /\ <<device[d].fd, h>> \notin gone
              /\ Live(d, h) => device'[d].fd = device[d].fd
    PROVE  ObjectsLive'
  <1>1. ASSUME NEW d \in Devices, NEW h \in GemHandles, Live(d, h)'
        PROVE  <<device'[d].fd, h>> \in objs'
    <2>1. Live(d, h) /\ <<device[d].fd, h>> \notin gone /\ device'[d].fd = device[d].fd
      BY <1>1
    <2>2. <<device[d].fd, h>> \in objs  BY <2>1 DEF ObjectsLive
    <2> QED  BY <2>1, <2>2
  <1>2. ASSUME NEW o \in objs'
        PROVE  \E d \in Devices, h \in GemHandles : Live(d, h)' /\ o = <<device'[d].fd, h>>
    <2>1. PICK d \in Devices, h \in GemHandles : Live(d, h) /\ o = <<device[d].fd, h>>
      BY DEF ObjectsLive
    <2>2. Live(d, h)' /\ o = <<device'[d].fd, h>>  BY <2>1
    <2> QED  BY <2>2
  <1> QED  BY <1>1, <1>2 DEF ObjectsLive

LEMMA MapsKept ==
    ASSUME MapsLive, GemHandles' = GemHandles, NEW gone, maps' = maps \ gone,
           \A d \in Devices, h \in GemHandles :
              /\ Mapped(d, h)' <=> Mapped(d, h) /\ <<device[d].fd, h>> \notin gone
              /\ Mapped(d, h) => device'[d].fd = device[d].fd
    PROVE  MapsLive'
  <1>1. ASSUME NEW d \in Devices, NEW h \in GemHandles, Mapped(d, h)'
        PROVE  <<device'[d].fd, h>> \in maps'
    <2>1. Mapped(d, h) /\ <<device[d].fd, h>> \notin gone /\ device'[d].fd = device[d].fd
      BY <1>1
    <2>2. <<device[d].fd, h>> \in maps  BY <2>1 DEF MapsLive
    <2> QED  BY <2>1, <2>2
  <1>2. ASSUME NEW o \in maps'
        PROVE  \E d \in Devices, h \in GemHandles : Mapped(d, h)' /\ o = <<device'[d].fd, h>>
    <2>1. PICK d \in Devices, h \in GemHandles : Mapped(d, h) /\ o = <<device[d].fd, h>>
      BY DEF MapsLive
    <2>2. Mapped(d, h)' /\ o = <<device'[d].fd, h>>  BY <2>1
    <2> QED  BY <2>2
  <1> QED  BY <1>1, <1>2 DEF MapsLive

LEMMA ObjectsSame ==
    ASSUME ObjectsLive, GemHandles' = GemHandles, objs' = objs,
           \A d \in Devices, h \in GemHandles :
              /\ Live(d, h)' <=> Live(d, h)
              /\ Live(d, h) => device'[d].fd = device[d].fd
    PROVE  ObjectsLive'
  <1>1. PICK gone : gone = {}  OBVIOUS
  <1>2. objs' = objs \ gone  BY <1>1
  <1>3. \A d \in Devices, h \in GemHandles :
           Live(d, h)' <=> Live(d, h) /\ <<device[d].fd, h>> \notin gone
    BY <1>1
  <1> QED  BY <1>2, <1>3, ObjectsKept

LEMMA MapsSame ==
    ASSUME MapsLive, GemHandles' = GemHandles, maps' = maps,
           \A d \in Devices, h \in GemHandles :
              /\ Mapped(d, h)' <=> Mapped(d, h)
              /\ Mapped(d, h) => device'[d].fd = device[d].fd
    PROVE  MapsLive'
  <1>1. PICK gone : gone = {}  OBVIOUS
  <1>2. maps' = maps \ gone  BY <1>1
  <1>3. \A d \in Devices, h \in GemHandles :
           Mapped(d, h)' <=> Mapped(d, h) /\ <<device[d].fd, h>> \notin gone
    BY <1>1
  <1> QED  BY <1>2, <1>3, MapsKept

(* Nobody comes to hold more. *)
LEMMA HoldersKept ==
    ASSUME OneHolder, GemHandles' = GemHandles,
           \A d \in Devices, h \in GemHandles :
              /\ \A p \in Programs : ProgramHolds(p, d, h)' => ProgramHolds(p, d, h)
              /\ \A b \in Buffers : BufferHolds(b, d, h)' => BufferHolds(b, d, h)
              /\ Holds(d, h)' => Holds(d, h)
              /\ CallHolds(d, h)' => CallHolds(d, h)
    PROVE  OneHolder'
  <1>1. ASSUME NEW d \in Devices, NEW h \in GemHandles
        PROVE  /\ \A p, q \in Programs : ProgramHolds(p, d, h)' /\ ProgramHolds(q, d, h)' => p = q
               /\ \A b, c \in Buffers : BufferHolds(b, d, h)' /\ BufferHolds(c, d, h)' => b = c
               /\ \A p \in Programs, b \in Buffers :
                     ~ (ProgramHolds(p, d, h)' /\ BufferHolds(b, d, h)')
               /\ CallHolds(d, h)' => ~ Holds(d, h)'
    <2>1. /\ \A p, q \in Programs : ProgramHolds(p, d, h) /\ ProgramHolds(q, d, h) => p = q
          /\ \A b, c \in Buffers : BufferHolds(b, d, h) /\ BufferHolds(c, d, h) => b = c
          /\ \A p \in Programs, b \in Buffers : ~ (ProgramHolds(p, d, h) /\ BufferHolds(b, d, h))
          /\ CallHolds(d, h) => ~ Holds(d, h)
      BY DEF OneHolder
    <2>2. /\ \A p \in Programs : ProgramHolds(p, d, h)' => ProgramHolds(p, d, h)
          /\ \A b \in Buffers : BufferHolds(b, d, h)' => BufferHolds(b, d, h)
          /\ Holds(d, h)' => Holds(d, h)
          /\ CallHolds(d, h)' => CallHolds(d, h)
      OBVIOUS
    <2> QED  BY <2>1, <2>2
  <1> QED  BY <1>1 DEF OneHolder

(* What exists belongs to an open device, so its descriptor and handle name *)
(* it.                                                                      *)
LEMMA LiveOpen ==
    ASSUME IInv, AInv, NEW d \in Devices, NEW h, Live(d, h)
    PROVE  IsOpen(d)
  <1>1. ASSUME NEW p \in Programs, program[p].dev = d PROVE IsOpen(d)
    BY <1>1, GpuAssumption DEF AInv, OwnersGiven, Owns
  <1>2. ASSUME NEW b \in Buffers, buffer[b].dev = d PROVE IsOpen(d)
    BY <1>2, GpuAssumption DEF AInv, OwnersGiven, Owns
  <1>3. CASE CallHolds(d, h)  BY <1>3 DEF CallHolds, IInv, CallTracked
  <1> QED  BY <1>1, <1>2, <1>3 DEF Live, Holds, ProgramHolds, BufferHolds

LEMMA SameObject ==
    ASSUME IInv, AInv, LInv, NEW d \in Devices, NEW e \in Devices, NEW h, NEW k,
           IsOpen(d), IsOpen(e), <<device[d].fd, h>> = <<device[e].fd, k>>
    PROVE  d = e /\ h = k
  BY DEF LInv, FilesOwned

LEMMA FdNat == ASSUME IInv, NEW d \in Devices PROVE device[d].fd \in Nat
  BY DEF IInv, TypeOK, DeviceType

(* Steps that leave the objects and their holders alone. *)
LEMMA ObjectsFrame ==
    ASSUME LInv, UNCHANGED <<files, objs, maps>>,
           \A d \in Devices : device'[d].fd = device[d].fd /\ device'[d].ctx = device[d].ctx,
           \A p \in Programs : /\ program'[p].dev = program[p].dev
                               /\ program'[p].handles = program[p].handles,
           buffer' = buffer,
           \A d \in Devices, h \in GemHandles :
              /\ CallHolds(d, h)' <=> CallHolds(d, h)
              /\ (At("map") /\ d = call.dev /\ h = call.cur)'
                    <=> (At("map") /\ d = call.dev /\ h = call.cur),
           HandlesMade', SlotsFree'
    PROVE  LInv'
  <1>1. \A d \in Devices, h \in GemHandles :
           /\ \A p \in Programs : ProgramHolds(p, d, h)' <=> ProgramHolds(p, d, h)
           /\ \A b \in Buffers : BufferHolds(b, d, h)' <=> BufferHolds(b, d, h)
    BY DEF ProgramHolds, BufferHolds
  <1>2. GemHandles' = GemHandles  BY DEF GemHandles
  <1>3. \A d \in Devices, h \in GemHandles : Holds(d, h)' <=> Holds(d, h)
    BY <1>1 DEF Holds
  <1>4. \A d \in Devices, h \in GemHandles :
           (Live(d, h)' <=> Live(d, h)) /\ (Mapped(d, h)' <=> Mapped(d, h))
    BY <1>3 DEF Live, Mapped
  <1>5. FilesOwned'  BY DEF LInv, FilesOwned, IsOpen
  <1>6. OneHolder'  BY <1>1, <1>2, <1>3, HoldersKept DEF LInv
  <1>7. ObjectsLive'  BY <1>2, <1>4, ObjectsSame DEF LInv
  <1>8. MapsLive'  BY <1>2, <1>4, MapsSame DEF LInv
  <1> QED  BY <1>5, <1>6, <1>7, <1>8 DEF LInv

(* A call that goes on to another stage with what it has. *)
LEMMA StageObjects ==
    ASSUME IInv, LInv, UNCHANGED <<files, objs, maps>>,
           \A d \in Devices : device'[d].fd = device[d].fd /\ device'[d].ctx = device[d].ctx,
           \A p \in Programs : /\ program'[p].dev = program[p].dev
                               /\ program'[p].handles = program[p].handles,
           buffer' = buffer,
           call'.op = call.op, call'.dev = call.dev, call'.slot = call.slot,
           call'.got = call.got, call'.cur = call.cur,
           Making' <=> Making, At("map")' <=> At("map")
    PROVE  LInv'
  <1>1. Idle' <=> Idle  BY DEF Idle
  <1>2. HandlesMade'  BY DEF LInv, HandlesMade, GemHandles
  <1>3. SlotsFree'
    <2>1. ASSUME NEW p \in Programs PROVE Owns(program[p])' <=> Owns(program[p])  BY DEF Owns
    <2> QED  BY <2>1 DEF LInv, SlotsFree
  <1>4. \A d \in Devices, h \in GemHandles :
              /\ CallHolds(d, h)' <=> CallHolds(d, h)
              /\ (At("map") /\ d = call.dev /\ h = call.cur)'
                    <=> (At("map") /\ d = call.dev /\ h = call.cur)
    BY <1>1 DEF CallHolds
  <1> QED  BY <1>2, <1>3, <1>4, ObjectsFrame

LEMMA QuietObjects ==
    ASSUME IInv, LInv, PackExecute \/ PackDispatch \/ Submit \/ WaitDone \/ JobEndsStep \/ UNCHANGED vars
    PROVE  LInv'
  <1> USE DEF PackExecute, PackDispatch, Submit, WaitDone, JobEndsStep, JobEnds, deviceVars, objectVars,
              ownerVars, vars
  <1>1. UNCHANGED <<files, objs, maps, buffer>>  OBVIOUS
  <1>2. \A d \in Devices : device'[d].fd = device[d].fd /\ device'[d].ctx = device[d].ctx
    <2>1. device \in [Devices -> DeviceType]  BY DEF IInv, TypeOK
    <2>2. CASE device' = device  BY <2>2
    <2>3. CASE device' = [device EXCEPT ![call.dev].failed = TRUE]  BY <2>1, <2>3 DEF DeviceType
    <2> QED  BY <2>2, <2>3
  <1>3. \A p \in Programs : /\ program'[p].dev = program[p].dev
                            /\ program'[p].handles = program[p].handles
    <2>1. program \in [Programs -> ProgramType]  BY DEF IInv, TypeOK
    <2>2. CASE program' = program  BY <2>2
    <2>3. ASSUME NEW s, program' = [program EXCEPT ![call.slot].surface = s]
          PROVE  \A p \in Programs : /\ program'[p].dev = program[p].dev
                                     /\ program'[p].handles = program[p].handles
      BY <2>1, <2>3 DEF ProgramType
    <2> QED  BY <2>2, <2>3
  <1>4. call \in CallType  BY DEF IInv, TypeOK
  <1>5. /\ call'.op = call.op /\ call'.dev = call.dev /\ call'.slot = call.slot
        /\ call'.got = call.got /\ call'.cur = call.cur
        /\ \/ call' = call
           \/ /\ call.stage \in {"create", "upload", "submit", "wait"}
              /\ call'.stage \in {"submit", "wait", "read"}
    <2>1. CASE call' = call  BY <2>1
    <2>2. CASE call' # call
      <3>1. \E s \in {"submit", "wait", "read"} : call' = [call EXCEPT !.stage = s]  BY <2>2
      <3>2. call.stage \in {"create", "upload", "submit", "wait"}  BY <2>2 DEF At
      <3> HIDE DEF PackExecute, PackDispatch, Submit, WaitDone, JobEndsStep
      <3> QED  BY <1>4, <3>1, <3>2 DEF CallType
    <2> QED  BY <2>1, <2>2
  <1>6. (Making' <=> Making) /\ (At("map")' <=> At("map"))  BY <1>5 DEF Making, At, Idle
  <1> HIDE DEF PackExecute, PackDispatch, Submit, WaitDone, JobEndsStep, vars
  <1> QED  BY <1>1, <1>2, <1>3, <1>5, <1>6, StageObjects

(* A call that begins has made nothing; what it will fill is free. *)
LEMMA BeginObjects ==
    ASSUME IInv, LInv, NEW c, Begin(c), c.got = <<>>, c.cur = 0,
           c.stage \notin {"map", "domain"},
           c.op = "buffer" => c.slot \in Buffers /\ ~ Owns(buffer[c.slot]),
           c.op = "program" => c.slot \in Programs /\ ~ Owns(program[c.slot])
    PROVE  LInv'
  <1> USE DEF Begin, deviceVars, objectVars, ownerVars
  <1>1. call' = c /\ Idle /\ UNCHANGED <<files, objs, maps, device, program, buffer>>  OBVIOUS
  <1> HIDE DEF Begin
  <1>2. ~ Making' /\ ~ Making /\ ~ At("map") /\ ~ At("map")'  BY <1>1 DEF Making, At
  <1>3. DOMAIN call'.got = {} /\ Len(call'.got) = 0  BY <1>1
  <1>4. HandlesMade'  BY <1>1, <1>2, <1>3 DEF LInv, HandlesMade, GemHandles
  <1>5. SlotsFree'
    <2>1. UNCHANGED <<program, buffer>>  BY <1>1
    <2>2. call'.op = "buffer" => call'.slot \in Buffers /\ ~ Owns(buffer'[call'.slot])
      BY <1>1, <2>1 DEF Owns
    <2>3. call'.op = "program" => call'.slot \in Programs /\ ~ Owns(program'[call'.slot])
      BY <1>1, <2>1 DEF Owns
    <2> QED  BY <1>2, <1>3, <2>2, <2>3 DEF SlotsFree
  <1>6. \A d, h : ~ CallHolds(d, h)' /\ ~ CallHolds(d, h)
    BY <1>1, <1>2, <1>3 DEF CallHolds
  <1> QED  BY <1>1, <1>2, <1>4, <1>5, <1>6, ObjectsFrame

LEMMA BeginStepObjects ==
    ASSUME IInv, LInv,
           BeginExecuteStep \/ BeginBufferStep \/ BeginProgramStep \/ BeginDispatchStep
    PROVE  LInv'
  <1> DEFINE Fresh(c) ==
        /\ c.got = <<>> /\ c.cur = 0 /\ c.stage \notin {"map", "domain"}
        /\ c.op = "buffer" => c.slot \in Buffers /\ ~ Owns(buffer[c.slot])
        /\ c.op = "program" => c.slot \in Programs /\ ~ Owns(program[c.slot])
  <1>1. ASSUME NEW d, NEW pages PROVE Fresh(Call("execute", d, "create", "none", pages, {}))
    BY DEF Call
  <1>2. ASSUME NEW b \in Buffers, NEW d, NEW pages, ~ Owns(buffer[b])
        PROVE  Fresh(Call("buffer", d, "create", b, pages, {}))
    BY <1>2 DEF Call
  <1>3. ASSUME NEW p \in Programs, NEW d, NEW pages, ~ Owns(program[p])
        PROVE  Fresh(Call("program", d, "create", p, pages, {}))
    BY <1>3 DEF Call
  <1>4. ASSUME NEW p, NEW d, NEW bufs PROVE Fresh(Call("dispatch", d, "upload", p, 0, bufs))
    BY DEF Call
  <1>5. ASSUME NEW c, Begin(c), Fresh(c) PROVE LInv'  BY <1>5, BeginObjects
  <1> HIDE DEF Fresh
  <1>6. CASE BeginExecuteStep
    BY <1>1, <1>5, <1>6 DEF BeginExecuteStep, BeginExecute, Make
  <1>7. CASE BeginBufferStep
    BY <1>2, <1>5, <1>7 DEF BeginBufferStep, BeginBuffer, Make
  <1>8. CASE BeginProgramStep
    BY <1>3, <1>5, <1>8 DEF BeginProgramStep, BeginProgram, Make
  <1>9. CASE BeginDispatchStep
    BY <1>4, <1>5, <1>9 DEF BeginDispatchStep, BeginDispatch
  <1> QED  BY <1>6, <1>7, <1>8, <1>9

(* gem_buffer_create: the driver's handle is one that nothing holds. *)
LEMMA CreateObjects ==
    ASSUME IInv, AInv, LInv, GemCreate
    PROVE  LInv'
  <1>1. PICK h \in GemHandles :
           /\ <<Fd, h>> \notin objs
           /\ objs' = objs \cup {<<Fd, h>>}
           /\ call' = [call EXCEPT !.cur = h, !.stage = "map"]
    BY DEF GemCreate, Lowest, GemHandles
  <1>2. /\ UNCHANGED <<files, device, maps, program, buffer>> /\ ~ Idle /\ call.stage = "create"
        /\ Missing
    BY DEF GemCreate, deviceVars, ownerVars, At
  <1>3. /\ call'.op = call.op /\ call'.dev = call.dev /\ call'.slot = call.slot
        /\ call'.got = call.got /\ call'.cur = h /\ call'.stage = "map"
        /\ call.got \in Seq(Nat) /\ Len(call.got) \in Nat
    BY <1>1 DEF IInv, TypeOK, CallType
  <1>4. ~ Idle' /\ Making' /\ At("map")' /\ ~ Making /\ ~ At("map")
    BY <1>2, <1>3 DEF Idle, Making, At
  <1>5. call.dev \in Devices /\ Fd = device[call.dev].fd
    BY <1>2 DEF IInv, CallTracked, Fd
  <1>6. ~ Live(call.dev, h)  BY <1>1, <1>5 DEF LInv, ObjectsLive
  <1>7. \A d \in Devices, k \in GemHandles :
           /\ Holds(d, k)' <=> Holds(d, k)
           /\ CallHolds(d, k)' <=> CallHolds(d, k) \/ (d = call.dev /\ k = h)
    BY <1>2, <1>3, <1>4 DEF Holds, ProgramHolds, BufferHolds, CallHolds
  <1>8. \A d \in Devices, k \in GemHandles :
           /\ Live(d, k)' <=> Live(d, k) \/ (d = call.dev /\ k = h)
           /\ Mapped(d, k)' <=> Mapped(d, k)
    BY <1>3, <1>4, <1>6, <1>7 DEF Live, Mapped
  <1>9. GemHandles' = GemHandles  BY DEF GemHandles
  <1>10. FilesOwned'  BY <1>2 DEF LInv, FilesOwned, IsOpen
  <1>11. HandlesMade'  BY <1>2, <1>3, <1>4, <1>9 DEF LInv, HandlesMade
  <1>12. OneHolder'
    <2>1. \A d \in Devices, k \in GemHandles :
             /\ \A p \in Programs : ProgramHolds(p, d, k)' <=> ProgramHolds(p, d, k)
             /\ \A b \in Buffers : BufferHolds(b, d, k)' <=> BufferHolds(b, d, k)
      BY <1>2 DEF ProgramHolds, BufferHolds
    <2> QED  BY <1>6, <1>7, <1>9, <2>1 DEF LInv, OneHolder, Live
  <1>13. SlotsFree'
    <2>1. call.op = "buffer" => Len(call.got) < 1  BY <1>2 DEF Missing, Need
    <2>2. call.op = "program" => Len(call.got) < 2  BY <1>2 DEF Missing, Need
    <2> QED  BY <1>2, <1>3, <2>1, <2>2 DEF LInv, SlotsFree
  <1>14. ObjectsLive'
    <2>1. ASSUME NEW d \in Devices, NEW k \in GemHandles, Live(d, k)'
          PROVE  <<device[d].fd, k>> \in objs'
      BY <1>1, <1>5, <1>8, <2>1 DEF LInv, ObjectsLive
    <2>2. ASSUME NEW o \in objs'
          PROVE  \E d \in Devices, k \in GemHandles : Live(d, k)' /\ o = <<device[d].fd, k>>
      <3>1. CASE o \in objs  BY <1>8, <3>1 DEF LInv, ObjectsLive
      <3>2. CASE o = <<Fd, h>>  BY <1>5, <1>8, <3>2
      <3> QED  BY <1>1, <3>1, <3>2
    <2> QED  BY <1>2, <1>9, <2>1, <2>2 DEF ObjectsLive
  <1>15. MapsLive'  BY <1>2, <1>8, <1>9 DEF LInv, MapsLive
  <1> QED  BY <1>10, <1>11, <1>12, <1>13, <1>14, <1>15 DEF LInv

(* The mapping of the object being made; afterwards it is one of those      *)
(* the call has made.                                                       *)
LEMMA MapObjects ==
    ASSUME IInv, AInv, LInv, GemMap
    PROVE  LInv'
  <1> DEFINE h == call.cur
  <1>1. /\ UNCHANGED <<files, device, objs, program, buffer>> /\ ~ Idle /\ call.stage = "map"
        /\ maps' = maps \cup {<<Fd, h>>} /\ call' = [call EXCEPT !.stage = "domain"]
    BY DEF GemMap, deviceVars, ownerVars, At
  <1>2. /\ call'.op = call.op /\ call'.dev = call.dev /\ call'.slot = call.slot
        /\ call'.got = call.got /\ call'.cur = h /\ call'.stage = "domain"
    BY <1>1 DEF IInv, TypeOK, CallType
  <1>3. ~ Idle' /\ Making' /\ Making /\ At("map") /\ ~ At("map")'
    BY <1>1, <1>2 DEF Idle, Making, At
  <1>4. call.dev \in Devices /\ Fd = device[call.dev].fd /\ h \in GemHandles
    BY <1>1, <1>3 DEF IInv, CallTracked, Fd, LInv, HandlesMade
  <1>5. \A d \in Devices, k \in GemHandles :
           /\ \A p \in Programs : ProgramHolds(p, d, k)' <=> ProgramHolds(p, d, k)
           /\ \A b \in Buffers : BufferHolds(b, d, k)' <=> BufferHolds(b, d, k)
           /\ Holds(d, k)' <=> Holds(d, k)
           /\ CallHolds(d, k)' <=> CallHolds(d, k)
    BY <1>1, <1>2, <1>3 DEF Holds, ProgramHolds, BufferHolds, CallHolds
  <1>6. \A d \in Devices, k \in GemHandles :
           /\ Live(d, k)' <=> Live(d, k)
           /\ Mapped(d, k)' <=> Mapped(d, k) \/ (d = call.dev /\ k = h)
    <2>1. CallHolds(call.dev, h)  BY <1>3 DEF CallHolds, Making
    <2> QED  BY <1>3, <1>5, <2>1 DEF Live, Mapped
  <1>7. GemHandles' = GemHandles  BY DEF GemHandles
  <1> HIDE DEF h
  <1>8. FilesOwned'  BY <1>1 DEF LInv, FilesOwned, IsOpen
  <1>9. HandlesMade'  BY <1>1, <1>2, <1>3, <1>4, <1>7 DEF LInv, HandlesMade
  <1>10. OneHolder'  BY <1>5, <1>7 DEF LInv, OneHolder
  <1>11. SlotsFree'  BY <1>1, <1>2, <1>3 DEF LInv, SlotsFree
  <1>12. ObjectsLive'  BY <1>1, <1>6, <1>7 DEF LInv, ObjectsLive
  <1>13. MapsLive'
    <2>1. ASSUME NEW d \in Devices, NEW k \in GemHandles, Mapped(d, k)'
          PROVE  <<device[d].fd, k>> \in maps'
      BY <1>1, <1>4, <1>6, <2>1 DEF LInv, MapsLive
    <2>2. ASSUME NEW o \in maps'
          PROVE  \E d \in Devices, k \in GemHandles : Mapped(d, k)' /\ o = <<device[d].fd, k>>
      <3>1. CASE o \in maps  BY <1>6, <3>1 DEF LInv, MapsLive
      <3>2. CASE o = <<Fd, h>>  BY <1>4, <1>6, <3>2
      <3> QED  BY <1>1, <3>1, <3>2
    <2> QED  BY <1>1, <1>7, <2>1, <2>2 DEF MapsLive
  <1> QED  BY <1>8, <1>9, <1>10, <1>11, <1>12, <1>13 DEF LInv

LEMMA DomainObjects ==
    ASSUME IInv, AInv, LInv, GemSetDomain
    PROVE  LInv'
  <1>1. /\ UNCHANGED <<files, device, objs, maps, program, buffer>> /\ ~ Idle
        /\ call.stage = "domain"
        /\ call' = [call EXCEPT !.got = Append(call.got, call.cur), !.cur = 0, !.stage = "create"]
    BY DEF GemSetDomain, deviceVars, objectVars, ownerVars, At
  <1>2. /\ call'.op = call.op /\ call'.dev = call.dev /\ call'.slot = call.slot
        /\ call'.got = Append(call.got, call.cur) /\ call'.cur = 0 /\ call'.stage = "create"
        /\ call.got \in Seq(Nat) /\ call.cur \in Nat /\ Len(call.got) \in Nat
    BY <1>1 DEF IInv, TypeOK, CallType
  <1>3. ~ Idle' /\ ~ Making' /\ Making /\ ~ At("map") /\ ~ At("map")'
    BY <1>1, <1>2 DEF Idle, Making, At
  <1> DEFINE n == Len(call.got)
  <1>4. /\ DOMAIN call.got = 1 .. n /\ DOMAIN call'.got = 1 .. (n + 1) /\ Len(call'.got) = n + 1
        /\ call'.got[n + 1] = call.cur /\ \A i \in 1 .. n : call'.got[i] = call.got[i]
    BY <1>2
  <1>5. \A i \in 1 .. (n + 1) : i \in 1 .. n \/ i = n + 1  BY <1>2
  <1>6. n + 1 \in 1 .. (n + 1) /\ 1 .. n \subseteq 1 .. (n + 1)  BY <1>2
  <1> HIDE DEF n
  <1>7. \A d \in Devices, h \in GemHandles : CallHolds(d, h)' <=> CallHolds(d, h)
    <2> TAKE d \in Devices, h \in GemHandles
    <2>1. (\E i \in DOMAIN call'.got : h = call'.got[i])
             <=> (\E i \in DOMAIN call.got : h = call.got[i]) \/ h = call.cur
      BY <1>4, <1>5, <1>6
    <2> QED  BY <1>1, <1>2, <1>3, <2>1 DEF CallHolds
  <1>8. HandlesMade'
    <2>1. call.cur \in GemHandles  BY <1>3 DEF LInv, HandlesMade
    <2>2. \A i \in DOMAIN call'.got : call'.got[i] \in GemHandles
      BY <1>4, <1>5, <2>1 DEF LInv, HandlesMade
    <2> QED  BY <1>1, <1>2, <1>3, <2>2 DEF LInv, HandlesMade, GemHandles
  <1>9. SlotsFree'
    <2>1. n = Len(call.got) /\ n \in Nat  BY <1>2 DEF n
    <2> QED  BY <1>1, <1>2, <1>3, <1>4, <2>1 DEF LInv, SlotsFree
  <1> QED  BY <1>1, <1>3, <1>7, <1>8, <1>9, ObjectsFrame

(* The deferred destructions, on every way out of a call: what the call     *)
(* made goes, what the caller holds stays.                                  *)
LEMMA ReleaseObjects ==
    ASSUME IInv, AInv, LInv, ~ Idle, Release, call' = NoCall,
           UNCHANGED <<files, program, buffer>>,
           \A d \in Devices : device'[d].fd = device[d].fd /\ device'[d].ctx = device[d].ctx
    PROVE  LInv'
  <1> DEFINE gone == Handles \cup {<<Fd, call.cur>>}
  <1>1. objs' = objs \ gone /\ maps' = maps \ gone  BY DEF Release
  <1>2. call.dev \in Devices /\ Fd = device[call.dev].fd  BY DEF IInv, CallTracked, Fd
  <1>3. /\ call'.got = <<>> /\ call'.cur = 0 /\ Idle' /\ ~ Making' /\ ~ At("map")'
        /\ call'.op = "none"
    BY DEF NoCall, Call, Idle, Making, At
  <1>4. DOMAIN call'.got = {}  BY <1>3
  <1>5. \A d \in Devices, h \in GemHandles :
           /\ \A p \in Programs : ProgramHolds(p, d, h)' <=> ProgramHolds(p, d, h)
           /\ \A b \in Buffers : BufferHolds(b, d, h)' <=> BufferHolds(b, d, h)
           /\ Holds(d, h)' <=> Holds(d, h)
           /\ ~ CallHolds(d, h)'
    BY <1>3 DEF Holds, ProgramHolds, BufferHolds, CallHolds
  <1>6. \A d \in Devices, h \in GemHandles :
           (Live(d, h)' <=> Holds(d, h)) /\ (Mapped(d, h)' <=> Holds(d, h))
    BY <1>3, <1>5 DEF Live, Mapped
  <1>7. \A d \in Devices, h \in GemHandles :
           Live(d, h) => (<<device[d].fd, h>> \in gone <=> CallHolds(d, h))
    <2> TAKE d \in Devices, h \in GemHandles
    <2> HAVE Live(d, h)
    <2>1. IsOpen(d) /\ IsOpen(call.dev)  BY LiveOpen DEF IInv, CallTracked
    <2>2. \A k : <<device[d].fd, h>> = <<Fd, k>> => d = call.dev /\ h = k
      BY <1>2, <2>1, SameObject
    <2>3. ASSUME <<device[d].fd, h>> \in gone PROVE CallHolds(d, h)
      <3>1. CASE <<device[d].fd, h>> \in Handles
        <4>1. PICK i \in DOMAIN call.got : <<device[d].fd, h>> = <<Fd, call.got[i]>>
          BY <3>1 DEF Handles
        <4> QED  BY <2>2, <4>1 DEF CallHolds
      <3>2. CASE <<device[d].fd, h>> = <<Fd, call.cur>>
        <4>1. d = call.dev /\ h = call.cur /\ h # 0  BY <2>2, <3>2 DEF GemHandles
        <4>2. Making  BY <4>1 DEF LInv, HandlesMade
        <4> QED  BY <4>1, <4>2 DEF CallHolds
      <3> QED  BY <2>3, <3>1, <3>2
    <2>4. ASSUME CallHolds(d, h) PROVE <<device[d].fd, h>> \in gone
      BY <1>2, <2>4 DEF CallHolds, Handles
    <2> QED  BY <2>3, <2>4
  <1>8. \A d \in Devices, h \in GemHandles : CallHolds(d, h) => ~ Holds(d, h)
    BY DEF LInv, OneHolder
  <1>9. GemHandles' = GemHandles  BY DEF GemHandles
  <1> HIDE DEF gone
  <1>10. FilesOwned'  BY DEF LInv, FilesOwned, IsOpen
  <1>11. HandlesMade'  BY <1>3, <1>4, <1>9 DEF LInv, HandlesMade
  <1>12. OneHolder'  BY <1>5, <1>9, HoldersKept DEF LInv
  <1>13. SlotsFree'  BY <1>3 DEF SlotsFree
  <1>14. \A d \in Devices, h \in GemHandles :
            Holds(d, h) => Live(d, h) /\ Mapped(d, h) /\ <<device[d].fd, h>> \notin gone
    <2> TAKE d \in Devices, h \in GemHandles
    <2> HAVE Holds(d, h)
    <2>1. Live(d, h) /\ ~ CallHolds(d, h)  BY <1>8 DEF Live
    <2>2. ASSUME At("map"), d = call.dev, h = call.cur PROVE FALSE
      BY <2>1, <2>2 DEF CallHolds, Making, At
    <2> QED  BY <1>7, <2>1, <2>2 DEF Mapped
  <1>15. \A d \in Devices, h \in GemHandles :
            Live(d, h) /\ <<device[d].fd, h>> \notin gone => Holds(d, h)
    BY <1>7 DEF Live
  <1>16. \A d \in Devices, h \in GemHandles : Mapped(d, h) => Live(d, h)  BY DEF Mapped
  <1>17. ObjectsLive'
    <2>1. \A d \in Devices, h \in GemHandles :
             Live(d, h)' <=> Live(d, h) /\ <<device[d].fd, h>> \notin gone
      BY <1>6, <1>14, <1>15
    <2> QED  BY <1>1, <1>9, <2>1, ObjectsKept DEF LInv
  <1>18. MapsLive'
    <2>1. \A d \in Devices, h \in GemHandles :
             Mapped(d, h)' <=> Mapped(d, h) /\ <<device[d].fd, h>> \notin gone
      BY <1>6, <1>14, <1>15, <1>16
    <2> QED  BY <1>1, <1>9, <2>1, MapsKept DEF LInv
  <1> QED  BY <1>10, <1>11, <1>12, <1>13, <1>17, <1>18 DEF LInv

LEMMA CallEndsObjects ==
    ASSUME IInv, AInv, LInv, GemFails \/ SubmitFails \/ WaitFails \/ ReadFails \/ ReadDone
    PROVE  LInv'
  <1>1. ~ Idle /\ Release /\ call' = NoCall /\ UNCHANGED <<files, program, buffer>>
    BY DEF GemFails, SubmitFails, WaitFails, ReadFails, ReadDone, Fails, At, deviceVars, ownerVars
  <1>2. \A d \in Devices : device'[d].fd = device[d].fd /\ device'[d].ctx = device[d].ctx
    <2>1. device \in [Devices -> DeviceType]  BY DEF IInv, TypeOK
    <2>2. CASE device' = device  BY <2>2
    <2>3. CASE device' = [device EXCEPT ![call.dev].failed = FALSE]  BY <2>1, <2>3 DEF DeviceType
    <2> QED
      BY <2>2, <2>3 DEF GemFails, SubmitFails, WaitFails, ReadFails, ReadDone, Fails, deviceVars
  <1> QED  BY <1>1, <1>2, ReleaseObjects

(* open: nothing belongs to a device that is not open, and its descriptor   *)
(* is none of those in use.                                                 *)
LEMMA OpenObjects ==
    ASSUME IInv, AInv, LInv, NEW d \in Devices, Open(d)
    PROVE  LInv'
  <1>1. PICK fd \in 0 .. MaxOpens :
           /\ fd \notin files /\ files' = files \cup {fd}
           /\ device' = [device EXCEPT ![d] = [fd |-> fd, ctx |-> opens + 1,
                                               failed |-> FALSE, next |-> FirstPage]]
    BY DEF Open, Lowest
  <1>2. UNCHANGED <<objs, maps, program, buffer, call>> /\ ~ IsOpen(d) /\ Idle
    BY DEF Open, objectVars, ownerVars
  <1>3. device'[d].fd = fd /\ \A e \in Devices : e # d => device'[e] = device[e]
    BY <1>1 DEF IInv, TypeOK
  <1>4. \A h \in GemHandles : ~ Live(d, h)  BY <1>2, LiveOpen
  <1>5. \A e \in Devices, h \in GemHandles :
           /\ \A p \in Programs : ProgramHolds(p, e, h)' <=> ProgramHolds(p, e, h)
           /\ \A b \in Buffers : BufferHolds(b, e, h)' <=> BufferHolds(b, e, h)
           /\ Holds(e, h)' <=> Holds(e, h)
           /\ CallHolds(e, h)' <=> CallHolds(e, h)
           /\ Live(e, h)' <=> Live(e, h)
           /\ Mapped(e, h)' <=> Mapped(e, h)
    BY <1>2, HoldsFrame
  <1>6. GemHandles' = GemHandles  BY DEF GemHandles
  <1>7. FilesOwned'
    <2>1. \A e \in Devices : e # d /\ IsOpen(e)' => device[e].fd \in files /\ IsOpen(e)
      BY <1>3 DEF LInv, FilesOwned, IsOpen
    <2>2. \A e \in Devices : IsOpen(e)' => device'[e].fd \in files'
      BY <1>1, <1>3, <2>1
    <2>3. \A e, f \in Devices :
             IsOpen(e)' /\ IsOpen(f)' /\ device'[e].fd = device'[f].fd => e = f
      BY <1>1, <1>3, <2>1 DEF LInv, FilesOwned
    <2> QED  BY <2>2, <2>3 DEF FilesOwned
  <1>8. HandlesMade' /\ SlotsFree'
    BY <1>2 DEF LInv, HandlesMade, SlotsFree, GemHandles, Making, Idle, Owns
  <1>9. OneHolder'  BY <1>5, <1>6, HoldersKept DEF LInv
  <1>10. \A e \in Devices, h \in GemHandles :
            Live(e, h) => device'[e].fd = device[e].fd
    BY <1>3, <1>4
  <1>11. ObjectsLive'  BY <1>2, <1>5, <1>6, <1>10, ObjectsSame DEF LInv
  <1>12. MapsLive'
    <2>1. \A e \in Devices, h \in GemHandles : Mapped(e, h) => Live(e, h)  BY DEF Mapped
    <2> QED  BY <1>2, <1>5, <1>6, <1>10, <2>1, MapsSame DEF LInv
  <1> QED  BY <1>7, <1>8, <1>9, <1>11, <1>12 DEF LInv

(* close of an open device that nothing belongs to any more. *)
LEMMA CloseObjects ==
    ASSUME IInv, AInv, LInv, NEW d \in Devices, Close(d), IsOpen(d)
    PROVE  LInv'
  <1>1. /\ Idle /\ ~ InUse(d) /\ UNCHANGED <<maps, program, buffer, call>>
        /\ files' = files \ {device[d].fd} /\ objs' = {o \in objs : o[1] # device[d].fd}
        /\ device' = [device EXCEPT ![d] = Closed]
    BY DEF Close, ownerVars
  <1>2. device'[d].ctx = 0 /\ \A e \in Devices : e # d => device'[e] = device[e]
    BY <1>1 DEF IInv, TypeOK, Closed
  <1>3. \A h : ~ Live(d, h)
    BY <1>1 DEF Live, Holds, ProgramHolds, BufferHolds, CallHolds, InUse
  <1>4. \A e \in Devices, h \in GemHandles :
           /\ \A p \in Programs : ProgramHolds(p, e, h)' <=> ProgramHolds(p, e, h)
           /\ \A b \in Buffers : BufferHolds(b, e, h)' <=> BufferHolds(b, e, h)
           /\ Holds(e, h)' <=> Holds(e, h)
           /\ CallHolds(e, h)' <=> CallHolds(e, h)
           /\ Live(e, h)' <=> Live(e, h)
           /\ Mapped(e, h)' <=> Mapped(e, h)
    BY <1>1, HoldsFrame
  <1>5. \A e \in Devices, h \in GemHandles :
           Live(e, h) => device'[e].fd = device[e].fd /\ device[e].fd # device[d].fd
    <2> TAKE e \in Devices, h \in GemHandles
    <2> HAVE Live(e, h)
    <2>1. IsOpen(e) /\ e # d  BY <1>3, LiveOpen
    <2> QED  BY <1>2, <2>1 DEF LInv, FilesOwned
  <1>6. objs' = objs
    <2>1. ASSUME NEW o \in objs PROVE o[1] # device[d].fd
      <3>1. PICK e \in Devices, h \in GemHandles : Live(e, h) /\ o = <<device[e].fd, h>>
        BY DEF LInv, ObjectsLive
      <3> QED  BY <1>5, <3>1
    <2> QED  BY <1>1, <2>1
  <1>7. GemHandles' = GemHandles  BY DEF GemHandles
  <1>8. FilesOwned'
    <2>1. \A e \in Devices : IsOpen(e)' => e # d /\ IsOpen(e) /\ device'[e].fd = device[e].fd
      BY <1>2 DEF IsOpen
    <2>2. \A e \in Devices : IsOpen(e)' => device[e].fd \in files /\ device[e].fd # device[d].fd
      BY <2>1 DEF LInv, FilesOwned
    <2>3. \A e, f \in Devices :
             IsOpen(e)' /\ IsOpen(f)' /\ device'[e].fd = device'[f].fd => e = f
      BY <2>1 DEF LInv, FilesOwned
    <2>4. files' = files \ {device[d].fd}  BY <1>1
    <2>5. ASSUME NEW e \in Devices, IsOpen(e)' PROVE device'[e].fd \in files'
      <3>1. device'[e].fd = device[e].fd  BY <2>1, <2>5
      <3>2. device[e].fd \in files /\ device[e].fd # device[d].fd  BY <2>2, <2>5
      <3> QED  BY <2>4, <3>1, <3>2
    <2> QED  BY <2>3, <2>5 DEF FilesOwned
  <1>9. HandlesMade' /\ SlotsFree'
    BY <1>1 DEF LInv, HandlesMade, SlotsFree, GemHandles, Making, Idle, Owns
  <1>10. OneHolder'  BY <1>4, <1>7, HoldersKept DEF LInv
  <1>11. ObjectsLive'  BY <1>4, <1>5, <1>6, <1>7, ObjectsSame DEF LInv
  <1>12. MapsLive'
    <2>1. \A e \in Devices, h \in GemHandles : Mapped(e, h) => Live(e, h)  BY DEF Mapped
    <2> QED  BY <1>1, <1>4, <1>5, <1>7, <2>1, MapsSame DEF LInv
  <1> QED  BY <1>8, <1>9, <1>10, <1>11, <1>12 DEF LInv

(* A finished call hands all it made over to a variable that owned nothing: *)
(* the objects are the same, with another holder.                           *)
LEMMA HandOver ==
    ASSUME IInv, AInv, LInv, ~ Idle, ~ Making, call' = NoCall,
           UNCHANGED <<files, objs, maps>>, HandlesMade', OneHolder',
           \A d \in Devices : device'[d].fd = device[d].fd /\ device'[d].ctx = device[d].ctx,
           \A d \in Devices, h \in GemHandles : Holds(d, h)' <=> Live(d, h)
    PROVE  LInv'
  <1>1. Idle' /\ ~ At("map")' /\ ~ At("map") /\ call'.op = "none"
    BY DEF NoCall, Call, Idle, Making, At
  <1>2. \A d \in Devices, h \in GemHandles :
           (Live(d, h)' <=> Live(d, h)) /\ (Mapped(d, h)' <=> Mapped(d, h))
    BY <1>1 DEF Live, Mapped, CallHolds
  <1>3. GemHandles' = GemHandles  BY DEF GemHandles
  <1>4. FilesOwned'  BY DEF LInv, FilesOwned, IsOpen
  <1>5. SlotsFree'  BY <1>1 DEF SlotsFree
  <1>6. ObjectsLive'  BY <1>2, <1>3, ObjectsSame DEF LInv
  <1>7. MapsLive'  BY <1>2, <1>3, MapsSame DEF LInv
  <1> QED  BY <1>4, <1>5, <1>6, <1>7 DEF LInv

LEMMA FinishFrame ==
    ASSUME IInv, FinishBuffer \/ FinishProgram
    PROVE  /\ ~ Idle /\ ~ Making /\ call' = NoCall /\ UNCHANGED <<files, objs, maps>>
           /\ call.dev \in Devices /\ call.got \in Seq(Nat) /\ Len(call.got) \in Nat
           /\ \A d \in Devices : device'[d].fd = device[d].fd /\ device'[d].ctx = device[d].ctx
  <1>1. ~ Idle /\ ~ Making /\ call' = NoCall /\ UNCHANGED <<files, objs, maps>>
    BY DEF FinishBuffer, FinishProgram, At, Making, objectVars
  <1>2. call.dev \in Devices /\ call.got \in Seq(Nat) /\ Len(call.got) \in Nat
    BY <1>1 DEF IInv, TypeOK, CallTracked, CallType
  <1>3. device \in [Devices -> DeviceType]  BY DEF IInv, TypeOK
  <1>4. \E n : device' = [device EXCEPT ![call.dev].next = n]
    BY DEF FinishBuffer, FinishProgram, Reserve
  <1> QED  BY <1>1, <1>2, <1>3, <1>4 DEF DeviceType

LEMMA FinishBufferObjects ==
    ASSUME IInv, AInv, LInv, FinishBuffer
    PROVE  LInv'
  <1>0. PICK s : s = call.slot  OBVIOUS
  <1>1. /\ ~ Idle /\ ~ Making /\ call' = NoCall /\ UNCHANGED <<files, objs, maps>>
        /\ call.dev \in Devices /\ call.got \in Seq(Nat) /\ Len(call.got) \in Nat
        /\ \A d \in Devices : device'[d].fd = device[d].fd /\ device'[d].ctx = device[d].ctx
    BY FinishFrame
  <1>2. call.op = "buffer" /\ ~ Missing /\ program' = program  BY DEF FinishBuffer
  <1>3. s \in Buffers /\ ~ Owns(buffer[s]) /\ Len(call.got) = 1
    <2>1. ~ (Len(call.got) < Need["buffer"])  BY <1>2 DEF Missing
    <2>2. Need["buffer"] = 1  BY DEF Need
    <2>3. s \in Buffers /\ ~ Owns(buffer[s]) /\ Len(call.got) =< 1
      BY <1>0, <1>2 DEF LInv, SlotsFree
    <2>4. Len(call.got) \in Nat /\ Len(call.got) =< 1  BY <1>1, <2>3
    <2>5. ~ (Len(call.got) < 1)  BY <2>1, <2>2
    <2>6. \A n \in Nat : n =< 1 /\ ~ (n < 1) => n = 1  OBVIOUS
    <2>7. Len(call.got) = 1  BY <2>4, <2>5, <2>6, Zenon
    <2> QED  BY <2>3, <2>7
  <1>4. DOMAIN call.got = {1}  BY <1>1, <1>3
  <1>5. /\ buffer'[s].dev = call.dev /\ buffer'[s].handles = {call.got[1]}
        /\ \A b \in Buffers : b # s => buffer'[b] = buffer[b]
    BY <1>0, <1>3 DEF FinishBuffer, IInv, TypeOK
  <1>6. buffer[s].dev \notin Devices  BY <1>3, GpuAssumption DEF Owns
  <1>7. \A d, h : CallHolds(d, h) <=> d = call.dev /\ h = call.got[1]
    BY <1>1, <1>4 DEF CallHolds
  <1>8. \A d \in Devices, h \in GemHandles :
           /\ \A p \in Programs : ProgramHolds(p, d, h)' <=> ProgramHolds(p, d, h)
           /\ \A b \in Buffers : b # s => (BufferHolds(b, d, h)' <=> BufferHolds(b, d, h))
           /\ BufferHolds(s, d, h)' <=> CallHolds(d, h)
           /\ ~ BufferHolds(s, d, h)
    BY <1>2, <1>5, <1>6, <1>7 DEF ProgramHolds, BufferHolds
  <1>9. \A d \in Devices, h \in GemHandles : Holds(d, h)' <=> Live(d, h)
    BY <1>3, <1>8 DEF Holds, Live
  <1>10. GemHandles' = GemHandles  BY DEF GemHandles
  <1>11. \A d, h : ~ CallHolds(d, h)'  BY <1>1 DEF CallHolds, Idle, NoCall, Call
  <1>12. OneHolder'
    <2>1. \A d \in Devices, h \in GemHandles : CallHolds(d, h) => ~ Holds(d, h)
      BY DEF LInv, OneHolder
    <2>2. \A d \in Devices, h \in GemHandles :
             BufferHolds(s, d, h)' =>
                /\ \A b \in Buffers : b # s => ~ BufferHolds(b, d, h)
                /\ \A p \in Programs : ~ ProgramHolds(p, d, h)
      BY <1>8, <2>1 DEF Holds
    <2> QED  BY <1>8, <1>10, <1>11, <2>2 DEF LInv, OneHolder
  <1>13. HandlesMade'
    <2>1. call.got[1] \in GemHandles  BY <1>4 DEF LInv, HandlesMade
    <2>2. DOMAIN call'.got = {} /\ call'.cur = 0 /\ ~ Making'
    <3>1. call'.op = "none" /\ call'.got = <<>> /\ call'.cur = 0  BY <1>1 DEF NoCall, Call
    <3> QED  BY <3>1 DEF Making, Idle
    <2>3. \A b \in Buffers : buffer'[b].handles \subseteq GemHandles
      BY <1>5, <2>1 DEF LInv, HandlesMade
    <2> QED  BY <1>2, <1>10, <2>2, <2>3 DEF LInv, HandlesMade
  <1> QED  BY <1>1, <1>9, <1>12, <1>13, HandOver

LEMMA FinishProgramObjects ==
    ASSUME IInv, AInv, LInv, FinishProgram
    PROVE  LInv'
  <1>0. PICK s : s = call.slot  OBVIOUS
  <1>1. /\ ~ Idle /\ ~ Making /\ call' = NoCall /\ UNCHANGED <<files, objs, maps>>
        /\ call.dev \in Devices /\ call.got \in Seq(Nat) /\ Len(call.got) \in Nat
        /\ \A d \in Devices : device'[d].fd = device[d].fd /\ device'[d].ctx = device[d].ctx
    BY FinishFrame
  <1>2. call.op = "program" /\ ~ Missing /\ buffer' = buffer  BY DEF FinishProgram
  <1>3. s \in Programs /\ ~ Owns(program[s]) /\ Len(call.got) = 2
    <2>1. ~ (Len(call.got) < Need["program"])  BY <1>2 DEF Missing
    <2>2. Need["program"] = 2  BY DEF Need
    <2>3. s \in Programs /\ ~ Owns(program[s]) /\ Len(call.got) =< 2
      BY <1>0, <1>2 DEF LInv, SlotsFree
    <2>4. Len(call.got) \in Nat /\ Len(call.got) =< 2  BY <1>1, <2>3
    <2>5. ~ (Len(call.got) < 2)  BY <2>1, <2>2
    <2>6. \A n \in Nat : n =< 2 /\ ~ (n < 2) => n = 2  OBVIOUS
    <2>7. Len(call.got) = 2  BY <2>4, <2>5, <2>6, Zenon
    <2> QED  BY <2>3, <2>7
  <1>4. DOMAIN call.got = {1, 2}  BY <1>1, <1>3
  <1>5. /\ program'[s].dev = call.dev /\ program'[s].handles = {call.got[1], call.got[2]}
        /\ \A p \in Programs : p # s => program'[p] = program[p]
    BY <1>0, <1>3 DEF FinishProgram, IInv, TypeOK
  <1>6. program[s].dev \notin Devices  BY <1>3, GpuAssumption DEF Owns
  <1>7. \A d, h : CallHolds(d, h) <=> d = call.dev /\ h \in {call.got[1], call.got[2]}
    BY <1>1, <1>4 DEF CallHolds
  <1>8. \A d \in Devices, h \in GemHandles :
           /\ \A b \in Buffers : BufferHolds(b, d, h)' <=> BufferHolds(b, d, h)
           /\ \A p \in Programs : p # s => (ProgramHolds(p, d, h)' <=> ProgramHolds(p, d, h))
           /\ ProgramHolds(s, d, h)' <=> CallHolds(d, h)
           /\ ~ ProgramHolds(s, d, h)
    BY <1>2, <1>5, <1>6, <1>7 DEF ProgramHolds, BufferHolds
  <1>9. \A d \in Devices, h \in GemHandles : Holds(d, h)' <=> Live(d, h)
    BY <1>3, <1>8 DEF Holds, Live
  <1>10. GemHandles' = GemHandles  BY DEF GemHandles
  <1>11. \A d, h : ~ CallHolds(d, h)'  BY <1>1 DEF CallHolds, Idle, NoCall, Call
  <1>12. OneHolder'
    <2>1. \A d \in Devices, h \in GemHandles : CallHolds(d, h) => ~ Holds(d, h)
      BY DEF LInv, OneHolder
    <2>2. \A d \in Devices, h \in GemHandles :
             ProgramHolds(s, d, h)' =>
                /\ \A p \in Programs : p # s => ~ ProgramHolds(p, d, h)
                /\ \A b \in Buffers : ~ BufferHolds(b, d, h)
      BY <1>8, <2>1 DEF Holds
    <2> QED  BY <1>8, <1>10, <1>11, <2>2 DEF LInv, OneHolder
  <1>13. HandlesMade'
    <2>1. call.got[1] \in GemHandles /\ call.got[2] \in GemHandles
      BY <1>4 DEF LInv, HandlesMade
    <2>2. DOMAIN call'.got = {} /\ call'.cur = 0 /\ ~ Making'
    <3>1. call'.op = "none" /\ call'.got = <<>> /\ call'.cur = 0  BY <1>1 DEF NoCall, Call
    <3> QED  BY <3>1 DEF Making, Idle
    <2>3. \A p \in Programs : program'[p].handles \subseteq GemHandles
      BY <1>5, <2>1 DEF LInv, HandlesMade
    <2> QED  BY <1>2, <1>10, <2>2, <2>3 DEF LInv, HandlesMade
  <1> QED  BY <1>1, <1>9, <1>12, <1>13, HandOver

(* program_destroy and buffer_destroy: `mine' are the objects of the        *)
(* destroyed variable on device d, which no other holder has.               *)
LEMMA GiveUp ==
    ASSUME IInv, AInv, LInv, Idle, UNCHANGED <<files, device, call>>,
           NEW d \in Devices, NEW mine, \A h \in mine : Live(d, h) /\ h \in GemHandles,
           objs' = objs \ {<<device[d].fd, h>> : h \in mine},
           maps' = maps \ {<<device[d].fd, h>> : h \in mine},
           HandlesMade', OneHolder',
           \A e \in Devices, h \in GemHandles :
              Holds(e, h)' <=> Holds(e, h) /\ ~ (e = d /\ h \in mine)
    PROVE  LInv'
  <1>1. Idle' /\ call.op = "none" /\ call'.op = "none"  BY DEF Idle
  <1>2. \A e \in Devices, h \in GemHandles :
           /\ Live(e, h) <=> Holds(e, h)
           /\ Mapped(e, h) <=> Holds(e, h)
           /\ Live(e, h)' <=> Holds(e, h)'
           /\ Mapped(e, h)' <=> Holds(e, h)'
    BY <1>1 DEF Live, Mapped, CallHolds, At
  <1>3. \A e \in Devices, h \in GemHandles :
           Holds(e, h) =>
              (<<device[e].fd, h>> \in {<<device[d].fd, k>> : k \in mine} <=> e = d /\ h \in mine)
    <2> TAKE e \in Devices, h \in GemHandles
    <2> HAVE Holds(e, h)
    <2>1. IsOpen(e)  BY <1>2, LiveOpen
    <2>2. \A k \in mine : IsOpen(d)  BY LiveOpen
    <2>3. \A k \in mine : <<device[e].fd, h>> = <<device[d].fd, k>> => e = d /\ h = k
      BY <2>1, <2>2, SameObject
    <2> QED  BY <2>3
  <1> DEFINE gone == {<<device[d].fd, k>> : k \in mine}
  <1>4. objs' = objs \ gone /\ maps' = maps \ gone  OBVIOUS
  <1>5. \A e \in Devices, h \in GemHandles :
           Holds(e, h)' <=> Holds(e, h) /\ <<device[e].fd, h>> \notin gone
    BY <1>3
  <1> HIDE DEF gone
  <1>6. GemHandles' = GemHandles  BY DEF GemHandles
  <1>7. FilesOwned'  BY DEF LInv, FilesOwned, IsOpen
  <1>8. SlotsFree'  BY <1>1 DEF SlotsFree
  <1>9. ObjectsLive'  BY <1>2, <1>4, <1>5, <1>6, ObjectsKept DEF LInv
  <1>10. MapsLive'  BY <1>2, <1>4, <1>5, <1>6, MapsKept DEF LInv
  <1> QED  BY <1>7, <1>8, <1>9, <1>10 DEF LInv

LEMMA BufferDestroyObjects ==
    ASSUME IInv, AInv, LInv, NEW b \in Buffers, BufferDestroy(b)
    PROVE  LInv'
  <1> DEFINE d == buffer[b].dev
             mine == buffer[b].handles
  <1>1. /\ Idle /\ UNCHANGED <<files, device, call, program>>
        /\ objs' = objs \ {<<device[d].fd, h>> : h \in mine}
        /\ maps' = maps \ {<<device[d].fd, h>> : h \in mine}
    BY DEF BufferDestroy, Destroy, deviceVars
  <1>2. d \in Devices  BY DEF BufferDestroy, Owns, IInv, TypeOK, BufferType
  <1>3. \A h \in mine : BufferHolds(b, d, h) /\ h \in GemHandles
    BY DEF BufferHolds, LInv, HandlesMade
  <1>4. \A h \in mine : Live(d, h) /\ h \in GemHandles  BY <1>3 DEF Live, Holds
  <1>5. /\ buffer'[b].handles = {} /\ \A c \in Buffers : c # b => buffer'[c] = buffer[c]
    BY DEF BufferDestroy, NoBuffer, IInv, TypeOK
  <1>6. \A e \in Devices, h \in GemHandles :
           /\ \A p \in Programs : ProgramHolds(p, e, h)' <=> ProgramHolds(p, e, h)
           /\ \A c \in Buffers : BufferHolds(c, e, h)' <=> BufferHolds(c, e, h) /\ c # b
           /\ BufferHolds(b, e, h) <=> e = d /\ h \in mine
    BY <1>1, <1>5 DEF ProgramHolds, BufferHolds
  <1> HIDE DEF d, mine
  <1>7. \A e \in Devices, h \in GemHandles :
           Holds(e, h)' <=> Holds(e, h) /\ ~ (e = d /\ h \in mine)
    <2>1. \A e \in Devices, h \in GemHandles :
             BufferHolds(b, e, h) => /\ \A c \in Buffers : BufferHolds(c, e, h) => c = b
                                     /\ \A p \in Programs : ~ ProgramHolds(p, e, h)
      BY DEF LInv, OneHolder
    <2> QED  BY <1>6, <2>1 DEF Holds
  <1>8. HandlesMade'
    BY <1>1, <1>5 DEF LInv, HandlesMade, GemHandles, Making, Idle
  <1>9. OneHolder'
    <2>1. \A e, h : ~ CallHolds(e, h)'  BY <1>1 DEF CallHolds, Idle
    <2> QED  BY <1>6, <2>1 DEF LInv, OneHolder, GemHandles
  <1> QED  BY <1>1, <1>2, <1>4, <1>7, <1>8, <1>9, GiveUp

LEMMA ProgramDestroyObjects ==
    ASSUME IInv, AInv, LInv, NEW p \in Programs, ProgramDestroy(p)
    PROVE  LInv'
  <1> DEFINE d == program[p].dev
             mine == program[p].handles
  <1>1. /\ Idle /\ UNCHANGED <<files, device, call, buffer>>
        /\ objs' = objs \ {<<device[d].fd, h>> : h \in mine}
        /\ maps' = maps \ {<<device[d].fd, h>> : h \in mine}
    BY DEF ProgramDestroy, Destroy, deviceVars
  <1>2. d \in Devices  BY DEF ProgramDestroy, Owns, IInv, TypeOK, ProgramType
  <1>3. \A h \in mine : ProgramHolds(p, d, h) /\ h \in GemHandles
    BY DEF ProgramHolds, LInv, HandlesMade
  <1>4. \A h \in mine : Live(d, h) /\ h \in GemHandles  BY <1>3 DEF Live, Holds
  <1>5. /\ program'[p].handles = {} /\ \A q \in Programs : q # p => program'[q] = program[q]
    BY DEF ProgramDestroy, NoProgram, IInv, TypeOK
  <1>6. \A e \in Devices, h \in GemHandles :
           /\ \A b \in Buffers : BufferHolds(b, e, h)' <=> BufferHolds(b, e, h)
           /\ \A q \in Programs : ProgramHolds(q, e, h)' <=> ProgramHolds(q, e, h) /\ q # p
           /\ ProgramHolds(p, e, h) <=> e = d /\ h \in mine
    BY <1>1, <1>5 DEF ProgramHolds, BufferHolds
  <1> HIDE DEF d, mine
  <1>7. \A e \in Devices, h \in GemHandles :
           Holds(e, h)' <=> Holds(e, h) /\ ~ (e = d /\ h \in mine)
    <2>1. \A e \in Devices, h \in GemHandles :
             ProgramHolds(p, e, h) => /\ \A q \in Programs : ProgramHolds(q, e, h) => q = p
                                      /\ \A b \in Buffers : ~ BufferHolds(b, e, h)
      BY DEF LInv, OneHolder
    <2> QED  BY <1>6, <2>1 DEF Holds
  <1>8. HandlesMade'
    BY <1>1, <1>5 DEF LInv, HandlesMade, GemHandles, Making, Idle
  <1>9. OneHolder'
    <2>1. \A e, h : ~ CallHolds(e, h)'  BY <1>1 DEF CallHolds, Idle
    <2> QED  BY <1>6, <2>1 DEF LInv, OneHolder, GemHandles
  <1> QED  BY <1>1, <1>2, <1>4, <1>7, <1>8, <1>9, GiveUp

(* With callers that close no closed device, every step keeps the objects   *)
(* with their holders.                                                      *)
LEMMA NextLInv == ~ RepeatClose /\ IInv /\ AInv /\ LInv /\ [Next]_vars => LInv'
  <1> SUFFICES ASSUME ~ RepeatClose, IInv, AInv, LInv, [Next]_vars PROVE LInv'  OBVIOUS
  <1>1. CASE OpenStep  BY <1>1, OpenObjects DEF OpenStep
  <1>2. CASE CloseStep  BY <1>2, CloseObjects DEF CloseStep, Close
  <1>3. CASE BeginExecuteStep \/ BeginBufferStep \/ BeginProgramStep \/ BeginDispatchStep
    BY <1>3, BeginStepObjects
  <1>4. CASE GemCreate  BY <1>4, CreateObjects
  <1>5. CASE GemMap  BY <1>5, MapObjects
  <1>6. CASE GemSetDomain  BY <1>6, DomainObjects
  <1>7. CASE GemFails \/ SubmitFails \/ WaitFails \/ ReadFails \/ ReadDone
    BY <1>7, CallEndsObjects
  <1>8. CASE FinishBuffer  BY <1>8, FinishBufferObjects
  <1>9. CASE FinishProgram  BY <1>9, FinishProgramObjects
  <1>10. CASE PackExecute \/ PackDispatch \/ Submit \/ WaitDone \/ JobEndsStep \/ UNCHANGED vars
    BY <1>10, QuietObjects
  <1>11. CASE DestroyStep
    BY <1>11, BufferDestroyObjects, ProgramDestroyObjects DEF DestroyStep
  <1> QED
    BY <1>1, <1>2, <1>3, <1>4, <1>5, <1>6, <1>7, <1>8, <1>9, <1>10, <1>11 DEF Next

LEMMA NoLeakFollows == LInv => NoLeak
  <1> SUFFICES ASSUME LInv, Idle
               PROVE  LET held == UNION {{<<device[d].fd, h>> : h \in HandlesOf(d)} : d \in Devices}
                      IN  objs = held /\ maps = held
    BY DEF NoLeak
  <1> DEFINE held == UNION {{<<device[d].fd, h>> : h \in HandlesOf(d)} : d \in Devices}
  <1>1. \A d, h : h \in HandlesOf(d) <=> Holds(d, h)
    BY DEF HandlesOf, Holds, ProgramHolds, BufferHolds
  <1>2. \A d, h : Holds(d, h) => h \in GemHandles
    BY DEF LInv, HandlesMade, Holds, ProgramHolds, BufferHolds
  <1>3. \A d, h : (Live(d, h) <=> Holds(d, h)) /\ (Mapped(d, h) <=> Holds(d, h))
    BY DEF Live, Mapped, CallHolds, At
  <1>4. \A o : o \in held <=> \E d \in Devices, h \in GemHandles :
                                 Holds(d, h) /\ o = <<device[d].fd, h>>
    BY <1>1, <1>2
  <1> HIDE DEF held
  <1>5. objs = held
    <2>1. \A o \in objs : o \in held  BY <1>3, <1>4 DEF LInv, ObjectsLive
    <2>2. \A o \in held : o \in objs  BY <1>3, <1>4 DEF LInv, ObjectsLive
    <2> QED  BY <2>1, <2>2
  <1>6. maps = held
    <2>1. \A o \in maps : o \in held  BY <1>3, <1>4 DEF LInv, MapsLive
    <2>2. \A o \in held : o \in maps  BY <1>3, <1>4 DEF LInv, MapsLive
    <2> QED  BY <2>1, <2>2
  <1> QED  BY <1>5, <1>6 DEF held

(* Between calls the driver has exactly the objects and mappings of the     *)
(* programs and buffers the caller holds, whichever request of a call was   *)
(* refused: nothing leaks and nothing held is released.  Callers do not     *)
(* close a closed device; one that does closes descriptor 0, which a later  *)
(* open is then given.                                                      *)
THEOREM NothingLeaks == ~ RepeatClose /\ Spec => []NoLeak
  <1> SUFFICES ASSUME ~ RepeatClose PROVE Spec => []NoLeak  OBVIOUS
  <1>1. Init => IInv /\ AInv /\ LInv  BY InitIInv, InitAInv, InitLInv
  <1>2. IInv /\ AInv /\ LInv /\ [Next]_vars => IInv' /\ AInv' /\ LInv'
    BY NextIInv, NextAInv, NextLInv
  <1>3. LInv => NoLeak  BY NoLeakFollows
  <1> QED  BY <1>1, <1>2, <1>3, PTL DEF Spec
=============================================================================
