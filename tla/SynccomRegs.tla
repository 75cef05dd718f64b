----------------------------- MODULE SynccomRegs -----------------------------
(* The registers of the adapter and the driver's copies of them: the cache   *)
(* register_storage, nonvolatile_reg and the two firmware revisions (port.c, *)
(* register_completion of isr.c, the default registers of device.c).         *)
(* Commands go out on one USB pipe; a command that asks for a value needs a  *)
(* read request on a second pipe to carry the answer.  The two are sent by   *)
(* two calls, each under request_spinlock, so the sends of two threads       *)
(* interleave.  The threads are                                              *)
(*   - "ioctl": the start of the device (port_new, PrepareHardware), then    *)
(*     the handlers of one sequential queue of ioctls;                       *)
(*   - "data": the data path, which asks for FIFO_FC when packets arrive.    *)
(* register_completion runs for one answer at a time.                        *)
EXTENDS Integers, Sequences, FiniteSets

CONSTANTS
    Offsets,       \* the registers of register_storage considered
    DefaultSlots,  \* those the registry has a value for
    SetChoices,    \* the sets of registers SYNCCOM_SET_REGISTERS may name
    GetChoices,    \* the registers SYNCCOM_GET_REGISTERS may name: no lock is held
                   \* over its loop, so one that names several is several ioctls
    Revisions,     \* the revisions the FX2 firmware of the adapter may have
    RegistryOpens, \* whether the registry key of the device can be opened
    MaxInPipe,     \* bound on the commands not yet executed
    MaxIoctls,     \* bound on the ioctls of the application
    MaxEvents      \* bound on the reads of the data path and the sends that fail

\* defines.h; register_storage keeps FCR in its last place, 4 * 23.
CMDR_OFFSET == 20
FCR_OFFSET  == 32
FIFO_FC_OFFSET == 16
VSTR_OFFSET == 76
MAX_OFFSET  == 88       \* where DPLLR is
FCR_SLOT    == 92
FIRST_NONVOLATILE_VERSION == 272

\* utils.c: FIFO_BC, FIFO_FC, STAR, VSTR and ISR; CMDR.
ReadOnly  == {12, 16, 24, 76, 80}
WriteOnly == {20}

ASSUME RegsAssumption ==
    \* Not the reserved register at 0: register_completion would take its value
    \* for the revision, whose address on the other page is 0 too.
    /\ Offsets \subseteq 1..FCR_SLOT /\ FCR_SLOT \in Offsets
    /\ \A o \in Offsets : o % 4 = 0
    /\ DefaultSlots \subseteq Offsets \ (ReadOnly \cup WriteOnly)
    /\ \A S \in SetChoices : S \subseteq Offsets
    /\ GetChoices \subseteq Offsets
    /\ Revisions \subseteq Nat \ {0}
    /\ RegistryOpens \subseteq BOOLEAN
    /\ MaxInPipe \in Nat
    /\ MaxIoctls \in Nat /\ MaxEvents \in Nat

\* Where a register is in the adapter: the space and the address in it.  The
\* spaces are the two pages of registers (0x80 and 0x00), the non-volatile
\* register and the revision of the FX2 firmware, which have commands of their
\* own and answers of their own size.
Upper(offset) == <<"upper", offset>>
FcrAddress == <<"base", FCR_OFFSET>>
FirmwareAddress == <<"base", 0>>
NonvolatileAddress == <<"nonvolatile", 0>>
Fx2Address == <<"fx2", 0>>
Addresses == {Upper(o) : o \in Offsets \cup {CMDR_OFFSET, FIFO_FC_OFFSET, VSTR_OFFSET}}
             \cup {FcrAddress, FirmwareAddress, NonvolatileAddress, Fx2Address}

\* mutant: the answer is as long as the command that writes the register.
AnswerSizeCommand(at) == CASE at[1] = "nonvolatile" -> 5 [] at[1] = "fx2" -> 2 [] OTHER -> 6

AnswerSize(at) == CASE at[1] = "nonvolatile" -> 4 [] at[1] = "fx2" -> 2 [] OTHER -> 6

\* set_registers writes FCR on its own page; get_registers reads every register
\* on the upper page, FCR too.
SetAddress(offset) == IF offset > MAX_OFFSET THEN FcrAddress ELSE Upper(offset)
GetAddress(offset) == Upper(offset)

\* The value of a register: where it belongs, who chose it (0 the adapter, 1 the
\* registry, 1 + n the n-th ioctl, -1 nobody: all ones), what the lines of the
\* clock chip in FCR do, and, as history, the number of the write that put it
\* there.
Unset == -1
Clocks == {"rest", "low", "bits", "strobe", "ones"}
Values == [at : Addresses, choice : Int, clock : Clocks, stamp : Nat]
Value(at, choice) ==
    [at |-> at, choice |-> choice, clock |-> IF choice = Unset THEN "ones" ELSE "rest", stamp |-> 0]

VARIABLES
    register_storage, nonvolatile_reg, fx2_firmware_rev, fpga_firmware_rev,
    board_settings_spinlock,   \* an ioctl holds it
    phase,      \* of the ioctl thread: the start of the device, then "ready"
    setting,    \* the loop of set_registers: [slots, choice], the ones to go
    script,     \* what each thread still sends before its next statement
    pipe,       \* register commands sent, not yet executed
    posted,     \* the sizes of the read requests waiting for an answer
    answers,    \* answers of the adapter no request has taken
    adapter,    \* the registers of the adapter
    chosen,     \* history: who last chose each register
    got,        \* history: the last SYNCCOM_GET_REGISTERS: [returned, chosen]
    last_nv,    \* history: the last ioctl on the non-volatile register
    lost,       \* history: a command or an answer was lost
    bound       \* counters of the bounded events: [ioctls, events, stamp]

Threads == {"ioctl", "data"}

cacheVars   == <<register_storage, nonvolatile_reg, fx2_firmware_rev, fpga_firmware_rev>>
threadVars  == <<board_settings_spinlock, phase, setting, script>>
historyVars == <<chosen, got, last_nv>>
vars == <<cacheVars, threadVars, pipe, posted, answers, adapter, historyVars, lost, bound>>

----------------------------------------------------------------------------
(* What the threads send: commands, and "post", which puts a read request on *)
(* the second pipe.                                                          *)

Item(op, value) == [op |-> op, value |-> value]

WriteCommand(value) == <<Item("write", value)>>

\* synccom_port_get_register_async, get_nonvolatile, get_fx2_firmware.
ReadCommand(at) == <<Item("read", Value(at, 0)), Item("post", Value(at, 0))>>

\* mutant: the register is read before it is written.
SetOneBackwards(offset, choice) ==
    (IF offset \in WriteOnly THEN <<>> ELSE ReadCommand(SetAddress(offset)))
    \o WriteCommand(Value(SetAddress(offset), choice))

\* set_registers for one register: write it, then read it back.
SetOne(offset, choice) ==
    WriteCommand(Value(SetAddress(offset), choice))
    \o (IF offset \in WriteOnly THEN <<>> ELSE ReadCommand(SetAddress(offset)))

\* mutant: the last write is forgotten.
ClockScriptShort(fcr) == [i \in 1..3 |-> Item("write",
    [fcr EXCEPT !.at = FcrAddress, !.clock = <<"low", "bits", "strobe">>[i]])]

\* set_clock_bits: the lines low, 160 bits, the strobe, and the original value.
ClockScript(fcr) == [i \in 1..4 |-> Item("write",
    [fcr EXCEPT !.at = FcrAddress, !.clock = <<"low", "bits", "strobe", fcr.clock>>[i]])]

NoSetting == [slots |-> {}, choice |-> 0]

Init ==
    /\ register_storage = [o \in Offsets |-> Value(SetAddress(o), 0)]
    /\ nonvolatile_reg = 0 /\ fx2_firmware_rev = 0
    /\ fpga_firmware_rev = Value(FirmwareAddress, 0)
    /\ board_settings_spinlock = FALSE
    /\ phase = "new" /\ setting = NoSetting
    /\ script = [t \in Threads |-> IF t = "ioctl" THEN ReadCommand(Fx2Address) ELSE <<>>]
    /\ pipe = <<>> /\ posted = <<>> /\ answers = <<>>
    /\ \E revision \in Revisions :
          adapter = [at \in Addresses |-> Value(at, IF at = Fx2Address THEN revision ELSE 0)]
    /\ chosen = [o \in Offsets |-> 0]
    /\ got = [returned |-> 0, chosen |-> 0] /\ last_nv = "none"
    /\ lost = FALSE
    /\ bound = [ioctls |-> 0, events |-> 0, stamp |-> 0]

----------------------------------------------------------------------------
(* Sending.  A write that is sent gets the next number.                      *)

HasRoom == Len(pipe) < MaxInPipe

Stamped(item) ==
    IF item.op = "write" THEN [item EXCEPT !.value.stamp = bound.stamp + 1] ELSE item

Send(thread) ==
    /\ script[thread] # <<>>
    /\ LET item == Head(script[thread])
       IN  IF item.op = "post"
           THEN /\ posted' = Append(posted, AnswerSize(item.value.at))
                /\ UNCHANGED <<pipe, bound>>
           ELSE /\ HasRoom
                /\ pipe' = Append(pipe, Stamped(item))
                /\ bound' = IF item.op = "write" THEN [bound EXCEPT !.stamp = @ + 1] ELSE bound
                /\ UNCHANGED posted
    /\ script' = [script EXCEPT ![thread] = Tail(@)]
    /\ UNCHANGED <<cacheVars, board_settings_spinlock, phase, setting, answers, adapter,
                   historyVars, lost>>

\* mutant: the read request is sent all the same.
AfterFailurePost(items) == Tail(items)

\* What is left when the first send fails: the callee returns, so a command
\* that fails is not followed by its read request.
AfterFailure(items) ==
    IF Head(items).op = "read" THEN SubSeq(items, 3, Len(items)) ELSE Tail(items)

SendFails(thread) ==
    /\ script[thread] # <<>> /\ bound.events < MaxEvents
    /\ bound' = [bound EXCEPT !.events = @ + 1]
    /\ script' = [script EXCEPT ![thread] = AfterFailure(@)]
    /\ lost' = TRUE
    /\ UNCHANGED <<cacheVars, board_settings_spinlock, phase, setting, pipe, posted, answers,
                   adapter, historyVars>>

\* The next turn of the loop of set_registers.
SetNext ==
    /\ script["ioctl"] = <<>>
    /\ \E o \in setting.slots :
          /\ \A p \in setting.slots : o <= p
          /\ setting' = [setting EXCEPT !.slots = @ \ {o}]
          /\ script' = [script EXCEPT !["ioctl"] = SetOne(o, setting.choice)]
    /\ UNCHANGED <<cacheVars, board_settings_spinlock, phase, pipe, posted, answers, adapter,
                   historyVars, lost, bound>>

----------------------------------------------------------------------------
(* The start: port_new reads the revision of the FX2 firmware, then          *)
(* PrepareHardware sets the registers, the clock, resets both directions and *)
(* reads the revision of the adapter and its non-volatile register.          *)

Done == script["ioctl"] = <<>> /\ setting.slots = {} /\ ~board_settings_spinlock

StartUnchanged == UNCHANGED <<nonvolatile_reg, fx2_firmware_rev, fpga_firmware_rev, pipe, posted,
                              answers, adapter, got, lost, bound>>

\* synccom_port_setget_default_registers: when the key cannot be opened every
\* register is left at -1, which set_registers skips.
StartDefaults ==
    /\ phase = "new" /\ Done
    /\ phase' = "defaults"
    /\ \E opens \in RegistryOpens :
          LET slots == IF opens THEN DefaultSlots ELSE {}
          IN  /\ register_storage' = [o \in Offsets |->
                     Value(SetAddress(o), IF o \in slots THEN 1 ELSE Unset)]
              /\ setting' = [slots |-> slots, choice |-> 1]
              /\ chosen' = [o \in Offsets |-> IF o \in slots THEN 1 ELSE chosen[o]]
    /\ UNCHANGED <<board_settings_spinlock, script, last_nv>> /\ StartUnchanged

StartClock ==
    /\ phase = "defaults" /\ Done
    /\ phase' = "clock"
    /\ board_settings_spinlock' = TRUE
    /\ script' = [script EXCEPT !["ioctl"] = ClockScript(register_storage[FCR_SLOT])]
    /\ UNCHANGED <<register_storage, setting, chosen, last_nv>> /\ StartUnchanged

\* synccom_port_purge_rx and synccom_port_purge_tx send a reset each.
StartIdentify ==
    /\ phase = "clock" /\ Done
    /\ phase' = "identify"
    /\ script' = [script EXCEPT !["ioctl"] =
                     WriteCommand(Value(Upper(CMDR_OFFSET), 1))
                     \o WriteCommand(Value(Upper(CMDR_OFFSET), 1))
                     \o ReadCommand(Upper(VSTR_OFFSET)) \o ReadCommand(FirmwareAddress)]
    /\ UNCHANGED <<register_storage, board_settings_spinlock, setting, chosen, last_nv>>
    /\ StartUnchanged

CanSupportAlways == TRUE       \* mutant: the revision is not looked at
\* synccom_port_can_support_nonvolatile.
CanSupportNonvolatile == fx2_firmware_rev >= FIRST_NONVOLATILE_VERSION

StartNonvolatile ==
    /\ phase = "identify" /\ Done
    /\ phase' = "ready"
    /\ IF CanSupportNonvolatile
       THEN /\ script' = [script EXCEPT !["ioctl"] = ReadCommand(NonvolatileAddress)]
            /\ last_nv' = "get"
       ELSE UNCHANGED <<script, last_nv>>
    /\ UNCHANGED <<register_storage, board_settings_spinlock, setting, chosen>> /\ StartUnchanged

Start == StartDefaults \/ StartClock \/ StartIdentify \/ StartNonvolatile

----------------------------------------------------------------------------
(* The ioctls. *)

Ioctl ==
    /\ phase = "ready" /\ Done /\ bound.ioctls < MaxIoctls
    /\ bound' = [bound EXCEPT !.ioctls = @ + 1]
    /\ UNCHANGED <<fx2_firmware_rev, fpga_firmware_rev, phase, posted, answers, adapter>>

Choice == bound.ioctls + 2

\* mutant: the cache takes the new values at once.
SetRegistersCaching ==
    /\ Ioctl
    /\ board_settings_spinlock' = TRUE
    /\ \E S \in SetChoices :
          LET slots == S \ ReadOnly
          IN  /\ setting' = [slots |-> slots, choice |-> Choice]
              /\ chosen' = [o \in Offsets |-> IF o \in slots THEN Choice ELSE chosen[o]]
              /\ register_storage' = [o \in Offsets |->
                     IF o \in slots
                     THEN [Value(SetAddress(o), Choice) EXCEPT !.stamp = bound.stamp + 1]
                     ELSE register_storage[o]]
    /\ UNCHANGED <<nonvolatile_reg, script, pipe, got, last_nv, lost>>

\* SYNCCOM_SET_REGISTERS: the lock is held over the loop.
SetRegisters ==
    /\ Ioctl
    /\ board_settings_spinlock' = TRUE
    /\ \E S \in SetChoices :
          LET slots == S \ ReadOnly
          IN  /\ setting' = [slots |-> slots, choice |-> Choice]
              /\ chosen' = [o \in Offsets |-> IF o \in slots THEN Choice ELSE chosen[o]]
    /\ UNCHANGED <<register_storage, nonvolatile_reg, script, pipe, got, last_nv, lost>>

\* SYNCCOM_GET_REGISTERS copies the cache, then asks the adapter.
GetRegisters ==
    /\ Ioctl
    /\ \E o \in GetChoices \ WriteOnly :
          /\ got' = [returned |-> register_storage[o].choice, chosen |-> chosen[o]]
          /\ script' = [script EXCEPT !["ioctl"] = ReadCommand(GetAddress(o))]
    /\ UNCHANGED <<register_storage, nonvolatile_reg, board_settings_spinlock, setting, pipe,
                   chosen, last_nv, lost>>

\* SYNCCOM_SET_CLOCK_BITS: the lock is held until the last write is sent.
SetClockBits ==
    /\ Ioctl
    /\ board_settings_spinlock' = TRUE
    /\ script' = [script EXCEPT !["ioctl"] = ClockScript(register_storage[FCR_SLOT])]
    /\ UNCHANGED <<register_storage, nonvolatile_reg, setting, pipe, historyVars, lost>>

\* SYNCCOM_SET_NONVOLATILE: nonvolatile_reg takes the value once it is sent; a
\* send that fails changes nothing.
SetNonvolatile ==
    /\ Ioctl /\ CanSupportNonvolatile /\ HasRoom
    /\ pipe' = Append(pipe, Item("write", Value(NonvolatileAddress, Choice)))
    /\ nonvolatile_reg' = Choice
    /\ last_nv' = "set"
    /\ UNCHANGED <<register_storage, board_settings_spinlock, setting, script, chosen, got, lost>>

\* mutant: a value the driver knows is not asked for again.
GetNonvolatileOnce ==
    /\ Ioctl /\ CanSupportNonvolatile
    /\ script' = IF nonvolatile_reg # 0 THEN script
                 ELSE [script EXCEPT !["ioctl"] = ReadCommand(NonvolatileAddress)]
    /\ last_nv' = "get"
    /\ UNCHANGED <<register_storage, nonvolatile_reg, board_settings_spinlock, setting, pipe,
                   chosen, got, lost>>

\* SYNCCOM_GET_NONVOLATILE asks, and returns nonvolatile_reg as it is.
GetNonvolatile ==
    /\ Ioctl /\ CanSupportNonvolatile
    /\ script' = [script EXCEPT !["ioctl"] = ReadCommand(NonvolatileAddress)]
    /\ last_nv' = "get"
    /\ UNCHANGED <<register_storage, nonvolatile_reg, board_settings_spinlock, setting, pipe,
                   chosen, got, lost>>

\* SYNCCOM_REPROGRAM: a line of firmware goes down the same pipe.
Reprogram ==
    /\ Ioctl /\ HasRoom
    /\ pipe' = Append(pipe, Item("program", Value(FirmwareAddress, 0)))
    /\ UNCHANGED <<register_storage, nonvolatile_reg, board_settings_spinlock, setting, script,
                   historyVars, lost>>

HandleIoctl == SetRegisters \/ GetRegisters \/ SetClockBits \/ SetNonvolatile
               \/ GetNonvolatile \/ Reprogram

\* The handler is done with board_settings_spinlock.
Release ==
    /\ board_settings_spinlock /\ script["ioctl"] = <<>> /\ setting.slots = {}
    /\ board_settings_spinlock' = FALSE
    /\ UNCHANGED <<cacheVars, phase, setting, script, pipe, posted, answers, adapter, historyVars,
                   lost, bound>>

\* The data path: a packet makes it ask for FIFO_FC.
DataRead ==
    /\ phase = "ready" /\ script["data"] = <<>> /\ bound.events < MaxEvents
    /\ bound' = [bound EXCEPT !.events = @ + 1]
    /\ script' = [script EXCEPT !["data"] = ReadCommand(Upper(FIFO_FC_OFFSET))]
    /\ UNCHANGED <<cacheVars, board_settings_spinlock, phase, setting, pipe, posted, answers,
                   adapter, historyVars, lost>>

----------------------------------------------------------------------------
(* The adapter executes commands in order; register_completion.              *)

Execute ==
    /\ pipe # <<>>
    /\ pipe' = Tail(pipe)
    /\ LET command == Head(pipe)
           at == command.value.at
       IN  /\ adapter' = IF command.op = "write" THEN [adapter EXCEPT ![at] = command.value]
                         ELSE adapter
           /\ answers' = IF command.op = "read" THEN Append(answers, adapter[at]) ELSE answers
    /\ UNCHANGED <<cacheVars, threadVars, posted, historyVars, lost, bound>>

\* The answer and the request at the head of their queues meet.
Meet == /\ answers # <<>> /\ posted # <<>>
        /\ answers' = Tail(answers) /\ posted' = Tail(posted)
        /\ UNCHANGED <<threadVars, pipe, adapter, historyVars, bound>>

Size == AnswerSize(Head(answers).at)

\* An answer longer than the request makes the read fail and is dropped.
CompletionError ==
    /\ Meet /\ Size > Head(posted)
    /\ lost' = TRUE
    /\ UNCHANGED cacheVars

CompletionNonvolatile ==
    /\ Meet /\ Size <= Head(posted) /\ Size = 4
    /\ nonvolatile_reg' = Head(answers).choice
    /\ UNCHANGED <<register_storage, fx2_firmware_rev, fpga_firmware_rev, lost>>

CompletionFx2 ==
    /\ Meet /\ Size <= Head(posted) /\ Size = 2
    /\ fx2_firmware_rev' = Head(answers).choice
    /\ UNCHANGED <<register_storage, nonvolatile_reg, fpga_firmware_rev, lost>>

\* The places of the cache an answer goes to.
CachedAtUnpaged(o, at) ==      \* mutant: the page is not looked at
    (at[2] < MAX_OFFSET /\ o = at[2]) \/ (at[2] = FCR_OFFSET /\ o = FCR_SLOT)
CachedAt(o, at) ==
    \/ at[1] = "upper" /\ at[2] < MAX_OFFSET /\ o = at[2]
    \/ at = FcrAddress /\ o = FCR_SLOT

\* The update waits for board_settings_spinlock.
CompletionRegister ==
    /\ Meet /\ Size <= Head(posted) /\ Size = 6
    /\ ~board_settings_spinlock
    /\ LET value == Head(answers)
       IN  /\ register_storage' = [o \in Offsets |->
                  IF CachedAt(o, value.at) THEN value ELSE register_storage[o]]
           /\ fpga_firmware_rev' = IF value.at[2] = 0 THEN value ELSE fpga_firmware_rev
    /\ UNCHANGED <<nonvolatile_reg, fx2_firmware_rev, lost>>

Completion == CompletionError \/ CompletionNonvolatile \/ CompletionFx2 \/ CompletionRegister

----------------------------------------------------------------------------
IoctlStep == Send("ioctl") \/ SetNext \/ Start \/ Release

Next ==
    \/ IoctlStep \/ HandleIoctl
    \/ DataRead \/ Send("data")
    \/ SendFails("ioctl") \/ SendFails("data")
    \/ Execute \/ Completion

Spec == Init /\ [][Next]_vars

(* Fairness: a thread that runs goes on, the adapter executes what it gets,  *)
(* completions run.  Ioctls and packets need not come.                       *)
FairSpec == Spec /\ WF_vars(IoctlStep) /\ WF_vars(Send("data"))
                 /\ WF_vars(Execute) /\ WF_vars(Completion)

----------------------------------------------------------------------------
(* Properties. *)

Items == [op : {"write", "read", "post", "program"}, value : Values]

TypeOK ==
    /\ register_storage \in [Offsets -> Values]
    /\ nonvolatile_reg \in Int /\ fx2_firmware_rev \in Int /\ fpga_firmware_rev \in Values
    /\ board_settings_spinlock \in BOOLEAN
    /\ phase \in {"new", "defaults", "clock", "identify", "ready"}
    /\ setting \in [slots : SUBSET Offsets, choice : Nat]
    /\ script \in [Threads -> Seq(Items)]
    /\ pipe \in Seq(Items) /\ posted \in Seq({2, 4, 6}) /\ answers \in Seq(Values)
    /\ adapter \in [Addresses -> Values]
    /\ chosen \in [Offsets -> Int] /\ got \in [returned : Int, chosen : Int]
    /\ last_nv \in {"none", "set", "get"}
    /\ lost \in BOOLEAN
    /\ bound \in [ioctls : Nat, events : Nat, stamp : Nat]

\* Each copy is a value of its own register, whatever answers arrive for whom:
\* FCR and CCR1 are both at 0x20, and an answer does not say who asked.
CacheTrue ==
    /\ \A o \in Offsets : register_storage[o].at = SetAddress(o)
    /\ fpga_firmware_rev.at = FirmwareAddress

\* The cache never goes back: what it holds of a register is never replaced by
\* the result of an earlier write of it.
ReadsForward == [][\A o \in Offsets :
                      register_storage'[o].stamp >= register_storage[o].stamp]_vars

Quiet == /\ phase = "ready" /\ Done /\ script["data"] = <<>>
         /\ pipe = <<>> /\ posted = <<>> /\ answers = <<>>

\* Once everything sent has been answered and nothing was lost, each register
\* the driver sets holds what was last chosen for it, and so does its place in
\* the cache.  Not FCR, which SET_CLOCK_BITS may put back, and not the copy of
\* DPLLR, which is not refreshed.
SettingsApplied ==
    Quiet /\ ~lost => \A o \in Offsets \ (ReadOnly \cup WriteOnly \cup {FCR_SLOT}) :
        /\ adapter[SetAddress(o)].choice = chosen[o]
        /\ o # MAX_OFFSET /\ chosen[o] # 0 => register_storage[o].choice = chosen[o]

\* Programming the clock leaves the lines of its chip alone afterwards, and a
\* read of FCR never catches them in the middle, while nothing is lost: after
\* two failed sends, of the last write and of the next write of FCR, it would.
ClockLeftIdle ==
    ~lost => /\ Quiet => adapter[FcrAddress].clock = "rest"
             /\ register_storage[FCR_SLOT].clock \in {"rest", "ones"}

\* An adapter whose firmware has no non-volatile register is never asked for
\* it, although its revision is itself an answer that may be late or lost.
NvSupported ==
    \A i \in DOMAIN pipe : pipe[i].value.at = NonvolatileAddress =>
        adapter[Fx2Address].choice >= FIRST_NONVOLATILE_VERSION

\* When the last ioctl on it was a read, nonvolatile_reg ends as the adapter's.
NvSettles ==
    Quiet /\ ~lost /\ last_nv = "get" => nonvolatile_reg = adapter[NonvolatileAddress].choice

\* Every read request is completed, whatever fails and whoever holds the lock
\* that the completion waits for.
ReadsComplete == (posted # <<>>) ~> (posted = <<>>)

\* ChangeLog.md, 1.2.5: "Fixed FCR getting overwritten when updating the clock."
FcrAsSet == Quiet /\ ~lost => adapter[FcrAddress].choice = chosen[FCR_SLOT]

\* docs/registers.md, of SYNCCOM_GET_REGISTERS: the registers asked for "would be
\* set to their respective values".
GetReturnsRegister == got.returned = got.chosen

=============================================================================
