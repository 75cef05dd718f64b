-------------------------- MODULE SynccomRegs_proofs --------------------------
(* What holds of SynccomRegs for every value of its constants: its type      *)
(* invariant, that the cache mixes up no registers and never goes back, that *)
(* the non-volatile register is asked for only where there is one, that the  *)
(* last choice for each register and the value of the non-volatile register  *)
(* are what the adapter and the driver's copies settle at, and that the      *)
(* lines of the clock chip are left alone.                                   *)
EXTENDS SynccomRegs, SequenceTheorems, TLAPS

Supported == adapter[Fx2Address].choice >= FIRST_NONVOLATILE_VERSION

\* A command of the driver is not a write of the firmware's revision, and is
\* about the non-volatile register only if there is one.
Asks(item) == /\ item.op = "write" => item.value.at # Fx2Address
              /\ item.value.at = NonvolatileAddress => Supported

AdapterTrue == \A at \in Addresses : adapter[at].at = at
ScriptsAsk  == \A t \in Threads : \A i \in DOMAIN script[t] : Asks(script[t][i])
PipeAsks    == \A i \in DOMAIN pipe : Asks(pipe[i])
AnswersTrue == \A i \in DOMAIN answers :
    answers[i].at = Fx2Address => answers[i].choice = adapter[Fx2Address].choice

\* The revision the driver has is the adapter's, or none yet.
RevisionTrue ==
    /\ AdapterTrue /\ ScriptsAsk /\ PipeAsks /\ AnswersTrue
    /\ fx2_firmware_rev \in {0, adapter[Fx2Address].choice}

Registers == Addresses \ {NonvolatileAddress}

\* A write of a register that is on its way.
Writes(item) == item.op = "write" /\ item.value.at \in Registers

\* Nothing has been written before the registers get their default values.
NothingWritten ==
    phase = "new" => /\ bound.stamp = 0 /\ setting.slots = {}
                     /\ \A t \in Threads : \A i \in DOMAIN script[t] : script[t][i].op # "write"

\* The writes are numbered in the order they are sent, executed and answered.
WritesOrdered ==
    /\ \A at \in Registers : adapter[at].stamp <= bound.stamp
    /\ \A i \in DOMAIN pipe : Writes(pipe[i]) =>
          /\ pipe[i].value.stamp <= bound.stamp
          /\ \A at \in Registers : adapter[at].stamp <= pipe[i].value.stamp
          /\ \A j \in DOMAIN pipe :
                i < j /\ Writes(pipe[j]) => pipe[i].value.stamp <= pipe[j].value.stamp

\* So are the answers about one register, which are not behind the cache.
AnswersOrdered ==
    /\ \A i \in DOMAIN answers : answers[i].at \in Registers =>
          /\ answers[i].stamp <= adapter[answers[i].at].stamp
          /\ \A j \in DOMAIN answers :
                i < j /\ answers[j].at = answers[i].at => answers[i].stamp <= answers[j].stamp
          /\ \A o \in Offsets :
                answers[i].at = SetAddress(o) => register_storage[o].stamp <= answers[i].stamp
    /\ \A o \in Offsets : register_storage[o].stamp <= adapter[SetAddress(o)].stamp

OrderInv == NothingWritten /\ WritesOrdered /\ AnswersOrdered

----------------------------------------------------------------------------
(* What the operators return. *)

LEMMA AddressFacts ==
    ASSUME RegsAssumption
    PROVE  /\ \A o \in Offsets : SetAddress(o) \in Registers /\ GetAddress(o) \in Registers
           /\ \A o \in Offsets : SetAddress(o) # Fx2Address
           /\ Upper(CMDR_OFFSET) \in Registers /\ Upper(VSTR_OFFSET) \in Registers
           /\ Upper(FIFO_FC_OFFSET) \in Registers
           /\ FcrAddress \in Registers /\ FirmwareAddress \in Registers
           /\ NonvolatileAddress \in Addresses /\ Fx2Address \in Registers
           /\ Upper(CMDR_OFFSET) # Fx2Address /\ FcrAddress # Fx2Address
           /\ NonvolatileAddress # Fx2Address
<1>1. \A o : Upper(o) # Fx2Address /\ Upper(o) # NonvolatileAddress
  BY DEF Upper, Fx2Address, NonvolatileAddress
<1>2. /\ FcrAddress # Fx2Address /\ FcrAddress # NonvolatileAddress
      /\ FirmwareAddress # NonvolatileAddress /\ NonvolatileAddress # Fx2Address
  BY DEF FcrAddress, Fx2Address, NonvolatileAddress, FirmwareAddress
<1>3. /\ \A o \in Offsets : Upper(o) \in Addresses
      /\ Upper(CMDR_OFFSET) \in Addresses /\ Upper(VSTR_OFFSET) \in Addresses
      /\ Upper(FIFO_FC_OFFSET) \in Addresses
      /\ FcrAddress \in Addresses /\ FirmwareAddress \in Addresses
      /\ NonvolatileAddress \in Addresses /\ Fx2Address \in Addresses
  BY DEF Addresses
<1> QED
  BY <1>1, <1>2, <1>3 DEF Registers, SetAddress, GetAddress

LEMMA AnswerSizeFacts ==
    ASSUME NEW at \in Addresses
    PROVE  AnswerSize(at) \in {2, 4, 6}
BY DEF AnswerSize

LEMMA ValueFacts ==
    ASSUME NEW at \in Addresses, NEW choice \in Int
    PROVE  Value(at, choice) \in Values /\ Value(at, choice).at = at /\ Value(at, choice).stamp = 0
BY DEF Value, Values, Clocks

LEMMA ItemFacts ==
    ASSUME NEW op \in {"write", "read", "post", "program"}, NEW value \in Values
    PROVE  /\ Item(op, value) \in Items
           /\ Item(op, value).op = op /\ Item(op, value).value = value
BY DEF Item, Items

LEMMA WriteCommandFacts ==
    ASSUME NEW value \in Values
    PROVE  /\ WriteCommand(value) \in Seq(Items)
           /\ Len(WriteCommand(value)) = 1
           /\ WriteCommand(value)[1] = Item("write", value)
BY ItemFacts DEF WriteCommand

LEMMA ReadCommandFacts ==
    ASSUME NEW at \in Addresses
    PROVE  /\ ReadCommand(at) \in Seq(Items)
           /\ Len(ReadCommand(at)) = 2
           /\ ReadCommand(at)[1] = Item("read", Value(at, 0))
           /\ ReadCommand(at)[2] = Item("post", Value(at, 0))
<1>1. Item("read", Value(at, 0)) \in Items /\ Item("post", Value(at, 0)) \in Items
  BY ValueFacts, ItemFacts
<1> QED
  BY <1>1 DEF ReadCommand

\* What a script of the driver may hold: items about addresses, whose writes are
\* of registers.
ScriptFor(items, Allowed) ==
    /\ items \in Seq(Items)
    /\ \A i \in DOMAIN items :
          /\ items[i].value.at \in Allowed
          /\ items[i].op = "write" => items[i].value.at \in Registers \ {Fx2Address}

LEMMA ScriptConcat ==
    ASSUME NEW s, NEW t, NEW Allowed, ScriptFor(s, Allowed), ScriptFor(t, Allowed)
    PROVE  ScriptFor(s \o t, Allowed)
<1>1. s \in Seq(Items) /\ t \in Seq(Items) /\ s \o t \in Seq(Items)
  BY DEF ScriptFor
<1>2. ASSUME NEW i \in DOMAIN (s \o t)
      PROVE  \/ i \in DOMAIN s /\ (s \o t)[i] = s[i]
             \/ i - Len(s) \in DOMAIN t /\ (s \o t)[i] = t[i - Len(s)]
  BY <1>1
<1> QED
  BY <1>1, <1>2 DEF ScriptFor

LEMMA ReadScript ==
    ASSUME NEW at \in Addresses, NEW Allowed, at \in Allowed
    PROVE  ScriptFor(ReadCommand(at), Allowed)
<1>1. \A i \in DOMAIN ReadCommand(at) :
         /\ ReadCommand(at)[i].value.at = at
         /\ ReadCommand(at)[i].op # "write"
  <2>1. Item("read", Value(at, 0)).value.at = at /\ Item("read", Value(at, 0)).op = "read"
    BY ValueFacts, ItemFacts
  <2>2. Item("post", Value(at, 0)).value.at = at /\ Item("post", Value(at, 0)).op = "post"
    BY ValueFacts, ItemFacts
  <2>3. DOMAIN ReadCommand(at) = {1, 2}
    BY ReadCommandFacts
  <2> QED
    BY <2>1, <2>2, <2>3, ReadCommandFacts
<1> QED
  BY <1>1, ReadCommandFacts DEF ScriptFor

LEMMA WriteScript ==
    ASSUME NEW at \in Registers \ {Fx2Address}, NEW choice \in Int, NEW Allowed, at \in Allowed
    PROVE  ScriptFor(WriteCommand(Value(at, choice)), Allowed)
<1>1. at \in Addresses
  BY DEF Registers
<1>2. Value(at, choice) \in Values /\ Value(at, choice).at = at
  BY <1>1, ValueFacts
<1>3. DOMAIN WriteCommand(Value(at, choice)) = {1}
  BY <1>2, WriteCommandFacts
<1>4. WriteCommand(Value(at, choice))[1].value.at = at
  BY <1>2, WriteCommandFacts, ItemFacts
<1> QED
  BY <1>2, <1>3, <1>4, WriteCommandFacts DEF ScriptFor

LEMMA SetOneScript ==
    ASSUME RegsAssumption, NEW o \in Offsets, NEW choice \in Int
    PROVE  ScriptFor(SetOne(o, choice), Registers)
<1>1. SetAddress(o) \in Registers \ {Fx2Address} /\ SetAddress(o) \in Addresses
  BY AddressFacts DEF Registers
<1>2. ScriptFor(WriteCommand(Value(SetAddress(o), choice)), Registers)
  BY <1>1, WriteScript
<1>3. ScriptFor(ReadCommand(SetAddress(o)), Registers)
  BY <1>1, ReadScript
<1>4. ScriptFor(<<>>, Registers)
  BY DEF ScriptFor
<1> QED
  BY <1>2, <1>3, <1>4, ScriptConcat DEF SetOne

LEMMA ClockItem ==
    ASSUME NEW fcr \in Values, NEW i \in 1..4
    PROVE  LET value == [fcr EXCEPT !.at = FcrAddress,
                                    !.clock = <<"low", "bits", "strobe", fcr.clock>>[i]]
           IN  value \in Values /\ value.at = FcrAddress
<1>1. <<"low", "bits", "strobe", fcr.clock>>[i] \in Clocks
  <2>1. fcr.clock \in Clocks
    BY DEF Values
  <2>2. i = 1 \/ i = 2 \/ i = 3 \/ i = 4
    OBVIOUS
  <2> QED
    BY <2>1, <2>2 DEF Clocks
<1>2. FcrAddress \in Addresses
  BY DEF Addresses
<1> DEFINE c == <<"low", "bits", "strobe", fcr.clock>>[i]
<1>3. c \in Clocks
  BY <1>1
<1> HIDE DEF c
<1>4. /\ [fcr EXCEPT !.at = FcrAddress, !.clock = c] \in Values
      /\ [fcr EXCEPT !.at = FcrAddress, !.clock = c].at = FcrAddress
  BY <1>2, <1>3 DEF Values
<1> QED
  BY <1>4 DEF c

LEMMA ClockScriptFacts ==
    ASSUME RegsAssumption, NEW fcr \in Values
    PROVE  ScriptFor(ClockScript(fcr), Registers)
<1> DEFINE value(i) == [fcr EXCEPT !.at = FcrAddress,
                                   !.clock = <<"low", "bits", "strobe", fcr.clock>>[i]]
<1>1. \A i \in 1..4 : value(i) \in Values /\ value(i).at = FcrAddress
  BY ClockItem
<1>2. ClockScript(fcr) = [i \in 1..4 |-> Item("write", value(i))]
  BY DEF ClockScript
<1> HIDE DEF value
<1>3. \A i \in 1..4 : Item("write", value(i)) \in Items /\ Item("write", value(i)).value.at = FcrAddress
  BY <1>1, ItemFacts
<1>4. ClockScript(fcr) \in Seq(Items) /\ DOMAIN ClockScript(fcr) = 1..4
  BY <1>2, <1>3
<1>5. FcrAddress \in Registers \ {Fx2Address}
  BY AddressFacts
<1> QED
  BY <1>2, <1>3, <1>4, <1>5 DEF ScriptFor

LEMMA IdentifyScript ==
    ASSUME RegsAssumption
    PROVE  ScriptFor(WriteCommand(Value(Upper(CMDR_OFFSET), 1))
                     \o WriteCommand(Value(Upper(CMDR_OFFSET), 1))
                     \o ReadCommand(Upper(VSTR_OFFSET)) \o ReadCommand(FirmwareAddress), Registers)
<1>1. /\ Upper(CMDR_OFFSET) \in Registers \ {Fx2Address}
      /\ Upper(VSTR_OFFSET) \in Registers /\ FirmwareAddress \in Registers
      /\ Upper(VSTR_OFFSET) \in Addresses /\ FirmwareAddress \in Addresses
  BY AddressFacts DEF Registers
<1>2. ScriptFor(WriteCommand(Value(Upper(CMDR_OFFSET), 1)), Registers)
  BY <1>1, WriteScript
<1>3. ScriptFor(ReadCommand(Upper(VSTR_OFFSET)), Registers)
  BY <1>1, ReadScript
<1>4. ScriptFor(ReadCommand(FirmwareAddress), Registers)
  BY <1>1, ReadScript
<1> QED
  BY <1>2, <1>3, <1>4, ScriptConcat

LEMMA TailFacts ==
    ASSUME NEW S, NEW s \in Seq(S), s # <<>>
    PROVE  /\ Head(s) \in S /\ Tail(s) \in Seq(S) /\ Head(s) = s[1]
           /\ Len(Tail(s)) = Len(s) - 1
           /\ \A i \in DOMAIN Tail(s) : i + 1 \in DOMAIN s /\ Tail(s)[i] = s[i + 1]
OBVIOUS

LEMMA AppendFacts ==
    ASSUME NEW S, NEW s \in Seq(S), NEW x \in S
    PROVE  /\ Append(s, x) \in Seq(S) /\ Len(Append(s, x)) = Len(s) + 1
           /\ \A i \in DOMAIN Append(s, x) :
                 \/ i \in DOMAIN s /\ Append(s, x)[i] = s[i]
                 \/ i = Len(s) + 1 /\ Append(s, x)[i] = x
OBVIOUS

LEMMA BoundFacts ==
    ASSUME NEW b \in [ioctls : Nat, events : Nat, stamp : Nat]
    PROVE  /\ [b EXCEPT !.ioctls = @ + 1] \in [ioctls : Nat, events : Nat, stamp : Nat]
           /\ [b EXCEPT !.events = @ + 1] \in [ioctls : Nat, events : Nat, stamp : Nat]
           /\ [b EXCEPT !.stamp = @ + 1] \in [ioctls : Nat, events : Nat, stamp : Nat]
OBVIOUS

LEMMA AfterFailureFacts ==
    ASSUME NEW s \in Seq(Items), s # <<>>
    PROVE  /\ AfterFailure(s) \in Seq(Items)
           /\ \A i \in DOMAIN AfterFailure(s) : \E j \in DOMAIN s : AfterFailure(s)[i] = s[j]
<1>1. CASE Head(s).op # "read"
  BY <1>1, TailFacts DEF AfterFailure
<1>2. CASE Head(s).op = "read"
  <2>1. AfterFailure(s) = SubSeq(s, 3, Len(s))
    BY <1>2 DEF AfterFailure
  <2>2. SubSeq(s, 3, Len(s)) \in Seq(Items)
    OBVIOUS
  <2>3. \A i \in DOMAIN SubSeq(s, 3, Len(s)) :
           i + 2 \in DOMAIN s /\ SubSeq(s, 3, Len(s))[i] = s[i + 2]
    OBVIOUS
  <2> QED
    BY <2>1, <2>2, <2>3
<1> QED
  BY <1>1, <1>2

LEMMA StampedFacts ==
    ASSUME TypeOK, NEW item \in Items
    PROVE  /\ Stamped(item) \in Items /\ Stamped(item).op = item.op
           /\ Stamped(item).value.at = item.value.at
           /\ item.op = "write" => Stamped(item).value.stamp = bound.stamp + 1
<1>1. bound.stamp + 1 \in Nat
  BY DEF TypeOK
<1> DEFINE stamp == bound.stamp + 1
<1>2. stamp \in Nat
  BY <1>1
<1> HIDE DEF stamp
<1>3. item.value \in Values
  BY DEF Items
<1>4. [item.value EXCEPT !.stamp = stamp] \in Values
  BY <1>2, <1>3 DEF Values
<1>5. /\ [item EXCEPT !.value.stamp = stamp] \in Items
      /\ [item EXCEPT !.value.stamp = stamp].op = item.op
      /\ [item EXCEPT !.value.stamp = stamp].value = [item.value EXCEPT !.stamp = stamp]
  BY <1>4 DEF Items
<1>6. /\ [item.value EXCEPT !.stamp = stamp].at = item.value.at
      /\ [item.value EXCEPT !.stamp = stamp].stamp = stamp
  BY <1>3 DEF Values
<1>7. Stamped(item) = IF item.op = "write" THEN [item EXCEPT !.value.stamp = stamp] ELSE item
  BY DEF Stamped, stamp
<1> QED
  BY <1>5, <1>6, <1>7 DEF stamp

----------------------------------------------------------------------------
(* The type invariant. *)

LEMMA InitType == RegsAssumption /\ Init => TypeOK
<1> SUFFICES ASSUME RegsAssumption, Init PROVE TypeOK
  OBVIOUS
<1>1. register_storage \in [Offsets -> Values]
  BY AddressFacts, ValueFacts DEF Init, Registers
<1>2. fpga_firmware_rev \in Values
  BY AddressFacts, ValueFacts DEF Init, Registers
<1>3. script \in [Threads -> Seq(Items)]
  <2>1. ReadCommand(Fx2Address) \in Seq(Items)
    BY AddressFacts, ReadCommandFacts DEF Registers
  <2> QED
    BY <2>1 DEF Init
<1>4. adapter \in [Addresses -> Values]
  <2>1. PICK revision \in Revisions : adapter =
           [at \in Addresses |-> Value(at, IF at = Fx2Address THEN revision ELSE 0)]
    BY DEF Init
  <2>2. revision \in Int
    BY DEF RegsAssumption
  <2> QED
    BY <2>1, <2>2, ValueFacts
<1>5. setting \in [slots : SUBSET Offsets, choice : Nat]
  BY DEF Init, NoSetting
<1>6. /\ chosen \in [Offsets -> Int] /\ got \in [returned : Int, chosen : Int]
      /\ bound \in [ioctls : Nat, events : Nat, stamp : Nat]
  BY DEF Init
<1>7. /\ nonvolatile_reg \in Int /\ fx2_firmware_rev \in Int
      /\ phase \in {"new", "defaults", "clock", "identify", "ready"}
      /\ last_nv \in {"none", "set", "get"}
  BY DEF Init
<1>9. board_settings_spinlock \in BOOLEAN /\ lost \in BOOLEAN
  BY Zenon DEF Init
<1>8. pipe \in Seq(Items) /\ posted \in Seq({2, 4, 6}) /\ answers \in Seq(Values)
  BY DEF Init
<1> QED
  BY <1>1, <1>2, <1>3, <1>4, <1>5, <1>6, <1>7, <1>8, <1>9 DEF TypeOK

LEMMA SendType == TypeOK /\ (\E t \in Threads : Send(t)) => TypeOK'
<1> SUFFICES ASSUME TypeOK, NEW t \in Threads, Send(t) PROVE TypeOK'
  OBVIOUS
<1>1. script[t] \in Seq(Items) /\ script[t] # <<>>
  BY DEF TypeOK, Send
<1>2. Head(script[t]) \in Items /\ Tail(script[t]) \in Seq(Items)
  BY <1>1, TailFacts
<1>3. script' \in [Threads -> Seq(Items)]
  BY <1>2 DEF Send, TypeOK
<1>4. AnswerSize(Head(script[t]).value.at) \in {2, 4, 6}
  BY <1>2, AnswerSizeFacts DEF Items, Values
<1>5. Stamped(Head(script[t])) \in Items
  BY <1>2, StampedFacts
<1>6. posted' \in Seq({2, 4, 6}) /\ pipe' \in Seq(Items)
  <2>1. posted \in Seq({2, 4, 6}) /\ pipe \in Seq(Items)
    BY DEF TypeOK
  <2>2. Append(posted, AnswerSize(Head(script[t]).value.at)) \in Seq({2, 4, 6})
    BY <1>4, <2>1, AppendFacts
  <2>3. Append(pipe, Stamped(Head(script[t]))) \in Seq(Items)
    BY <1>5, <2>1, AppendFacts
  <2> QED
    BY <2>1, <2>2, <2>3 DEF Send
<1>7. bound' \in [ioctls : Nat, events : Nat, stamp : Nat]
  <2>1. bound \in [ioctls : Nat, events : Nat, stamp : Nat]
    BY DEF TypeOK
  <2> QED
    BY <2>1, BoundFacts DEF Send
<1>8. UNCHANGED <<cacheVars, board_settings_spinlock, phase, setting, answers, adapter, historyVars,
                  lost>>
  BY DEF Send
<1> QED
  BY <1>3, <1>6, <1>7, <1>8 DEF TypeOK, cacheVars, historyVars

LEMMA SendFailsType == TypeOK /\ (\E t \in Threads : SendFails(t)) => TypeOK'
<1> SUFFICES ASSUME TypeOK, NEW t \in Threads, SendFails(t) PROVE TypeOK'
  OBVIOUS
<1>1. AfterFailure(script[t]) \in Seq(Items)
  BY AfterFailureFacts DEF TypeOK, SendFails
<1>2. script' \in [Threads -> Seq(Items)]
  BY <1>1 DEF SendFails, TypeOK
<1>3. bound' \in [ioctls : Nat, events : Nat, stamp : Nat]
  BY BoundFacts DEF SendFails, TypeOK
<1> QED
  BY <1>2, <1>3 DEF SendFails, TypeOK, cacheVars, historyVars

LEMMA SetNextType == RegsAssumption /\ TypeOK /\ SetNext => TypeOK'
<1> SUFFICES ASSUME RegsAssumption, TypeOK, SetNext PROVE TypeOK'
  OBVIOUS
<1>1. PICK o \in setting.slots :
         /\ setting' = [setting EXCEPT !.slots = @ \ {o}]
         /\ script' = [script EXCEPT !["ioctl"] = SetOne(o, setting.choice)]
  BY DEF SetNext
<1>2. o \in Offsets /\ setting.choice \in Int
  BY DEF TypeOK
<1>3. SetOne(o, setting.choice) \in Seq(Items)
  BY <1>2, SetOneScript DEF ScriptFor
<1>4. script' \in [Threads -> Seq(Items)] /\ setting' \in [slots : SUBSET Offsets, choice : Nat]
  BY <1>1, <1>3 DEF TypeOK
<1> QED
  BY <1>4 DEF SetNext, TypeOK, cacheVars, historyVars

LEMMA StartType == RegsAssumption /\ TypeOK /\ Start => TypeOK'
<1> SUFFICES ASSUME RegsAssumption, TypeOK, Start PROVE TypeOK'
  OBVIOUS
<1>1. CASE StartDefaults
  <2>1. PICK opens \in RegistryOpens :
           LET slots == IF opens THEN DefaultSlots ELSE {}
           IN  /\ register_storage' = [o \in Offsets |->
                      Value(SetAddress(o), IF o \in slots THEN 1 ELSE Unset)]
               /\ setting' = [slots |-> slots, choice |-> 1]
               /\ chosen' = [o \in Offsets |-> IF o \in slots THEN 1 ELSE chosen[o]]
    BY <1>1 DEF StartDefaults
  <2>2. \A o \in Offsets : Value(SetAddress(o), 1) \in Values /\ Value(SetAddress(o), Unset) \in Values
    BY AddressFacts, ValueFacts DEF Unset, Registers
  <2>3. register_storage' \in [Offsets -> Values]
    BY <2>1, <2>2
  <2>4. DefaultSlots \subseteq Offsets
    BY DEF RegsAssumption
  <2>5. setting' \in [slots : SUBSET Offsets, choice : Nat]
    BY <2>1, <2>4
  <2>6. chosen' \in [Offsets -> Int]
    BY <2>1 DEF TypeOK
  <2> QED
    BY <1>1, <2>3, <2>5, <2>6 DEF StartDefaults, StartUnchanged, TypeOK
<1>2. CASE StartClock
  <2>1. ClockScript(register_storage[FCR_SLOT]) \in Seq(Items)
    BY ClockScriptFacts DEF ScriptFor, TypeOK, RegsAssumption
  <2>2. script' \in [Threads -> Seq(Items)]
    BY <1>2, <2>1 DEF StartClock, TypeOK
  <2> QED
    BY <1>2, <2>2 DEF StartClock, StartUnchanged, TypeOK
<1>3. CASE StartIdentify
  <2>1. script' \in [Threads -> Seq(Items)]
    BY <1>3, IdentifyScript DEF StartIdentify, TypeOK, ScriptFor
  <2> QED
    BY <1>3, <2>1 DEF StartIdentify, StartUnchanged, TypeOK
<1>4. CASE StartNonvolatile
  <2>1. ReadCommand(NonvolatileAddress) \in Seq(Items)
    BY AddressFacts, ReadCommandFacts
  <2>2. script' \in [Threads -> Seq(Items)] /\ last_nv' \in {"none", "set", "get"}
    <3>1. script \in [Threads -> Seq(Items)] /\ last_nv \in {"none", "set", "get"}
      BY DEF TypeOK
    <3>2. \/ /\ script' = [script EXCEPT !["ioctl"] = ReadCommand(NonvolatileAddress)]
             /\ last_nv' = "get"
          \/ script' = script /\ last_nv' = last_nv
      BY <1>4 DEF StartNonvolatile
    <3> QED
      BY <2>1, <3>1, <3>2
  <2>3. /\ phase' = "ready"
        /\ UNCHANGED <<register_storage, board_settings_spinlock, setting, chosen>>
        /\ StartUnchanged
    BY <1>4 DEF StartNonvolatile
  <2> QED
    BY <2>2, <2>3 DEF StartUnchanged, TypeOK
<1> QED
  BY <1>1, <1>2, <1>3, <1>4 DEF Start

LEMMA HandleIoctlType == RegsAssumption /\ TypeOK /\ HandleIoctl => TypeOK'
<1> SUFFICES ASSUME RegsAssumption, TypeOK, HandleIoctl PROVE TypeOK'
  OBVIOUS
<1>1. bound' \in [ioctls : Nat, events : Nat, stamp : Nat]
  BY BoundFacts DEF HandleIoctl, SetRegisters, GetRegisters, SetClockBits, SetNonvolatile,
                    GetNonvolatile, Reprogram, Ioctl, TypeOK
<1>2. Choice \in Nat /\ Choice \in Int
  BY DEF Choice, TypeOK
<1>3. CASE SetRegisters
  <2>1. PICK S \in SetChoices :
           LET slots == S \ ReadOnly
           IN  /\ setting' = [slots |-> slots, choice |-> Choice]
               /\ chosen' = [o \in Offsets |-> IF o \in slots THEN Choice ELSE chosen[o]]
    BY <1>3 DEF SetRegisters
  <2>2. S \ ReadOnly \subseteq Offsets
    BY DEF RegsAssumption
  <2>3. setting' \in [slots : SUBSET Offsets, choice : Nat]
    BY <1>2, <2>1, <2>2
  <2>4. chosen' \in [Offsets -> Int]
    BY <1>2, <2>1 DEF TypeOK
  <2> QED
    BY <1>1, <1>3, <2>3, <2>4 DEF SetRegisters, Ioctl, TypeOK
<1>4. CASE GetRegisters
  <2>1. PICK o \in GetChoices \ WriteOnly :
           /\ got' = [returned |-> register_storage[o].choice, chosen |-> chosen[o]]
           /\ script' = [script EXCEPT !["ioctl"] = ReadCommand(GetAddress(o))]
    BY <1>4 DEF GetRegisters
  <2>2. o \in Offsets
    BY DEF RegsAssumption
  <2>3. got' \in [returned : Int, chosen : Int]
    BY <2>1, <2>2 DEF TypeOK, Values
  <2>4. ReadCommand(GetAddress(o)) \in Seq(Items)
    BY <2>2, AddressFacts, ReadCommandFacts DEF Registers
  <2>5. script' \in [Threads -> Seq(Items)]
    BY <2>1, <2>4 DEF TypeOK
  <2> QED
    BY <1>1, <1>4, <2>3, <2>5 DEF GetRegisters, Ioctl, TypeOK
<1>5. CASE SetClockBits
  <2>1. ClockScript(register_storage[FCR_SLOT]) \in Seq(Items)
    BY ClockScriptFacts DEF ScriptFor, TypeOK, RegsAssumption
  <2>2. script' \in [Threads -> Seq(Items)]
    BY <1>5, <2>1 DEF SetClockBits, TypeOK
  <2> QED
    BY <1>1, <1>5, <2>2 DEF SetClockBits, Ioctl, TypeOK, historyVars
<1>6. CASE SetNonvolatile
  <2>1. Item("write", Value(NonvolatileAddress, Choice)) \in Items
    BY <1>2, AddressFacts, ValueFacts, ItemFacts
  <2>2. pipe' \in Seq(Items)
    BY <1>6, <2>1 DEF SetNonvolatile, TypeOK
  <2> QED
    BY <1>1, <1>2, <1>6, <2>2 DEF SetNonvolatile, Ioctl, TypeOK
<1>7. CASE GetNonvolatile
  <2>1. ReadCommand(NonvolatileAddress) \in Seq(Items)
    BY AddressFacts, ReadCommandFacts
  <2>2. script' \in [Threads -> Seq(Items)]
    BY <1>7, <2>1 DEF GetNonvolatile, TypeOK
  <2> QED
    BY <1>1, <1>7, <2>2 DEF GetNonvolatile, Ioctl, TypeOK
<1>8. CASE Reprogram
  <2>1. Item("program", Value(FirmwareAddress, 0)) \in Items
    BY AddressFacts, ValueFacts, ItemFacts DEF Registers
  <2>2. pipe' \in Seq(Items)
    BY <1>8, <2>1 DEF Reprogram, TypeOK
  <2> QED
    BY <1>1, <1>8, <2>2 DEF Reprogram, Ioctl, TypeOK, historyVars
<1> QED
  BY <1>3, <1>4, <1>5, <1>6, <1>7, <1>8 DEF HandleIoctl

LEMMA ReleaseType == TypeOK /\ Release => TypeOK'
BY DEF TypeOK, Release, cacheVars, historyVars

LEMMA DataReadType == RegsAssumption /\ TypeOK /\ DataRead => TypeOK'
<1> SUFFICES ASSUME RegsAssumption, TypeOK, DataRead PROVE TypeOK'
  OBVIOUS
<1>1. ReadCommand(Upper(FIFO_FC_OFFSET)) \in Seq(Items)
  BY AddressFacts, ReadCommandFacts DEF Registers
<1>2. script' \in [Threads -> Seq(Items)]
  BY <1>1 DEF DataRead, TypeOK
<1>3. bound' \in [ioctls : Nat, events : Nat, stamp : Nat]
  BY BoundFacts DEF DataRead, TypeOK
<1> QED
  BY <1>2, <1>3 DEF DataRead, TypeOK, cacheVars, historyVars

LEMMA ExecuteType == TypeOK /\ Execute => TypeOK'
<1> SUFFICES ASSUME TypeOK, Execute PROVE TypeOK'
  OBVIOUS
<1>1. Head(pipe) \in Items /\ pipe' \in Seq(Items)
  BY TailFacts DEF TypeOK, Execute
<1>2. Head(pipe).value \in Values /\ Head(pipe).value.at \in Addresses
  BY <1>1 DEF Items, Values
<1>3. adapter' \in [Addresses -> Values]
  BY <1>2 DEF TypeOK, Execute
<1>4. answers' \in Seq(Values)
  BY <1>2, AppendFacts DEF TypeOK, Execute
<1> QED
  BY <1>1, <1>3, <1>4 DEF TypeOK, Execute, cacheVars, threadVars, historyVars

LEMMA MeetFacts ==
    ASSUME TypeOK, Meet
    PROVE  /\ Head(answers) \in Values /\ answers' \in Seq(Values)
           /\ posted' \in Seq({2, 4, 6})
BY TailFacts DEF TypeOK, Meet

LEMMA CompletionType == TypeOK /\ Completion => TypeOK'
<1> SUFFICES ASSUME TypeOK, Completion PROVE TypeOK'
  OBVIOUS
<1>1. Meet
  BY DEF Completion, CompletionError, CompletionNonvolatile, CompletionFx2, CompletionRegister
<1>2. Head(answers) \in Values /\ answers' \in Seq(Values) /\ posted' \in Seq({2, 4, 6})
  BY <1>1, MeetFacts
<1>3. Head(answers).choice \in Int
  BY <1>2 DEF Values
<1>4. nonvolatile_reg' \in Int /\ fx2_firmware_rev' \in Int /\ lost' \in BOOLEAN
  BY <1>3 DEF Completion, CompletionError, CompletionNonvolatile, CompletionFx2,
              CompletionRegister, TypeOK, cacheVars
<1>5. register_storage' \in [Offsets -> Values] /\ fpga_firmware_rev' \in Values
  <2>1. CASE CompletionRegister
    BY <1>2, <2>1 DEF CompletionRegister, TypeOK
  <2>2. CASE ~CompletionRegister
    BY <2>2 DEF Completion, CompletionError, CompletionNonvolatile, CompletionFx2, TypeOK, cacheVars
  <2> QED
    BY <2>1, <2>2
<1> QED
  BY <1>1, <1>2, <1>4, <1>5 DEF Meet, TypeOK, threadVars, historyVars

LEMMA NextType == RegsAssumption /\ TypeOK /\ [Next]_vars => TypeOK'
<1> SUFFICES ASSUME RegsAssumption, TypeOK, [Next]_vars PROVE TypeOK'
  OBVIOUS
<1>1. CASE UNCHANGED vars
  BY <1>1 DEF TypeOK, vars, cacheVars, threadVars, historyVars
<1>2. CASE Next
  BY <1>2, SendType, SendFailsType, SetNextType, StartType, HandleIoctlType, ReleaseType,
     DataReadType, ExecuteType, CompletionType DEF Next, IoctlStep, Threads
<1> QED
  BY <1>1, <1>2

\* Every variable of the driver and of the adapter keeps its type.
THEOREM TypeCorrect == Spec => []TypeOK
<1>1. RegsAssumption
  BY RegsAssumption
<1> QED
  BY <1>1, InitType, NextType, PTL DEF Spec

----------------------------------------------------------------------------
(* The cache mixes up no registers. *)

LEMMA CachedAtFacts ==
    ASSUME RegsAssumption, NEW o \in Offsets, NEW at \in Addresses, CachedAt(o, at)
    PROVE  at = SetAddress(o)
<1>1. CASE at = FcrAddress /\ o = FCR_SLOT
  BY <1>1 DEF SetAddress, FCR_SLOT, MAX_OFFSET
<1>2. CASE at[1] = "upper" /\ at[2] < MAX_OFFSET /\ o = at[2]
  <2>1. PICK p \in Offsets \cup {CMDR_OFFSET, FIFO_FC_OFFSET, VSTR_OFFSET} : at = Upper(p)
    BY <1>2 DEF Addresses, FcrAddress, FirmwareAddress, NonvolatileAddress, Fx2Address
  <2>2. p = o /\ o < MAX_OFFSET
    BY <1>2, <2>1 DEF Upper
  <2>3. o \in Int
    BY DEF RegsAssumption
  <2> QED
    BY <2>1, <2>2, <2>3 DEF SetAddress, MAX_OFFSET
<1> QED
  BY <1>1, <1>2 DEF CachedAt

LEMMA RevisionAddress ==
    ASSUME RegsAssumption, NEW at \in Addresses, AnswerSize(at) = 6, at[2] = 0
    PROVE  at = FirmwareAddress
<1>1. at # NonvolatileAddress /\ at # Fx2Address
  BY DEF AnswerSize, NonvolatileAddress, Fx2Address
<1>2. at # FcrAddress
  BY DEF FcrAddress, FCR_OFFSET
<1>3. \A o \in Offsets \cup {CMDR_OFFSET, FIFO_FC_OFFSET, VSTR_OFFSET} : at # Upper(o)
  <2>1. \A o \in Offsets \cup {CMDR_OFFSET, FIFO_FC_OFFSET, VSTR_OFFSET} : o # 0
    BY DEF RegsAssumption, CMDR_OFFSET, FIFO_FC_OFFSET, VSTR_OFFSET, FCR_SLOT
  <2> QED
    BY <2>1 DEF Upper
<1> QED
  BY <1>1, <1>2, <1>3 DEF Addresses

LEMMA CacheInit == RegsAssumption /\ Init => CacheTrue
<1> SUFFICES ASSUME RegsAssumption, Init PROVE CacheTrue
  OBVIOUS
<1>1. \A o \in Offsets : SetAddress(o) \in Addresses
  BY AddressFacts DEF Registers
<1>2. FirmwareAddress \in Addresses
  BY AddressFacts DEF Registers
<1> QED
  BY <1>1, <1>2, ValueFacts DEF Init, CacheTrue

LEMMA CacheNext == RegsAssumption /\ TypeOK /\ CacheTrue /\ [Next]_vars => CacheTrue'
<1> SUFFICES ASSUME RegsAssumption, TypeOK, CacheTrue, [Next]_vars PROVE CacheTrue'
  OBVIOUS
<1>1. CASE CompletionRegister
  <2>1. Head(answers) \in Values /\ Head(answers).at \in Addresses
    BY <1>1, MeetFacts DEF CompletionRegister, Values
  <2>2. AnswerSize(Head(answers).at) = 6
    BY <1>1 DEF CompletionRegister, Size
  <2>3. \A o \in Offsets : CachedAt(o, Head(answers).at) => Head(answers).at = SetAddress(o)
    BY <2>1, CachedAtFacts
  <2>4. Head(answers).at[2] = 0 => Head(answers).at = FirmwareAddress
    BY <2>1, <2>2, RevisionAddress
  <2> QED
    BY <1>1, <2>3, <2>4 DEF CompletionRegister, CacheTrue
<1>2. CASE StartDefaults
  <2>1. \A o \in Offsets : \A choice \in Int : Value(SetAddress(o), choice).at = SetAddress(o)
    BY DEF Value
  <2>2. \A o \in Offsets : register_storage'[o].at = SetAddress(o)
    BY <1>2, <2>1 DEF StartDefaults, Unset
  <2>3. fpga_firmware_rev' = fpga_firmware_rev
    BY <1>2 DEF StartDefaults, StartUnchanged
  <2> QED
    BY <2>2, <2>3 DEF CacheTrue
<1>3. CASE UNCHANGED <<register_storage, fpga_firmware_rev>>
  BY <1>3 DEF CacheTrue
<1>4. CompletionRegister \/ StartDefaults \/ UNCHANGED <<register_storage, fpga_firmware_rev>>
  BY DEF Next, IoctlStep, HandleIoctl, Start, Completion, Send, SendFails, SetNext, StartClock,
         StartIdentify, StartNonvolatile, StartUnchanged, SetRegisters, GetRegisters, SetClockBits,
         SetNonvolatile, GetNonvolatile, Reprogram, Ioctl, Release, DataRead, Execute,
         CompletionError, CompletionNonvolatile, CompletionFx2, vars, cacheVars
<1> QED
  BY <1>1, <1>2, <1>3, <1>4

\* Each copy the driver keeps is of its own register, whatever answers meet
\* whatever requests.
THEOREM CacheStaysTrue == Spec => []CacheTrue
<1>1. RegsAssumption
  BY RegsAssumption
<1>2. Init => TypeOK /\ CacheTrue
  BY <1>1, InitType, CacheInit
<1>3. (TypeOK /\ CacheTrue) /\ [Next]_vars => (TypeOK /\ CacheTrue)'
  BY <1>1, NextType, CacheNext
<1> QED
  BY <1>2, <1>3, PTL DEF Spec

----------------------------------------------------------------------------
(* The non-volatile register is asked for only where there is one. *)

LEMMA ScriptAsks ==
    ASSUME NEW items, NEW Allowed, ScriptFor(items, Allowed),
           NonvolatileAddress \in Allowed => Supported
    PROVE  \A i \in DOMAIN items : Asks(items[i])
BY DEF ScriptFor, Asks

LEMMA RegistersHaveNoNonvolatile == NonvolatileAddress \notin Registers
BY DEF Registers

\* A step that gives one thread a script of items that may be asked.
LEMMA NewScript ==
    ASSUME TypeOK, ScriptsAsk, NEW t \in Threads, NEW items,
           \A i \in DOMAIN items : Asks(items[i]),
           script' = [script EXCEPT ![t] = items], Supported => Supported'
    PROVE  ScriptsAsk'
<1>1. \A u \in Threads : script'[u] = IF u = t THEN items ELSE script[u]
  BY DEF TypeOK
<1>2. ASSUME NEW item, Asks(item) PROVE Asks(item)'
  BY <1>2 DEF Asks
<1> QED
  BY <1>1, <1>2 DEF ScriptsAsk

LEMMA RevisionInit == RegsAssumption /\ Init => RevisionTrue
<1> SUFFICES ASSUME RegsAssumption, Init PROVE RevisionTrue
  OBVIOUS
<1>1. AdapterTrue
  BY DEF Init, AdapterTrue, Value
<1>2. ScriptsAsk
  <2>1. ScriptFor(ReadCommand(Fx2Address), Registers)
    BY AddressFacts, ReadScript DEF Registers
  <2>2. \A i \in DOMAIN ReadCommand(Fx2Address) : Asks(ReadCommand(Fx2Address)[i])
    BY <2>1, ScriptAsks, RegistersHaveNoNonvolatile
  <2> QED
    BY <2>2 DEF Init, ScriptsAsk
<1>3. PipeAsks /\ AnswersTrue /\ fx2_firmware_rev = 0
  BY DEF Init, PipeAsks, AnswersTrue
<1> QED
  BY <1>1, <1>2, <1>3 DEF RevisionTrue

LEMMA ExecuteRevision ==
    RegsAssumption /\ TypeOK /\ RevisionTrue /\ Execute => RevisionTrue'
<1> SUFFICES ASSUME RegsAssumption, TypeOK, RevisionTrue, Execute PROVE RevisionTrue'
  OBVIOUS
<1> DEFINE command == Head(pipe)
           at == command.value.at
<1>1. /\ pipe # <<>> /\ pipe \in Seq(Items) /\ command \in Items /\ command = pipe[1]
      /\ \A i \in DOMAIN pipe' : i + 1 \in DOMAIN pipe /\ pipe'[i] = pipe[i + 1]
  BY TailFacts DEF Execute, TypeOK
<1>2. Asks(command) /\ at \in Addresses
  BY <1>1 DEF RevisionTrue, PipeAsks, Items, Values
<1>3. /\ adapter' = IF command.op = "write" THEN [adapter EXCEPT ![at] = command.value] ELSE adapter
      /\ answers' = IF command.op = "read" THEN Append(answers, adapter[at]) ELSE answers
  BY DEF Execute
<1> HIDE DEF command
<1>4. adapter'[Fx2Address] = adapter[Fx2Address]
  BY <1>2, <1>3 DEF Asks
<1>5. AdapterTrue'
  BY <1>2, <1>3 DEF RevisionTrue, AdapterTrue, TypeOK
<1>6. ScriptsAsk' /\ PipeAsks'
  BY <1>1, <1>4 DEF RevisionTrue, ScriptsAsk, PipeAsks, Asks, Supported, Execute, threadVars
<1>7. AnswersTrue'
  <2>1. CASE command.op = "read"
    <3>1. answers' = Append(answers, adapter[at]) /\ adapter[at] \in Values
      BY <1>2, <1>3, <2>1 DEF TypeOK
    <3>2. answers \in Seq(Values)
      BY DEF TypeOK
    <3>3. \A i \in DOMAIN answers' : \/ i \in DOMAIN answers /\ answers'[i] = answers[i]
                                     \/ answers'[i] = adapter[at]
      BY <3>1, <3>2, AppendFacts
    <3>4. adapter[at].at = at
      BY <1>2 DEF RevisionTrue, AdapterTrue
    <3> QED
      BY <1>4, <3>3, <3>4 DEF RevisionTrue, AnswersTrue
  <2>2. CASE command.op # "read"
    BY <1>3, <1>4, <2>2 DEF RevisionTrue, AnswersTrue
  <2> QED
    BY <2>1, <2>2
<1>8. fx2_firmware_rev' \in {0, adapter'[Fx2Address].choice}
  BY <1>4 DEF RevisionTrue, Execute, cacheVars
<1> QED
  BY <1>5, <1>6, <1>7, <1>8 DEF RevisionTrue

LEMMA CompletionRevision == TypeOK /\ RevisionTrue /\ Completion => RevisionTrue'
<1> SUFFICES ASSUME TypeOK, RevisionTrue, Completion PROVE RevisionTrue'
  OBVIOUS
<1>1. Meet
  BY DEF Completion, CompletionError, CompletionNonvolatile, CompletionFx2, CompletionRegister
<1>2. AdapterTrue' /\ ScriptsAsk' /\ PipeAsks'
  BY <1>1 DEF Meet, RevisionTrue, AdapterTrue, ScriptsAsk, PipeAsks, Asks, Supported, threadVars
<1>3. /\ answers # <<>> /\ Head(answers) = answers[1] /\ 1 \in DOMAIN answers
      /\ \A i \in DOMAIN answers' : i + 1 \in DOMAIN answers /\ answers'[i] = answers[i + 1]
  <2>1. answers # <<>> /\ answers \in Seq(Values) /\ answers' = Tail(answers)
    BY <1>1 DEF Meet, TypeOK
  <2> QED
    BY <2>1, TailFacts
<1>4. AnswersTrue'
  BY <1>1, <1>3 DEF Meet, RevisionTrue, AnswersTrue
<1>5. CASE CompletionFx2
  <2>1. Head(answers).at[1] = "fx2"
    BY <1>5 DEF CompletionFx2, Size, AnswerSize
  <2>2. Head(answers) \in Values
    BY <1>1, MeetFacts
  <2>3. Head(answers).at = Fx2Address
    BY <2>1, <2>2 DEF Values, Addresses, Upper, FcrAddress, FirmwareAddress, NonvolatileAddress,
                      Fx2Address
  <2>4. Head(answers).choice = adapter[Fx2Address].choice
    BY <1>3, <2>3 DEF RevisionTrue, AnswersTrue
  <2> QED
    BY <1>1, <1>2, <1>4, <1>5, <2>4 DEF RevisionTrue, CompletionFx2, Meet
<1>6. CASE ~CompletionFx2
  <2>1. fx2_firmware_rev' = fx2_firmware_rev
    BY <1>6 DEF Completion, CompletionError, CompletionNonvolatile, CompletionRegister, cacheVars
  <2> QED
    BY <1>1, <1>2, <1>4, <2>1 DEF RevisionTrue, Meet
<1> QED
  BY <1>5, <1>6

LEMMA SendRevision == TypeOK /\ RevisionTrue /\ (\E t \in Threads : Send(t)) => RevisionTrue'
<1> SUFFICES ASSUME TypeOK, RevisionTrue, NEW t \in Threads, Send(t) PROVE RevisionTrue'
  OBVIOUS
<1>1. /\ script[t] \in Seq(Items) /\ script[t] # <<>>
      /\ Head(script[t]) \in Items /\ Head(script[t]) = script[t][1]
      /\ \A i \in DOMAIN Tail(script[t]) :
            i + 1 \in DOMAIN script[t] /\ Tail(script[t])[i] = script[t][i + 1]
  <2>1. script[t] \in Seq(Items) /\ script[t] # <<>>
    BY DEF Send, TypeOK
  <2> QED
    BY <2>1, TailFacts
<1>2. /\ \A i \in DOMAIN Tail(script[t]) : Asks(Tail(script[t])[i])
      /\ Asks(Head(script[t]))
  BY <1>1 DEF RevisionTrue, ScriptsAsk
<1>3. Asks(Stamped(Head(script[t]))) /\ Stamped(Head(script[t])) \in Items
  BY <1>1, <1>2, StampedFacts DEF Asks
<1>4. UNCHANGED <<adapter, answers, fx2_firmware_rev>>
  BY DEF Send, cacheVars
<1>5. ScriptsAsk'
  <2>1. script' = [script EXCEPT ![t] = Tail(script[t])] /\ (Supported => Supported')
    BY <1>4 DEF Send, Supported
  <2> QED
    BY <1>2, <2>1, NewScript DEF RevisionTrue
<1>6. PipeAsks'
  <2>1. pipe \in Seq(Items)
    BY DEF TypeOK
  <2>2. \A i \in DOMAIN pipe' : \/ i \in DOMAIN pipe /\ pipe'[i] = pipe[i]
                                \/ pipe'[i] = Stamped(Head(script[t]))
    BY <1>3, <2>1, AppendFacts DEF Send
  <2> QED
    BY <1>3, <1>4, <2>2 DEF RevisionTrue, PipeAsks, Asks, Supported
<1>7. AdapterTrue' /\ AnswersTrue'
  BY <1>4 DEF RevisionTrue, AdapterTrue, AnswersTrue
<1> QED
  BY <1>4, <1>5, <1>6, <1>7 DEF RevisionTrue

LEMMA SendFailsRevision ==
    TypeOK /\ RevisionTrue /\ (\E t \in Threads : SendFails(t)) => RevisionTrue'
<1> SUFFICES ASSUME TypeOK, RevisionTrue, NEW t \in Threads, SendFails(t) PROVE RevisionTrue'
  OBVIOUS
<1>1. script[t] \in Seq(Items) /\ script[t] # <<>>
  BY DEF SendFails, TypeOK
<1>2. \A i \in DOMAIN AfterFailure(script[t]) : Asks(AfterFailure(script[t])[i])
  BY <1>1, AfterFailureFacts DEF RevisionTrue, ScriptsAsk
<1>3. UNCHANGED <<adapter, answers, pipe, fx2_firmware_rev>>
  BY DEF SendFails, cacheVars
<1>4. ScriptsAsk'
  <2>1. script' = [script EXCEPT ![t] = AfterFailure(script[t])] /\ (Supported => Supported')
    BY <1>3 DEF SendFails, Supported
  <2> QED
    BY <1>2, <2>1, NewScript DEF RevisionTrue
<1> QED
  BY <1>3, <1>4 DEF RevisionTrue, AdapterTrue, PipeAsks, AnswersTrue, Asks, Supported

\* A step of the driver that sends nothing: it may give a thread a script.
LEMMA ScriptStepRevision ==
    ASSUME TypeOK, RevisionTrue, UNCHANGED <<adapter, answers, pipe, fx2_firmware_rev>>,
           \/ UNCHANGED script
           \/ \E t \in Threads : \E items :
                 /\ script' = [script EXCEPT ![t] = items]
                 /\ \A i \in DOMAIN items : Asks(items[i])
    PROVE  RevisionTrue'
<1>1. AdapterTrue' /\ PipeAsks' /\ AnswersTrue' /\ (Supported => Supported')
  BY DEF RevisionTrue, AdapterTrue, PipeAsks, AnswersTrue, Asks, Supported
<1>2. ScriptsAsk'
  <2>1. CASE UNCHANGED script
    BY <1>1, <2>1 DEF RevisionTrue, ScriptsAsk, Asks, Supported
  <2>2. CASE ~UNCHANGED script
    <3>1. PICK t \in Threads : \E items :
             /\ script' = [script EXCEPT ![t] = items]
             /\ \A i \in DOMAIN items : Asks(items[i])
      BY <2>2
    <3>2. PICK items : /\ script' = [script EXCEPT ![t] = items]
                       /\ \A i \in DOMAIN items : Asks(items[i])
      BY <3>1
    <3> QED
      BY <1>1, <3>2, NewScript DEF RevisionTrue
  <2> QED
    BY <2>1, <2>2
<1> QED
  BY <1>1, <1>2 DEF RevisionTrue

LEMMA SupportedFacts ==
    ASSUME TypeOK, RegsAssumption, RevisionTrue, CanSupportNonvolatile
    PROVE  /\ Supported
           /\ \A i \in DOMAIN ReadCommand(NonvolatileAddress) :
                 Asks(ReadCommand(NonvolatileAddress)[i])
<1>1. Supported
  BY DEF RevisionTrue, CanSupportNonvolatile, Supported, FIRST_NONVOLATILE_VERSION
<1>2. ScriptFor(ReadCommand(NonvolatileAddress), Addresses)
  BY AddressFacts, ReadScript
<1> QED
  BY <1>1, <1>2, ScriptAsks

LEMMA RegisterScriptAsks ==
    ASSUME NEW items, ScriptFor(items, Registers)
    PROVE  \A i \in DOMAIN items : Asks(items[i])
BY ScriptAsks, RegistersHaveNoNonvolatile

LEMMA SetNextRevision == RegsAssumption /\ TypeOK /\ RevisionTrue /\ SetNext => RevisionTrue'
<1> SUFFICES ASSUME RegsAssumption, TypeOK, RevisionTrue, SetNext PROVE RevisionTrue'
  OBVIOUS
<1>1. PICK o \in setting.slots : script' = [script EXCEPT !["ioctl"] = SetOne(o, setting.choice)]
  BY DEF SetNext
<1>2. o \in Offsets /\ setting.choice \in Int
  BY DEF TypeOK
<1>3. \A i \in DOMAIN SetOne(o, setting.choice) : Asks(SetOne(o, setting.choice)[i])
  BY <1>2, SetOneScript, RegisterScriptAsks
<1>4. UNCHANGED <<adapter, answers, pipe, fx2_firmware_rev>> /\ "ioctl" \in Threads
  BY DEF SetNext, cacheVars, Threads
<1> QED
  BY <1>1, <1>3, <1>4, ScriptStepRevision

LEMMA StartRevision == RegsAssumption /\ TypeOK /\ RevisionTrue /\ Start => RevisionTrue'
<1> SUFFICES ASSUME RegsAssumption, TypeOK, RevisionTrue, Start PROVE RevisionTrue'
  OBVIOUS
<1>1. UNCHANGED <<adapter, answers, pipe, fx2_firmware_rev>> /\ "ioctl" \in Threads
  BY DEF Start, StartDefaults, StartClock, StartIdentify, StartNonvolatile, StartUnchanged, Threads
<1>2. CASE StartDefaults
  BY <1>1, <1>2, ScriptStepRevision DEF StartDefaults
<1>3. CASE StartClock
  <2> DEFINE items == ClockScript(register_storage[FCR_SLOT])
  <2>1. register_storage[FCR_SLOT] \in Values
    BY DEF TypeOK, RegsAssumption
  <2>2. \A i \in DOMAIN items : Asks(items[i])
    BY <2>1, ClockScriptFacts, RegisterScriptAsks
  <2>3. script' = [script EXCEPT !["ioctl"] = items]
    BY <1>3 DEF StartClock
  <2> HIDE DEF items
  <2> QED
    BY <1>1, <2>2, <2>3, ScriptStepRevision
<1>4. CASE StartIdentify
  <2> DEFINE items == WriteCommand(Value(Upper(CMDR_OFFSET), 1))
                      \o WriteCommand(Value(Upper(CMDR_OFFSET), 1))
                      \o ReadCommand(Upper(VSTR_OFFSET)) \o ReadCommand(FirmwareAddress)
  <2>1. \A i \in DOMAIN items : Asks(items[i])
    BY IdentifyScript, RegisterScriptAsks
  <2>2. script' = [script EXCEPT !["ioctl"] = items]
    BY <1>4 DEF StartIdentify
  <2> HIDE DEF items
  <2> QED
    BY <1>1, <2>1, <2>2, ScriptStepRevision
<1>5. CASE StartNonvolatile
  <2>1. CASE CanSupportNonvolatile
    <3>1. script' = [script EXCEPT !["ioctl"] = ReadCommand(NonvolatileAddress)]
      BY <1>5, <2>1 DEF StartNonvolatile
    <3> QED
      BY <1>1, <2>1, <3>1, SupportedFacts, ScriptStepRevision
  <2>2. CASE ~CanSupportNonvolatile
    BY <1>1, <1>5, <2>2, ScriptStepRevision DEF StartNonvolatile
  <2> QED
    BY <2>1, <2>2
<1> QED
  BY <1>2, <1>3, <1>4, <1>5 DEF Start

\* The two ioctls that put a command straight into the pipe.
LEMMA PipeStepRevision ==
    ASSUME TypeOK, RevisionTrue, UNCHANGED <<adapter, answers, script, fx2_firmware_rev>>,
           NEW item \in Items, Asks(item), pipe' = Append(pipe, item)
    PROVE  RevisionTrue'
<1>1. AdapterTrue' /\ ScriptsAsk' /\ AnswersTrue'
  BY DEF RevisionTrue, AdapterTrue, ScriptsAsk, AnswersTrue, Asks, Supported
<1>2. PipeAsks'
  <2>1. pipe \in Seq(Items)
    BY DEF TypeOK
  <2>2. \A i \in DOMAIN pipe' : \/ i \in DOMAIN pipe /\ pipe'[i] = pipe[i]
                                \/ pipe'[i] = item
    BY <2>1, AppendFacts
  <2> QED
    BY <2>2 DEF RevisionTrue, PipeAsks, Asks, Supported
<1> QED
  BY <1>1, <1>2 DEF RevisionTrue

LEMMA HandleIoctlRevision ==
    RegsAssumption /\ TypeOK /\ RevisionTrue /\ HandleIoctl => RevisionTrue'
<1> SUFFICES ASSUME RegsAssumption, TypeOK, RevisionTrue, HandleIoctl PROVE RevisionTrue'
  OBVIOUS
<1>1. UNCHANGED <<adapter, answers, fx2_firmware_rev>> /\ "ioctl" \in Threads
  BY DEF HandleIoctl, SetRegisters, GetRegisters, SetClockBits, SetNonvolatile, GetNonvolatile,
         Reprogram, Ioctl, Threads
<1>2. CASE SetRegisters
  BY <1>1, <1>2, ScriptStepRevision DEF SetRegisters
<1>3. CASE GetRegisters
  <2>1. PICK o \in GetChoices \ WriteOnly :
           script' = [script EXCEPT !["ioctl"] = ReadCommand(GetAddress(o))]
    BY <1>3 DEF GetRegisters
  <2>2. GetAddress(o) \in Registers /\ GetAddress(o) \in Addresses
    BY AddressFacts DEF RegsAssumption, Registers
  <2>3. \A i \in DOMAIN ReadCommand(GetAddress(o)) : Asks(ReadCommand(GetAddress(o))[i])
    BY <2>2, ReadScript, RegisterScriptAsks
  <2>4. UNCHANGED pipe
    BY <1>3 DEF GetRegisters
  <2> QED
    BY <1>1, <2>1, <2>3, <2>4, ScriptStepRevision
<1>4. CASE SetClockBits
  <2> DEFINE items == ClockScript(register_storage[FCR_SLOT])
  <2>1. register_storage[FCR_SLOT] \in Values
    BY DEF TypeOK, RegsAssumption
  <2>2. \A i \in DOMAIN items : Asks(items[i])
    BY <2>1, ClockScriptFacts, RegisterScriptAsks
  <2>3. script' = [script EXCEPT !["ioctl"] = items] /\ UNCHANGED pipe
    BY <1>4 DEF SetClockBits
  <2> HIDE DEF items
  <2> QED
    BY <1>1, <2>2, <2>3, ScriptStepRevision
<1>5. CASE SetNonvolatile
  <2> DEFINE item == Item("write", Value(NonvolatileAddress, Choice))
  <2>1. Choice \in Int
    BY DEF Choice, TypeOK
  <2>2. item \in Items /\ item.value.at = NonvolatileAddress
    BY <2>1, AddressFacts, ValueFacts, ItemFacts
  <2>3. Supported
    BY <1>5, SupportedFacts DEF SetNonvolatile
  <2>4. Asks(item)
    BY <2>2, <2>3, AddressFacts DEF Asks
  <2>5. pipe' = Append(pipe, item) /\ UNCHANGED script
    BY <1>5 DEF SetNonvolatile
  <2> HIDE DEF item
  <2> QED
    BY <1>1, <2>2, <2>4, <2>5, PipeStepRevision
<1>6. CASE GetNonvolatile
  <2>1. /\ script' = [script EXCEPT !["ioctl"] = ReadCommand(NonvolatileAddress)]
        /\ UNCHANGED pipe /\ CanSupportNonvolatile
    BY <1>6 DEF GetNonvolatile
  <2> QED
    BY <1>1, <2>1, SupportedFacts, ScriptStepRevision
<1>7. CASE Reprogram
  <2> DEFINE item == Item("program", Value(FirmwareAddress, 0))
  <2>1. /\ item \in Items /\ item.op = "program" /\ item.value.at = FirmwareAddress
        /\ FirmwareAddress # NonvolatileAddress
    BY AddressFacts, ValueFacts, ItemFacts DEF Registers
  <2>2. Asks(item)
    BY <2>1 DEF Asks
  <2>3. pipe' = Append(pipe, item) /\ UNCHANGED script
    BY <1>7 DEF Reprogram, historyVars
  <2> HIDE DEF item
  <2> QED
    BY <1>1, <2>1, <2>2, <2>3, PipeStepRevision
<1> QED
  BY <1>2, <1>3, <1>4, <1>5, <1>6, <1>7 DEF HandleIoctl

LEMMA DataReadRevision == RegsAssumption /\ TypeOK /\ RevisionTrue /\ DataRead => RevisionTrue'
<1> SUFFICES ASSUME RegsAssumption, TypeOK, RevisionTrue, DataRead PROVE RevisionTrue'
  OBVIOUS
<1> DEFINE items == ReadCommand(Upper(FIFO_FC_OFFSET))
<1>1. \A i \in DOMAIN items : Asks(items[i])
  BY AddressFacts, ReadScript, RegisterScriptAsks DEF Registers
<1>2. /\ script' = [script EXCEPT !["data"] = items] /\ "data" \in Threads
      /\ UNCHANGED <<adapter, answers, pipe, fx2_firmware_rev>>
  BY DEF DataRead, Threads, cacheVars
<1> HIDE DEF items
<1> QED
  BY <1>1, <1>2, ScriptStepRevision

LEMMA RevisionNext == RegsAssumption /\ TypeOK /\ RevisionTrue /\ [Next]_vars => RevisionTrue'
<1> SUFFICES ASSUME RegsAssumption, TypeOK, RevisionTrue, [Next]_vars PROVE RevisionTrue'
  OBVIOUS
<1>1. CASE UNCHANGED vars
  BY <1>1, ScriptStepRevision DEF vars, cacheVars, threadVars
<1>2. CASE Release
  BY <1>2, ScriptStepRevision DEF Release, cacheVars
<1>3. CASE Next /\ ~Release
  BY <1>3, SendRevision, SendFailsRevision, SetNextRevision, StartRevision, HandleIoctlRevision,
     DataReadRevision, ExecuteRevision, CompletionRevision DEF Next, IoctlStep, Threads
<1> QED
  BY <1>1, <1>2, <1>3

LEMMA RevisionGuards == RevisionTrue => NvSupported
BY DEF RevisionTrue, PipeAsks, Asks, NvSupported, Supported

\* An adapter without a non-volatile register is never asked for it.
THEOREM NonvolatileOnlyWhereSupported == Spec => []NvSupported
<1>1. RegsAssumption
  BY RegsAssumption
<1>2. Init => TypeOK /\ RevisionTrue
  BY <1>1, InitType, RevisionInit
<1>3. (TypeOK /\ RevisionTrue) /\ [Next]_vars => (TypeOK /\ RevisionTrue)'
  BY <1>1, NextType, RevisionNext
<1> QED
  BY <1>2, <1>3, RevisionGuards, PTL DEF Spec

----------------------------------------------------------------------------
(* The cache never goes back. *)

LEMMA AnswerFacts ==
    ASSUME TypeOK
    PROVE  \A i \in DOMAIN answers : answers[i].stamp \in Nat /\ answers[i].at \in Addresses
<1>1. answers \in Seq(Values)
  BY DEF TypeOK
<1>2. \A i \in DOMAIN answers : answers[i] \in Values
  BY <1>1
<1> QED
  BY <1>2 DEF Values

LEMMA ReadsNoWrite ==
    ASSUME NEW at \in Addresses, NEW i \in DOMAIN ReadCommand(at)
    PROVE  ReadCommand(at)[i].op # "write"
<1>1. i = 1 \/ i = 2
  BY ReadCommandFacts
<1>2. /\ Item("read", Value(at, 0)).op = "read"
      /\ Item("post", Value(at, 0)).op = "post"
  BY DEF Item
<1> QED
  BY <1>1, <1>2, ReadCommandFacts

LEMMA OrderInit == RegsAssumption /\ Init => OrderInv
<1> SUFFICES ASSUME RegsAssumption, Init PROVE OrderInv
  OBVIOUS
<1>1. NothingWritten
  <2>1. \A i \in DOMAIN ReadCommand(Fx2Address) : ReadCommand(Fx2Address)[i].op # "write"
    BY AddressFacts, ReadsNoWrite DEF Registers
  <2>2. \A t \in Threads : \A i \in DOMAIN script[t] : script[t][i].op # "write"
    BY <2>1 DEF Init
  <2>3. bound.stamp = 0 /\ setting.slots = {}
    BY DEF Init, NoSetting
  <2> QED
    BY <2>2, <2>3 DEF NothingWritten
<1>2. \A at \in Addresses : adapter[at].stamp = 0
  BY DEF Init, Value
<1>3. WritesOrdered
  BY <1>2 DEF Init, WritesOrdered, Registers
<1>4. \A o \in Offsets : register_storage[o].stamp = 0 /\ SetAddress(o) \in Addresses
  BY AddressFacts DEF Init, Value, Registers
<1>5. AnswersOrdered
  BY <1>2, <1>4 DEF Init, AnswersOrdered
<1> QED
  BY <1>1, <1>3, <1>5 DEF OrderInv

LEMMA NothingWrittenNext ==
    TypeOK /\ OrderInv /\ [Next]_vars => NothingWritten'
<1> SUFFICES ASSUME TypeOK, OrderInv, [Next]_vars, phase' = "new"
             PROVE  NothingWritten'
  BY DEF NothingWritten
<1>1. phase = "new"
  BY DEF Next, IoctlStep, HandleIoctl, Start, Completion, Send, SendFails, SetNext, StartDefaults,
         StartClock, StartIdentify, StartNonvolatile, SetRegisters, GetRegisters, SetClockBits,
         SetNonvolatile, GetNonvolatile, Reprogram, Ioctl, Release, DataRead, Execute, Meet,
         CompletionError, CompletionNonvolatile, CompletionFx2, CompletionRegister, vars, threadVars
<1>2. /\ bound.stamp = 0 /\ setting.slots = {}
      /\ \A t \in Threads : \A i \in DOMAIN script[t] : script[t][i].op # "write"
  BY <1>1 DEF OrderInv, NothingWritten
<1>3. CASE UNCHANGED <<script, setting, bound>>
  BY <1>2, <1>3 DEF NothingWritten
<1>4. ASSUME NEW t \in Threads, Send(t) PROVE NothingWritten'
  <2>1. script[t] \in Seq(Items) /\ script[t] # <<>>
    BY <1>4 DEF Send, TypeOK
  <2>2. Head(script[t]).op # "write"
    BY <1>2, <2>1, TailFacts
  <2>3. \A i \in DOMAIN Tail(script[t]) : Tail(script[t])[i].op # "write"
    BY <1>2, <2>1, TailFacts
  <2>4. UNCHANGED <<bound, setting>>
    BY <1>4, <2>2 DEF Send
  <2>5. \A u \in Threads : script'[u] = IF u = t THEN Tail(script[t]) ELSE script[u]
    BY <1>4 DEF Send, TypeOK
  <2> QED
    BY <1>2, <2>3, <2>4, <2>5 DEF NothingWritten
<1>5. ASSUME NEW t \in Threads, SendFails(t) PROVE NothingWritten'
  <2>1. script[t] \in Seq(Items) /\ script[t] # <<>>
    BY <1>5 DEF SendFails, TypeOK
  <2>2. \A i \in DOMAIN AfterFailure(script[t]) : AfterFailure(script[t])[i].op # "write"
    BY <1>2, <2>1, AfterFailureFacts
  <2>3. bound'.stamp = bound.stamp /\ UNCHANGED setting
    BY <1>5 DEF SendFails, TypeOK
  <2>4. \A u \in Threads : script'[u] = IF u = t THEN AfterFailure(script[t]) ELSE script[u]
    BY <1>5 DEF SendFails, TypeOK
  <2> QED
    BY <1>2, <2>2, <2>3, <2>4 DEF NothingWritten
<1>6. ~SetNext
  BY <1>2 DEF SetNext
<1>7. ~Start
  BY DEF Start, StartDefaults, StartClock, StartIdentify, StartNonvolatile
<1>8. ~HandleIoctl /\ ~DataRead
  BY <1>1 DEF HandleIoctl, SetRegisters, GetRegisters, SetClockBits, SetNonvolatile,
              GetNonvolatile, Reprogram, Ioctl, DataRead
<1>9. CASE Release \/ Execute \/ Completion \/ UNCHANGED vars
  BY <1>3, <1>9 DEF Release, Execute, Completion, Meet, CompletionError, CompletionNonvolatile,
                    CompletionFx2, CompletionRegister, vars, threadVars
<1> QED
  BY <1>4, <1>5, <1>6, <1>7, <1>8, <1>9 DEF Next, IoctlStep, Threads

\* A step that puts one item into the pipe; the number of a write is new.
LEMMA PipeStepOrder ==
    ASSUME TypeOK, WritesOrdered, NEW item \in Items, pipe' = Append(pipe, item),
           UNCHANGED adapter, bound.stamp <= bound'.stamp, bound'.stamp \in Nat,
           Writes(item) => bound.stamp < item.value.stamp /\ item.value.stamp <= bound'.stamp
    PROVE  WritesOrdered'
<1>1. pipe \in Seq(Items) /\ bound.stamp \in Nat
  BY DEF TypeOK
<1>2. /\ \A i \in DOMAIN pipe' : \/ i \in DOMAIN pipe /\ pipe'[i] = pipe[i]
                                 \/ i = Len(pipe) + 1 /\ pipe'[i] = item
      /\ \A i \in DOMAIN pipe' : pipe'[i] \in Items
  <2>1. pipe' \in Seq(Items)
    BY <1>1, AppendFacts
  <2> QED
    BY <1>1, <2>1, AppendFacts
<1>3. \A x \in Items : x.value.stamp \in Nat
  BY DEF Items, Values
<1>4. \A at \in Registers : adapter[at].stamp \in Nat
  BY DEF TypeOK, Values, Registers
<1>5. \A at \in Registers : adapter'[at].stamp <= bound'.stamp
  BY <1>1, <1>4 DEF WritesOrdered
<1>6. ASSUME NEW i \in DOMAIN pipe', Writes(pipe'[i])
      PROVE  /\ pipe'[i].value.stamp <= bound'.stamp
             /\ \A at \in Registers : adapter'[at].stamp <= pipe'[i].value.stamp
  <2>1. CASE i \in DOMAIN pipe /\ pipe'[i] = pipe[i]
    BY <1>1, <1>2, <1>3, <1>6, <2>1 DEF WritesOrdered
  <2>2. CASE pipe'[i] = item
    <3>1. bound.stamp < item.value.stamp /\ item.value.stamp <= bound'.stamp
      BY <1>6, <2>2
    <3> QED
      BY <1>1, <1>3, <1>4, <2>2, <3>1 DEF WritesOrdered
  <2> QED
    BY <1>2, <2>1, <2>2
<1>7. ASSUME NEW i \in DOMAIN pipe', NEW j \in DOMAIN pipe', i < j,
             Writes(pipe'[i]), Writes(pipe'[j])
      PROVE  pipe'[i].value.stamp <= pipe'[j].value.stamp
  <2>1. i \in DOMAIN pipe /\ pipe'[i] = pipe[i]
    BY <1>1, <1>2, <1>7
  <2>2. CASE j \in DOMAIN pipe /\ pipe'[j] = pipe[j]
    BY <1>7, <2>1, <2>2 DEF WritesOrdered
  <2>3. CASE pipe'[j] = item
    <3>1. bound.stamp < item.value.stamp
      BY <1>7, <2>3
    <3>2. pipe[i].value.stamp <= bound.stamp
      BY <1>7, <2>1 DEF WritesOrdered
    <3> QED
      BY <1>1, <1>2, <1>3, <2>1, <2>3, <3>1, <3>2
  <2> QED
    BY <1>2, <2>2, <2>3
<1> QED
  BY <1>5, <1>6, <1>7 DEF WritesOrdered, Writes

LEMMA SendOrder ==
    TypeOK /\ WritesOrdered /\ (\E t \in Threads : Send(t)) => WritesOrdered'
<1> SUFFICES ASSUME TypeOK, WritesOrdered, NEW t \in Threads, Send(t) PROVE WritesOrdered'
  OBVIOUS
<1> DEFINE item == Head(script[t])
<1>1. item \in Items
  BY TailFacts DEF Send, TypeOK
<1>2. /\ Stamped(item) \in Items /\ Stamped(item).op = item.op
      /\ item.op = "write" => Stamped(item).value.stamp = bound.stamp + 1
  BY <1>1, StampedFacts
<1>3. bound \in [ioctls : Nat, events : Nat, stamp : Nat]
  BY DEF TypeOK
<1>4. UNCHANGED adapter
  BY DEF Send
<1>5. CASE item.op = "post"
  BY <1>4, <1>5 DEF Send, WritesOrdered
<1>6. CASE item.op # "post"
  <2>1. /\ pipe' = Append(pipe, Stamped(item))
        /\ bound' = IF item.op = "write" THEN [bound EXCEPT !.stamp = @ + 1] ELSE bound
    BY <1>6 DEF Send
  <2>2. /\ item.op = "write" => bound'.stamp = bound.stamp + 1
        /\ item.op # "write" => bound'.stamp = bound.stamp
    BY <1>3, <2>1
  <2> HIDE DEF item
  <2>3. bound.stamp <= bound'.stamp /\ bound'.stamp \in Nat
    BY <1>3, <2>2
  <2>4. Writes(Stamped(item)) =>
           bound.stamp < Stamped(item).value.stamp /\ Stamped(item).value.stamp <= bound'.stamp
    BY <1>2, <1>3, <2>2 DEF Writes
  <2> QED
    BY <1>2, <1>4, <2>1, <2>3, <2>4, PipeStepOrder
<1> QED
  BY <1>5, <1>6

LEMMA IoctlOrder == TypeOK /\ WritesOrdered /\ HandleIoctl => WritesOrdered'
<1> SUFFICES ASSUME TypeOK, WritesOrdered, HandleIoctl PROVE WritesOrdered'
  OBVIOUS
<1>1. /\ bound' = [bound EXCEPT !.ioctls = @ + 1] /\ UNCHANGED adapter
      /\ bound \in [ioctls : Nat, events : Nat, stamp : Nat]
  BY DEF HandleIoctl, SetRegisters, GetRegisters, SetClockBits, SetNonvolatile, GetNonvolatile,
         Reprogram, Ioctl, TypeOK
<1>2. bound'.stamp = bound.stamp /\ bound.stamp <= bound'.stamp /\ bound'.stamp \in Nat
  BY <1>1
<1>3. CASE SetNonvolatile \/ Reprogram
  <2>1. PICK item : /\ pipe' = Append(pipe, item) /\ item \in Items
                    /\ item.value.at = NonvolatileAddress \/ item.op = "program"
    <3>1. Choice \in Int
      BY DEF Choice, TypeOK
    <3>2. /\ Item("write", Value(NonvolatileAddress, Choice)) \in Items
          /\ Item("write", Value(NonvolatileAddress, Choice)).value.at = NonvolatileAddress
      <4>1. NonvolatileAddress \in Addresses
        BY DEF Addresses
      <4> QED
        BY <3>1, <4>1, ValueFacts, ItemFacts
    <3>3. /\ Item("program", Value(FirmwareAddress, 0)) \in Items
          /\ Item("program", Value(FirmwareAddress, 0)).op = "program"
      <4>1. FirmwareAddress \in Addresses
        BY DEF Addresses
      <4> QED
        BY <4>1, ValueFacts, ItemFacts
    <3> QED
      BY <1>3, <3>2, <3>3 DEF SetNonvolatile, Reprogram
  <2>2. ~Writes(item)
    BY <2>1, RegistersHaveNoNonvolatile DEF Writes
  <2> QED
    BY <1>1, <1>2, <2>1, <2>2, PipeStepOrder
<1>4. CASE ~(SetNonvolatile \/ Reprogram)
  <2>1. UNCHANGED pipe
    BY <1>4 DEF HandleIoctl, SetRegisters, GetRegisters, SetClockBits, GetNonvolatile
  <2> QED
    BY <1>1, <1>2, <2>1 DEF WritesOrdered
<1> QED
  BY <1>3, <1>4

LEMMA ExecuteOrder ==
    RegsAssumption /\ TypeOK /\ AdapterTrue /\ WritesOrdered /\ AnswersOrdered /\ Execute
        => WritesOrdered' /\ AnswersOrdered'
<1> SUFFICES ASSUME RegsAssumption, TypeOK, AdapterTrue, WritesOrdered, AnswersOrdered, Execute
             PROVE  WritesOrdered' /\ AnswersOrdered'
  OBVIOUS
<1> DEFINE command == Head(pipe)
           at == command.value.at
<1>1. /\ pipe # <<>> /\ command \in Items /\ command = pipe[1] /\ 1 \in DOMAIN pipe
      /\ \A i \in DOMAIN pipe' : i + 1 \in DOMAIN pipe /\ pipe'[i] = pipe[i + 1] /\ i \in Nat \ {0}
  <2>1. pipe # <<>> /\ pipe \in Seq(Items) /\ pipe' = Tail(pipe)
    BY DEF Execute, TypeOK
  <2>2. \A i \in DOMAIN Tail(pipe) : i \in Nat \ {0}
    BY <2>1
  <2> QED
    BY <2>1, <2>2, TailFacts
<1>2. /\ adapter' = IF command.op = "write" THEN [adapter EXCEPT ![at] = command.value] ELSE adapter
      /\ answers' = IF command.op = "read" THEN Append(answers, adapter[at]) ELSE answers
      /\ UNCHANGED <<register_storage, bound>>
  BY DEF Execute, cacheVars
<1>3. at \in Addresses /\ command.value.stamp \in Nat
  BY <1>1 DEF Items, Values
<1>4. \A a \in Registers : adapter[a].stamp \in Nat
  BY DEF TypeOK, Values, Registers
<1>5. \A i \in DOMAIN pipe : pipe[i] \in Items
  BY DEF TypeOK
<1>6. \A i \in DOMAIN answers : answers[i].stamp \in Nat
  BY AnswerFacts
<1>7. \A o \in Offsets : register_storage[o].stamp \in Nat
  BY DEF TypeOK, Values
<1> HIDE DEF command
<1>8. \A a \in Registers :
         /\ adapter'[a] = IF command.op = "write" /\ a = at THEN command.value ELSE adapter[a]
         /\ adapter[a].stamp <= adapter'[a].stamp
         /\ adapter'[a].stamp \in Nat
  <2>1. \A a \in Registers :
           adapter'[a] = IF command.op = "write" /\ a = at THEN command.value ELSE adapter[a]
    BY <1>2, <1>3 DEF TypeOK, Registers
  <2>2. ASSUME NEW a \in Registers, command.op = "write", a = at
        PROVE  adapter[a].stamp <= command.value.stamp
    BY <1>1, <2>2 DEF WritesOrdered, Writes
  <2> QED
    BY <1>3, <1>4, <2>1, <2>2
<1>9. WritesOrdered'
  <2>1. ASSUME NEW a \in Registers PROVE adapter'[a].stamp <= bound'.stamp
    BY <1>1, <1>2, <1>8, <2>1 DEF WritesOrdered, Writes
  <2>2. ASSUME NEW i \in DOMAIN pipe', Writes(pipe'[i])
        PROVE  /\ pipe'[i].value.stamp <= bound'.stamp
               /\ \A a \in Registers : adapter'[a].stamp <= pipe'[i].value.stamp
               /\ \A j \in DOMAIN pipe' :
                     i < j /\ Writes(pipe'[j]) => pipe'[i].value.stamp <= pipe'[j].value.stamp
    <3>1. i + 1 \in DOMAIN pipe /\ pipe'[i] = pipe[i + 1] /\ 1 < i + 1
      BY <1>1
    <3>2. pipe'[i].value.stamp <= bound'.stamp
      BY <1>2, <2>2, <3>1 DEF WritesOrdered
    <3>3. ASSUME NEW a \in Registers PROVE adapter'[a].stamp <= pipe'[i].value.stamp
      <4>1. CASE command.op = "write" /\ a = at
        <5>1. Writes(pipe[1]) /\ Writes(pipe[i + 1])
          BY <1>1, <2>2, <3>1, <4>1 DEF Writes
        <5>2. pipe[1].value.stamp <= pipe[i + 1].value.stamp
          BY <1>1, <3>1, <5>1 DEF WritesOrdered
        <5> QED
          BY <1>1, <1>8, <3>1, <4>1, <5>2
      <4>2. CASE ~(command.op = "write" /\ a = at)
        BY <1>8, <2>2, <3>1, <4>2 DEF WritesOrdered
      <4> QED
        BY <4>1, <4>2
    <3>4. ASSUME NEW j \in DOMAIN pipe', i < j, Writes(pipe'[j])
          PROVE  pipe'[i].value.stamp <= pipe'[j].value.stamp
      <4>1. j + 1 \in DOMAIN pipe /\ pipe'[j] = pipe[j + 1] /\ i + 1 < j + 1
        BY <1>1, <3>4
      <4> QED
        BY <2>2, <3>1, <3>4, <4>1 DEF WritesOrdered
    <3> QED
      BY <3>2, <3>3, <3>4
  <2> QED
    BY <2>1, <2>2 DEF WritesOrdered, Writes
<1>10. \A o \in Offsets : register_storage'[o].stamp <= adapter'[SetAddress(o)].stamp
  <2>1. \A o \in Offsets : SetAddress(o) \in Registers
    BY AddressFacts
  <2> QED
    BY <1>2, <1>4, <1>7, <1>8, <2>1 DEF AnswersOrdered
<1>11. AnswersOrdered'
  <2>1. CASE command.op # "read"
    <3>1. answers' = answers
      BY <1>2, <2>1
    <3>2. \A i \in DOMAIN answers : answers[i].at \in Registers =>
             answers[i].stamp <= adapter'[answers[i].at].stamp
      BY <1>4, <1>6, <1>8 DEF AnswersOrdered
    <3> QED
      BY <1>2, <1>10, <3>1, <3>2 DEF AnswersOrdered
  <2>2. CASE command.op = "read"
    <3>1. answers \in Seq(Values) /\ adapter[at] \in Values /\ adapter[at].at = at
      BY <1>3 DEF TypeOK, AdapterTrue
    <3>2. adapter' = adapter /\ answers' = Append(answers, adapter[at])
      BY <1>2, <2>2
    <3>3. \A i \in DOMAIN answers' :
             \/ i \in DOMAIN answers /\ answers'[i] = answers[i]
             \/ i = Len(answers) + 1 /\ answers'[i] = adapter[at]
      BY <3>1, <3>2, AppendFacts
    <3>4. ASSUME NEW i \in DOMAIN answers', answers'[i].at \in Registers
          PROVE  /\ answers'[i].stamp <= adapter'[answers'[i].at].stamp
                 /\ \A o \in Offsets : answers'[i].at = SetAddress(o) =>
                       register_storage'[o].stamp <= answers'[i].stamp
      <4>1. CASE i \in DOMAIN answers /\ answers'[i] = answers[i]
        BY <1>2, <3>2, <3>4, <4>1 DEF AnswersOrdered
      <4>2. CASE answers'[i] = adapter[at]
        BY <1>2, <1>4, <3>1, <3>2, <3>4, <4>2, SMTT(30) DEF AnswersOrdered
      <4> QED
        BY <3>3, <4>1, <4>2
    <3>5. ASSUME NEW i \in DOMAIN answers', answers'[i].at \in Registers,
                 NEW j \in DOMAIN answers', i < j, answers'[j].at = answers'[i].at
          PROVE  answers'[i].stamp <= answers'[j].stamp
      <4>1. i \in DOMAIN answers /\ answers'[i] = answers[i]
        BY <3>1, <3>3, <3>5
      <4>2. CASE j \in DOMAIN answers /\ answers'[j] = answers[j]
        BY <3>5, <4>1, <4>2 DEF AnswersOrdered
      <4>3. CASE answers'[j] = adapter[at]
        BY <3>1, <3>5, <4>1, <4>3 DEF AnswersOrdered
      <4> QED
        BY <3>3, <4>2, <4>3
    <3> QED
      BY <1>10, <3>4, <3>5 DEF AnswersOrdered
  <2> QED
    BY <2>1, <2>2
<1> QED
  BY <1>9, <1>11

LEMMA CompletionOrder ==
    RegsAssumption /\ TypeOK /\ AnswersOrdered /\ Completion
        => /\ AnswersOrdered'
           /\ \A o \in Offsets : register_storage'[o].stamp >= register_storage[o].stamp
<1> SUFFICES ASSUME RegsAssumption, TypeOK, AnswersOrdered, Completion
             PROVE  /\ AnswersOrdered'
                    /\ \A o \in Offsets : register_storage'[o].stamp >= register_storage[o].stamp
  OBVIOUS
<1>1. Meet
  BY DEF Completion, CompletionError, CompletionNonvolatile, CompletionFx2, CompletionRegister
<1>2. /\ Head(answers) = answers[1] /\ 1 \in DOMAIN answers
      /\ \A i \in DOMAIN answers' :
            i + 1 \in DOMAIN answers /\ answers'[i] = answers[i + 1] /\ 1 < i + 1 /\ i \in Nat
  <2>1. answers # <<>> /\ answers \in Seq(Values) /\ answers' = Tail(answers)
    BY <1>1 DEF Meet, TypeOK
  <2>2. \A i \in DOMAIN Tail(answers) : 1 < i + 1 /\ i \in Nat
    BY <2>1
  <2> QED
    BY <2>1, <2>2, TailFacts
<1>3. \A o \in Offsets : register_storage[o].stamp \in Nat /\ SetAddress(o) \in Registers
  BY AddressFacts DEF TypeOK, Values
<1>4. \A i \in DOMAIN answers : answers[i].stamp \in Nat /\ answers[i].at \in Addresses
  BY AnswerFacts
<1>5. ASSUME NEW o \in Offsets
      PROVE  \/ register_storage'[o] = register_storage[o]
             \/ register_storage'[o] = answers[1] /\ answers[1].at = SetAddress(o)
  <2>1. CASE CompletionRegister
    <3>1. register_storage'[o] = IF CachedAt(o, answers[1].at) THEN answers[1]
                                 ELSE register_storage[o]
      BY <1>2, <2>1 DEF CompletionRegister
    <3>2. CachedAt(o, answers[1].at) => answers[1].at = SetAddress(o)
      BY <1>2, <1>4, CachedAtFacts
    <3> QED
      BY <3>1, <3>2
  <2>2. CASE ~CompletionRegister
    BY <2>2 DEF Completion, CompletionError, CompletionNonvolatile, CompletionFx2, cacheVars
  <2> QED
    BY <2>1, <2>2
<1>6. ASSUME NEW o \in Offsets PROVE register_storage'[o].stamp >= register_storage[o].stamp
  <2>1. register_storage[o].stamp \in Nat
    BY <1>3
  <2>2. CASE register_storage'[o] = register_storage[o]
    BY <2>1, <2>2
  <2>3. CASE register_storage'[o] = answers[1] /\ answers[1].at = SetAddress(o)
    <3>1. answers[1].stamp \in Nat /\ SetAddress(o) \in Registers
      BY <1>2, <1>3, <1>4
    <3>2. register_storage[o].stamp <= answers[1].stamp
      BY <1>2, <2>3, <3>1 DEF AnswersOrdered
    <3> QED
      BY <2>1, <2>3, <3>1, <3>2
  <2> QED
    BY <1>5, <2>2, <2>3
<1>7. ASSUME NEW o \in Offsets PROVE register_storage'[o].stamp <= adapter'[SetAddress(o)].stamp
  BY <1>1, <1>2, <1>3, <1>5 DEF AnswersOrdered, Meet
<1>8. ASSUME NEW i \in DOMAIN answers', answers'[i].at \in Registers
      PROVE  /\ answers'[i].stamp <= adapter'[answers'[i].at].stamp
             /\ \A j \in DOMAIN answers' :
                   i < j /\ answers'[j].at = answers'[i].at => answers'[i].stamp <= answers'[j].stamp
  BY <1>1, <1>2, <1>8 DEF AnswersOrdered, Meet
<1>9. ASSUME NEW i \in DOMAIN answers', NEW o \in Offsets, answers'[i].at = SetAddress(o)
      PROVE  register_storage'[o].stamp <= answers'[i].stamp
  <2>1. i + 1 \in DOMAIN answers /\ answers'[i] = answers[i + 1] /\ 1 < i + 1
        /\ answers[i + 1].at \in Registers
    BY <1>2, <1>3, <1>9
  <2>2. CASE register_storage'[o] = register_storage[o]
    BY <1>9, <2>1, <2>2 DEF AnswersOrdered
  <2>3. CASE register_storage'[o] = answers[1] /\ answers[1].at = SetAddress(o)
    BY <1>2, <1>3, <1>9, <2>1, <2>3 DEF AnswersOrdered
  <2> QED
    BY <1>5, <2>2, <2>3
<1> QED
  BY <1>6, <1>7, <1>8, <1>9 DEF AnswersOrdered

LEMMA DefaultsOrder ==
    RegsAssumption /\ TypeOK /\ OrderInv /\ StartDefaults
        => /\ AnswersOrdered'
           /\ \A o \in Offsets : register_storage'[o].stamp >= register_storage[o].stamp
<1> SUFFICES ASSUME RegsAssumption, TypeOK, OrderInv, StartDefaults
             PROVE  /\ AnswersOrdered'
                    /\ \A o \in Offsets : register_storage'[o].stamp >= register_storage[o].stamp
  OBVIOUS
<1>1. \A o \in Offsets : register_storage'[o].stamp = 0
  BY DEF StartDefaults, Value
<1>2. UNCHANGED <<adapter, answers>>
  BY DEF StartDefaults, StartUnchanged
<1>3. bound.stamp = 0
  BY DEF OrderInv, NothingWritten, StartDefaults
<1>4. \A o \in Offsets : SetAddress(o) \in Registers /\ SetAddress(o) \in Addresses
  BY AddressFacts DEF Registers
<1>5. \A o \in Offsets : /\ register_storage[o].stamp \in Nat /\ adapter[SetAddress(o)].stamp \in Nat
                         /\ register_storage[o].stamp <= adapter[SetAddress(o)].stamp
                         /\ adapter[SetAddress(o)].stamp <= 0
  BY <1>3, <1>4 DEF TypeOK, Values, OrderInv, WritesOrdered, AnswersOrdered
<1>6. \A i \in DOMAIN answers : answers[i].stamp \in Nat
  BY AnswerFacts
<1> QED
  BY <1>1, <1>2, <1>5, <1>6 DEF OrderInv, AnswersOrdered

\* A step changes the adapter, its answers or the cache only if it is one of
\* Execute, Completion and StartDefaults.
LEMMA OtherSteps ==
    ASSUME [Next]_vars, ~Execute, ~Completion, ~StartDefaults
    PROVE  /\ UNCHANGED <<adapter, answers, register_storage>>
           /\ \/ UNCHANGED <<pipe, bound>>
              \/ UNCHANGED pipe /\ bound' = [bound EXCEPT !.events = @ + 1]
              \/ HandleIoctl
              \/ \E t \in Threads : Send(t)
BY DEF Next, IoctlStep, HandleIoctl, Start, Send, SendFails, SetNext, StartClock, StartIdentify,
       StartNonvolatile, StartUnchanged, SetRegisters, GetRegisters, SetClockBits, SetNonvolatile,
       GetNonvolatile, Reprogram, Ioctl, Release, DataRead, vars, cacheVars, Threads

LEMMA OrderNext ==
    RegsAssumption /\ TypeOK /\ RevisionTrue /\ OrderInv /\ [Next]_vars
        => /\ OrderInv'
           /\ \A o \in Offsets : register_storage'[o].stamp >= register_storage[o].stamp
<1> SUFFICES ASSUME RegsAssumption, TypeOK, RevisionTrue, OrderInv, [Next]_vars
             PROVE  /\ WritesOrdered' /\ AnswersOrdered'
                    /\ \A o \in Offsets : register_storage'[o].stamp >= register_storage[o].stamp
  BY NothingWrittenNext DEF OrderInv
<1>1. \A o \in Offsets : register_storage[o].stamp \in Nat
  BY DEF TypeOK, Values
<1>2. CASE Execute
  <2>1. WritesOrdered' /\ AnswersOrdered'
    BY <1>2, ExecuteOrder DEF OrderInv, RevisionTrue
  <2> QED
    BY <1>1, <1>2, <2>1 DEF Execute, cacheVars
<1>3. CASE Completion
  <2>1. WritesOrdered'
    BY <1>3 DEF OrderInv, WritesOrdered, Completion, CompletionError, CompletionNonvolatile,
                CompletionFx2, CompletionRegister, Meet
  <2> QED
    BY <1>3, <2>1, CompletionOrder DEF OrderInv
<1>4. CASE StartDefaults
  <2>1. WritesOrdered'
    BY <1>4 DEF OrderInv, WritesOrdered, StartDefaults, StartUnchanged
  <2> QED
    BY <1>4, <2>1, DefaultsOrder
<1>5. CASE ~Execute /\ ~Completion /\ ~StartDefaults
  <2>1. UNCHANGED <<adapter, answers, register_storage>>
    BY <1>5, OtherSteps
  <2>2. AnswersOrdered'
    BY <2>1 DEF OrderInv, AnswersOrdered
  <2>3. WritesOrdered'
    <3>1. CASE UNCHANGED <<pipe, bound>>
      BY <2>1, <3>1 DEF OrderInv, WritesOrdered
    <3>2. CASE UNCHANGED pipe /\ bound' = [bound EXCEPT !.events = @ + 1]
      <4>1. bound'.stamp = bound.stamp
        BY <3>2 DEF TypeOK
      <4> QED
        BY <2>1, <3>2, <4>1 DEF OrderInv, WritesOrdered
    <3>3. CASE HandleIoctl
      BY <3>3, IoctlOrder DEF OrderInv
    <3>4. CASE \E t \in Threads : Send(t)
      BY <3>4, SendOrder DEF OrderInv
    <3> QED
      BY <1>5, <3>1, <3>2, <3>3, <3>4, OtherSteps
  <2>4. \A o \in Offsets : register_storage'[o].stamp >= register_storage[o].stamp
    BY <1>1, <2>1
  <2> QED
    BY <2>2, <2>3, <2>4
<1> QED
  BY <1>2, <1>3, <1>4, <1>5

\* The cache never goes back to the result of an earlier write.
THEOREM CacheMovesForward == Spec => ReadsForward
<1>1. RegsAssumption
  BY RegsAssumption
<1>2. Init => TypeOK /\ RevisionTrue /\ OrderInv
  BY <1>1, InitType, RevisionInit, OrderInit
<1>3. (TypeOK /\ RevisionTrue /\ OrderInv) /\ [Next]_vars => (TypeOK /\ RevisionTrue /\ OrderInv)'
  BY <1>1, NextType, RevisionNext, OrderNext
<1>4. (TypeOK /\ RevisionTrue /\ OrderInv) /\ [Next]_vars
         => [\A o \in Offsets : register_storage'[o].stamp >= register_storage[o].stamp]_vars
  BY <1>1, OrderNext
<1> QED
  BY <1>2, <1>3, <1>4, PTL DEF Spec, ReadsForward

----------------------------------------------------------------------------
(* Writes and reads on their way.  The operators below take the sequences as *)
(* parameters: they are used of the state before a step and after it.        *)

WritesTo(item, at) == item.op = "write" /\ item.value.at = at
ReadsOf(item, at)  == item.op = "read" /\ item.value.at = at

NoWriteTo(q, at) == \A i \in DOMAIN q : ~WritesTo(q[i], at)

\* The last write of a register in q has choice c; without one, the adapter has.
LastWriteIs(q, at, c, now) ==
    /\ \A i \in DOMAIN q :
          WritesTo(q[i], at) /\ (\A j \in DOMAIN q : j > i => ~WritesTo(q[j], at))
              => q[i].value.choice = c
    /\ NoWriteTo(q, at) => now = c

\* The last answer about a register has choice c; without one, the copy has.
LastAnswerIs(a, at, c, copy) ==
    /\ \A i \in DOMAIN a :
          a[i].at = at /\ (\A j \in DOMAIN a : j > i => a[j].at # at) => a[i].choice = c
    /\ (\A i \in DOMAIN a : a[i].at # at) => copy = c

\* A read comes after the last write.
ReadPending(q, at) ==
    \E i \in DOMAIN q : ReadsOf(q[i], at) /\ \A j \in DOMAIN q : j > i => ~WritesTo(q[j], at)

\* The copy of a register is, or is about to be, the adapter's: a read is still
\* to be sent, or on its way after the last write, or has been answered.
Refreshing(s, q, a, at, c, copy) ==
    \/ \E i \in DOMAIN s : ReadsOf(s[i], at)
    \/ ReadPending(q, at)
    \/ NoWriteTo(q, at) /\ LastAnswerIs(a, at, c, copy)

LEMMA AppendIndexes ==
    ASSUME NEW S, NEW q \in Seq(S), NEW x \in S
    PROVE  /\ DOMAIN Append(q, x) = 1..(Len(q) + 1) /\ DOMAIN q = 1..Len(q) /\ Len(q) \in Nat
           /\ Append(q, x)[Len(q) + 1] = x
           /\ \A i \in DOMAIN q : i \in DOMAIN Append(q, x) /\ i <= Len(q) /\ Append(q, x)[i] = q[i]
           /\ \A i \in DOMAIN Append(q, x) :
                 \/ i \in DOMAIN q /\ Append(q, x)[i] = q[i]
                 \/ i = Len(q) + 1 /\ Append(q, x)[i] = x
OBVIOUS

LEMMA TailIndexes ==
    ASSUME NEW S, NEW q \in Seq(S), q # <<>>
    PROVE  /\ 1 \in DOMAIN q /\ Head(q) = q[1]
           /\ \A i \in DOMAIN Tail(q) : i \in Nat /\ i >= 1 /\ i + 1 \in DOMAIN q /\ Tail(q)[i] = q[i + 1]
           /\ \A i \in DOMAIN q : i \in Nat /\ (i = 1 \/ (i > 1 /\ i - 1 \in DOMAIN Tail(q) /\ Tail(q)[i - 1] = q[i]))
OBVIOUS

\* Something else is sent.
LEMMA AppendOther ==
    ASSUME NEW S, NEW q \in Seq(S), NEW x \in S, NEW at, ~WritesTo(x, at)
    PROVE  /\ NoWriteTo(q, at) => NoWriteTo(Append(q, x), at)
           /\ ReadPending(q, at) => ReadPending(Append(q, x), at)
           /\ \A c, now : LastWriteIs(q, at, c, now) => LastWriteIs(Append(q, x), at, c, now)
<1> DEFINE r == Append(q, x)
<1>1. /\ DOMAIN r = 1..(Len(q) + 1) /\ DOMAIN q = 1..Len(q) /\ Len(q) \in Nat
      /\ \A i \in DOMAIN q : i \in DOMAIN r /\ r[i] = q[i]
      /\ \A i \in DOMAIN r : \/ i \in DOMAIN q /\ r[i] = q[i]
                             \/ i = Len(q) + 1 /\ r[i] = x
  BY AppendIndexes
<1> HIDE DEF r
<1>2. \A i \in DOMAIN r : WritesTo(r[i], at) => i \in DOMAIN q /\ r[i] = q[i]
  BY <1>1
<1>3. NoWriteTo(q, at) => NoWriteTo(r, at)
  BY <1>2 DEF NoWriteTo
<1>4. NoWriteTo(r, at) => NoWriteTo(q, at)
  BY <1>1 DEF NoWriteTo
<1>5. ReadPending(q, at) => ReadPending(r, at)
  <2> SUFFICES ASSUME NEW i \in DOMAIN q, ReadsOf(q[i], at),
                      \A j \in DOMAIN q : j > i => ~WritesTo(q[j], at)
               PROVE  ReadPending(r, at)
    BY DEF ReadPending
  <2>1. i \in DOMAIN r /\ ReadsOf(r[i], at)
    BY <1>1
  <2>2. \A j \in DOMAIN r : j > i => ~WritesTo(r[j], at)
    BY <1>2
  <2> QED
    BY <2>1, <2>2 DEF ReadPending
<1>6. ASSUME NEW c, NEW now, LastWriteIs(q, at, c, now) PROVE LastWriteIs(r, at, c, now)
  <2>1. ASSUME NEW i \in DOMAIN r, WritesTo(r[i], at), \A j \in DOMAIN r : j > i => ~WritesTo(r[j], at)
        PROVE  r[i].value.choice = c
    <3>1. i \in DOMAIN q /\ r[i] = q[i]
      BY <1>2, <2>1
    <3>2. \A j \in DOMAIN q : j > i => ~WritesTo(q[j], at)
      BY <1>1, <2>1
    <3> QED
      BY <1>6, <2>1, <3>1, <3>2 DEF LastWriteIs
  <2> QED
    BY <1>4, <1>6, <2>1 DEF LastWriteIs
<1> QED
  BY <1>3, <1>5, <1>6 DEF r

\* A write of the register, or a read of it, is sent.
LEMMA AppendThis ==
    ASSUME NEW S, NEW q \in Seq(S), NEW x \in S, NEW at
    PROVE  /\ WritesTo(x, at) => \A now : LastWriteIs(Append(q, x), at, x.value.choice, now)
           /\ ReadsOf(x, at) => ReadPending(Append(q, x), at)
<1> DEFINE r == Append(q, x)
<1>1. /\ DOMAIN r = 1..(Len(q) + 1) /\ DOMAIN q = 1..Len(q) /\ Len(q) \in Nat
      /\ r[Len(q) + 1] = x
  BY AppendIndexes
<1> HIDE DEF r
<1>2. Len(q) + 1 \in DOMAIN r /\ \A j \in DOMAIN r : ~(j > Len(q) + 1)
  BY <1>1
<1>3. \A i \in DOMAIN r : i = Len(q) + 1 \/ Len(q) + 1 > i
  BY <1>1
<1>4. ASSUME WritesTo(x, at), NEW now PROVE LastWriteIs(r, at, x.value.choice, now)
  <2>1. ASSUME NEW i \in DOMAIN r, WritesTo(r[i], at), \A j \in DOMAIN r : j > i => ~WritesTo(r[j], at)
        PROVE  r[i].value.choice = x.value.choice
    BY <1>1, <1>2, <1>3, <1>4, <2>1
  <2> QED
    BY <1>1, <1>2, <1>4, <2>1 DEF LastWriteIs, NoWriteTo
<1>5. ReadsOf(x, at) => ReadPending(r, at)
  BY <1>1, <1>2 DEF ReadPending
<1> QED
  BY <1>4, <1>5 DEF r

\* The command at the head of the pipe is executed.
LEMMA TailWrites ==
    ASSUME NEW S, NEW q \in Seq(S), q # <<>>, NEW at
    PROVE  /\ NoWriteTo(q, at) => ~WritesTo(Head(q), at) /\ NoWriteTo(Tail(q), at)
           /\ ReadPending(q, at) => \/ ReadPending(Tail(q), at)
                                    \/ ReadsOf(Head(q), at) /\ NoWriteTo(Tail(q), at)
           /\ \A c, now, later :
                 /\ LastWriteIs(q, at, c, now)
                 /\ later = IF WritesTo(Head(q), at) THEN Head(q).value.choice ELSE now
                 => LastWriteIs(Tail(q), at, c, later)
<1> DEFINE r == Tail(q)
<1>1. /\ 1 \in DOMAIN q /\ Head(q) = q[1]
      /\ \A i \in DOMAIN r : i \in Nat /\ i >= 1 /\ i + 1 \in DOMAIN q /\ r[i] = q[i + 1]
      /\ \A i \in DOMAIN q : i \in Nat /\ (i = 1 \/ (i > 1 /\ i - 1 \in DOMAIN r /\ r[i - 1] = q[i]))
  BY TailIndexes
<1> HIDE DEF r
<1>2. NoWriteTo(q, at) => ~WritesTo(Head(q), at) /\ NoWriteTo(r, at)
  BY <1>1 DEF NoWriteTo
<1>3. ASSUME NoWriteTo(r, at), NEW i \in DOMAIN q, i > 1 PROVE ~WritesTo(q[i], at)
  <2>1. i - 1 \in DOMAIN r /\ r[i - 1] = q[i]
    BY <1>1, <1>3
  <2> QED
    BY <1>3, <2>1 DEF NoWriteTo
<1>4. ASSUME ReadPending(q, at)
      PROVE  ReadPending(r, at) \/ (ReadsOf(Head(q), at) /\ NoWriteTo(r, at))
  <2>1. PICK i \in DOMAIN q : ReadsOf(q[i], at) /\ \A j \in DOMAIN q : j > i => ~WritesTo(q[j], at)
    BY <1>4 DEF ReadPending
  <2>2. \A j \in DOMAIN r : j + 1 > i => ~WritesTo(r[j], at)
    BY <1>1, <2>1
  <2>3. CASE i = 1
    BY <1>1, <2>1, <2>2, <2>3 DEF NoWriteTo
  <2>4. CASE i # 1
    <3>1. i \in Nat /\ i - 1 \in DOMAIN r /\ ReadsOf(r[i - 1], at)
      BY <1>1, <2>1, <2>4
    <3>2. \A j \in DOMAIN r : j > i - 1 => ~WritesTo(r[j], at)
      BY <1>1, <2>2, <3>1
    <3> QED
      BY <3>1, <3>2 DEF ReadPending
  <2> QED
    BY <2>3, <2>4
<1>5. ASSUME NEW c, NEW now, NEW later, LastWriteIs(q, at, c, now),
             later = IF WritesTo(Head(q), at) THEN Head(q).value.choice ELSE now
      PROVE  LastWriteIs(r, at, c, later)
  <2>1. ASSUME NEW i \in DOMAIN r, WritesTo(r[i], at), \A j \in DOMAIN r : j > i => ~WritesTo(r[j], at)
        PROVE  r[i].value.choice = c
    <3>1. i + 1 \in DOMAIN q /\ r[i] = q[i + 1] /\ i \in Nat /\ i >= 1
      BY <1>1
    <3>2. ASSUME NEW j \in DOMAIN q, j > i + 1 PROVE ~WritesTo(q[j], at)
      <4>1. j \in Nat /\ j - 1 \in DOMAIN r /\ r[j - 1] = q[j] /\ j - 1 > i
        BY <1>1, <3>1, <3>2
      <4> QED
        BY <2>1, <4>1
    <3> QED
      BY <1>5, <2>1, <3>1, <3>2 DEF LastWriteIs
  <2>2. ASSUME NoWriteTo(r, at) PROVE later = c
    <3>1. CASE WritesTo(Head(q), at)
      BY <1>1, <1>3, <1>5, <2>2, <3>1 DEF LastWriteIs
    <3>2. CASE ~WritesTo(Head(q), at)
      <4>1. NoWriteTo(q, at)
        BY <1>1, <1>3, <2>2, <3>2 DEF NoWriteTo
      <4> QED
        BY <1>5, <3>2, <4>1 DEF LastWriteIs
    <3> QED
      BY <3>1, <3>2
  <2> QED
    BY <2>1, <2>2 DEF LastWriteIs
<1> QED
  BY <1>2, <1>4, <1>5 DEF r

LEMMA AppendAnswer ==
    ASSUME NEW S, NEW a \in Seq(S), NEW x \in S, NEW at, NEW c, NEW copy,
           x.at = at => x.choice = c, LastAnswerIs(a, at, c, copy) \/ x.at = at
    PROVE  LastAnswerIs(Append(a, x), at, c, copy)
<1> DEFINE r == Append(a, x)
<1>1. /\ DOMAIN r = 1..(Len(a) + 1) /\ DOMAIN a = 1..Len(a) /\ Len(a) \in Nat /\ r[Len(a) + 1] = x
      /\ \A i \in DOMAIN a : i \in DOMAIN r /\ i <= Len(a) /\ r[i] = a[i]
      /\ \A i \in DOMAIN r : \/ i \in DOMAIN a /\ r[i] = a[i]
                             \/ i = Len(a) + 1 /\ r[i] = x
  BY AppendIndexes
<1> HIDE DEF r
<1>2. ASSUME NEW i \in DOMAIN r, r[i].at = at, \A j \in DOMAIN r : j > i => r[j].at # at
      PROVE  r[i].choice = c
  <2>1. CASE i = Len(a) + 1
    BY <1>1, <1>2, <2>1
  <2>2. CASE i # Len(a) + 1
    <3>1. i \in DOMAIN a /\ r[i] = a[i] /\ Len(a) + 1 \in DOMAIN r /\ Len(a) + 1 > i
      BY <1>1, <2>2
    <3>2. x.at # at
      BY <1>1, <1>2, <3>1
    <3>3. \A j \in DOMAIN a : j > i => a[j].at # at
      BY <1>1, <1>2
    <3> QED
      BY <1>2, <3>1, <3>2, <3>3 DEF LastAnswerIs
  <2> QED
    BY <2>1, <2>2
<1>3. ASSUME \A i \in DOMAIN r : r[i].at # at PROVE copy = c
  <2>1. x.at # at /\ \A i \in DOMAIN a : a[i].at # at
    BY <1>1, <1>3
  <2> QED
    BY <2>1 DEF LastAnswerIs
<1> QED
  BY <1>2, <1>3 DEF LastAnswerIs, r

LEMMA TailAnswers ==
    ASSUME NEW S, NEW a \in Seq(S), a # <<>>, NEW at, NEW c, NEW copy, NEW later,
           LastAnswerIs(a, at, c, copy), later = IF Head(a).at = at THEN Head(a).choice ELSE copy
    PROVE  LastAnswerIs(Tail(a), at, c, later)
<1> DEFINE r == Tail(a)
<1>1. /\ 1 \in DOMAIN a /\ Head(a) = a[1]
      /\ \A i \in DOMAIN r : i \in Nat /\ i >= 1 /\ i + 1 \in DOMAIN a /\ r[i] = a[i + 1]
      /\ \A i \in DOMAIN a : i \in Nat /\ (i = 1 \/ (i > 1 /\ i - 1 \in DOMAIN r /\ r[i - 1] = a[i]))
  BY TailIndexes
<1> HIDE DEF r
<1>2. ASSUME NEW i \in DOMAIN r, r[i].at = at, \A j \in DOMAIN r : j > i => r[j].at # at
      PROVE  r[i].choice = c
  <2>1. i + 1 \in DOMAIN a /\ r[i] = a[i + 1] /\ i \in Nat /\ i >= 1
    BY <1>1
  <2>2. \A j \in DOMAIN a : j > i + 1 => a[j].at # at
    BY <1>1, <1>2, <2>1
  <2> QED
    BY <1>2, <2>1, <2>2 DEF LastAnswerIs
<1>3. ASSUME \A i \in DOMAIN r : r[i].at # at PROVE later = c
  <2>1. \A i \in DOMAIN a : i > 1 => a[i].at # at
    BY <1>1, <1>3
  <2>2. CASE Head(a).at = at
    BY <1>1, <2>1, <2>2 DEF LastAnswerIs
  <2>3. CASE Head(a).at # at
    BY <1>1, <2>1, <2>3 DEF LastAnswerIs
  <2> QED
    BY <2>2, <2>3
<1> QED
  BY <1>2, <1>3 DEF LastAnswerIs, r

----------------------------------------------------------------------------
(* The copy of a register stays one that is, or is about to be, refreshed.   *)

\* What a send does to the pipe.
Sent(q, x, y) == IF x.op = "post" THEN q ELSE Append(q, y)

\* What is sent of an item: the same command, of the same register.
SameCommand(x, y) == y.op = x.op /\ y.value.at = x.value.at

LEMMA RefreshSend ==
    ASSUME NEW S, NEW s \in Seq(S), s # <<>>, NEW q \in Seq(S), NEW y \in S, NEW a, NEW at, NEW c, NEW copy,
           ~WritesTo(Head(s), at), SameCommand(Head(s), y), Refreshing(s, q, a, at, c, copy)
    PROVE  Refreshing(Tail(s), Sent(q, Head(s), y), a, at, c, copy)
<1> DEFINE r == Sent(q, Head(s), y)
<1>1. ~WritesTo(y, at) /\ (ReadsOf(Head(s), at) => ReadsOf(y, at) /\ Head(s).op # "post")
  BY DEF WritesTo, ReadsOf, SameCommand
<1>2. /\ NoWriteTo(q, at) => NoWriteTo(r, at)
      /\ ReadPending(q, at) => ReadPending(r, at)
  BY <1>1, AppendOther DEF Sent
<1>3. ReadsOf(Head(s), at) => ReadPending(r, at)
  BY <1>1, AppendThis DEF Sent
<1> HIDE DEF r
<1>4. CASE \E i \in DOMAIN s : ReadsOf(s[i], at)
  <2>1. PICK i \in DOMAIN s : ReadsOf(s[i], at)
    BY <1>4
  <2>2. CASE i = 1
    <3>1. ReadsOf(Head(s), at)
      BY <2>1, <2>2, TailIndexes
    <3> QED
      BY <1>3, <3>1 DEF Refreshing, r
  <2>3. CASE i # 1
    <3>1. i - 1 \in DOMAIN Tail(s) /\ Tail(s)[i - 1] = s[i]
      BY <2>3, TailIndexes
    <3>2. \E j \in DOMAIN Tail(s) : ReadsOf(Tail(s)[j], at)
      BY <2>1, <3>1
    <3> QED
      BY <3>2 DEF Refreshing
  <2> QED
    BY <2>2, <2>3
<1>5. CASE ReadPending(q, at)
  BY <1>2, <1>5 DEF Refreshing, r
<1>6. CASE NoWriteTo(q, at) /\ LastAnswerIs(a, at, c, copy)
  BY <1>2, <1>6 DEF Refreshing, r
<1> QED
  BY <1>4, <1>5, <1>6 DEF Refreshing

\* Another thread sends.
LEMMA RefreshSendOther ==
    ASSUME NEW S, NEW s, NEW q \in Seq(S), NEW x, NEW y \in S, NEW a, NEW at, NEW c, NEW copy,
           ~WritesTo(x, at), SameCommand(x, y), Refreshing(s, q, a, at, c, copy)
    PROVE  Refreshing(s, Sent(q, x, y), a, at, c, copy)
<1>1. ~WritesTo(y, at)
  BY DEF WritesTo, SameCommand
<1>2. /\ NoWriteTo(q, at) => NoWriteTo(Sent(q, x, y), at)
      /\ ReadPending(q, at) => ReadPending(Sent(q, x, y), at)
  BY <1>1, AppendOther DEF Sent
<1> QED
  BY <1>2 DEF Refreshing

\* A thread that had nothing to send gets a script.
LEMMA RefreshScript ==
    ASSUME NEW t, NEW q, NEW a, NEW at, NEW c, NEW copy, Refreshing(<<>>, q, a, at, c, copy)
    PROVE  Refreshing(t, q, a, at, c, copy)
<1>1. DOMAIN <<>> = {}
  OBVIOUS
<1> QED
  BY <1>1 DEF Refreshing

\* A command is executed: later is the adapter's value after it.
LEMMA RefreshExecute ==
    ASSUME NEW S, NEW q \in Seq(S), q # <<>>, NEW T, NEW a \in Seq(T), NEW x \in T,
           NEW s, NEW at, NEW c, NEW copy, NEW later, NEW b,
           NoWriteTo(q, at) /\ x.at = at => x.choice = later,
           ReadsOf(Head(q), at) /\ NoWriteTo(Tail(q), at) => x.at = at /\ x.choice = later,
           ~WritesTo(Head(q), at) => later = c,
           b = IF Head(q).op = "read" THEN Append(a, x) ELSE a,
           Refreshing(s, q, a, at, c, copy)
    PROVE  Refreshing(s, Tail(q), b, at, later, copy)
<1>1. CASE \E i \in DOMAIN s : ReadsOf(s[i], at)
  BY <1>1 DEF Refreshing
<1>2. CASE ReadPending(q, at)
  <2>1. CASE ReadPending(Tail(q), at)
    BY <2>1 DEF Refreshing
  <2>2. CASE ReadsOf(Head(q), at) /\ NoWriteTo(Tail(q), at)
    <3>1. b = Append(a, x) /\ x.at = at /\ x.choice = later
      BY <2>2 DEF ReadsOf
    <3>2. LastAnswerIs(b, at, later, copy)
      BY <3>1, AppendAnswer
    <3> QED
      BY <2>2, <3>2 DEF Refreshing
  <2> QED
    BY <1>2, <2>1, <2>2, TailWrites
<1>3. CASE NoWriteTo(q, at) /\ LastAnswerIs(a, at, c, copy)
  <2>1. NoWriteTo(Tail(q), at) /\ ~WritesTo(Head(q), at)
    BY <1>3, TailWrites
  <2>2. later = c
    BY <2>1
  <2>3. LastAnswerIs(b, at, later, copy)
    <3>1. CASE Head(q).op = "read"
      <4>1. x.at = at => x.choice = later
        BY <1>3
      <4> QED
        BY <1>3, <2>2, <3>1, <4>1, AppendAnswer
    <3>2. CASE Head(q).op # "read"
      BY <1>3, <2>2, <3>2
    <3> QED
      BY <3>1, <3>2
  <2> QED
    BY <2>1, <2>3 DEF Refreshing
<1> QED
  BY <1>1, <1>2, <1>3 DEF Refreshing

\* An answer is taken.
LEMMA RefreshComplete ==
    ASSUME NEW T, NEW a \in Seq(T), a # <<>>, NEW s, NEW q, NEW at, NEW c, NEW copy, NEW later,
           later = IF Head(a).at = at THEN Head(a).choice ELSE copy,
           Refreshing(s, q, a, at, c, copy)
    PROVE  Refreshing(s, q, Tail(a), at, c, later)
BY TailAnswers DEF Refreshing

----------------------------------------------------------------------------
(* What the actions do to what the threads send.                             *)

\* A send: the item goes to the pipe, or posts a read request.
LEMMA SendFacts ==
    ASSUME TypeOK, NEW t \in Threads, Send(t)
    PROVE  /\ script[t] \in Seq(Items) /\ script[t] # <<>> /\ Head(script[t]) \in Items
           /\ pipe \in Seq(Items) /\ Stamped(Head(script[t])) \in Items
           /\ SameCommand(Head(script[t]), Stamped(Head(script[t])))
           /\ Stamped(Head(script[t])).value.choice = Head(script[t]).value.choice
           /\ Stamped(Head(script[t])).value.clock = Head(script[t]).value.clock
           /\ pipe' = Sent(pipe, Head(script[t]), Stamped(Head(script[t])))
           /\ script'[t] = Tail(script[t]) /\ \A u \in Threads \ {t} : script'[u] = script[u]
           /\ UNCHANGED <<cacheVars, board_settings_spinlock, phase, setting, answers, adapter,
                          historyVars, lost>>
<1> DEFINE x == Head(script[t])
<1>1. script[t] \in Seq(Items) /\ script[t] # <<>> /\ pipe \in Seq(Items)
  BY DEF TypeOK, Send
<1>2. x \in Items
  BY <1>1, TailFacts
<1>3. Stamped(x) \in Items /\ SameCommand(x, Stamped(x))
  BY <1>2, StampedFacts DEF SameCommand
<1>4. Stamped(x).value.choice = x.value.choice /\ Stamped(x).value.clock = x.value.clock
  <2>1. x.value \in Values
    BY <1>2 DEF Items
  <2> DEFINE stamp == bound.stamp + 1
  <2>2. Stamped(x) = IF x.op = "write" THEN [x EXCEPT !.value.stamp = stamp] ELSE x
    BY DEF Stamped
  <2> HIDE DEF x, stamp
  <2>3. /\ [x EXCEPT !.value.stamp = stamp].value.choice = x.value.choice
        /\ [x EXCEPT !.value.stamp = stamp].value.clock = x.value.clock
    BY <1>2, <2>1 DEF Items, Values
  <2> QED
    BY <2>2, <2>3
<1>5. pipe' = Sent(pipe, x, Stamped(x))
  BY DEF Send, Sent
<1>6. script'[t] = Tail(script[t]) /\ \A u \in Threads \ {t} : script'[u] = script[u]
  BY DEF Send, TypeOK
<1>7. UNCHANGED <<cacheVars, board_settings_spinlock, phase, setting, answers, adapter, historyVars, lost>>
  BY DEF Send
<1> QED
  BY <1>1, <1>2, <1>3, <1>4, <1>5, <1>6, <1>7

LEMMA ConcatThree ==
    ASSUME NEW S, NEW u \in Seq(S), NEW v \in Seq(S), Len(u) = 1, Len(v) = 2
    PROVE  /\ u \o v \in Seq(S) /\ Len(u \o v) = 3 /\ DOMAIN (u \o v) = {1, 2, 3}
           /\ (u \o v)[1] = u[1] /\ (u \o v)[2] = v[1] /\ (u \o v)[3] = v[2]
<1>1. /\ u \o v \in Seq(S) /\ Len(u \o v) = Len(u) + Len(v)
      /\ \A i \in 1..Len(u) + Len(v) :
            (u \o v)[i] = IF i <= Len(u) THEN u[i] ELSE v[i - Len(u)]
  BY ConcatProperties
<1>2. DOMAIN (u \o v) = 1..3
  BY <1>1
<1> QED
  BY <1>1, <1>2

\* The script of set_registers for one register.
LEMMA SetOneFacts ==
    ASSUME RegsAssumption, NEW o \in Offsets, NEW choice \in Int
    PROVE  /\ SetOne(o, choice)[1] = Item("write", Value(SetAddress(o), choice))
           /\ SetOne(o, choice) \in Seq(Items) /\ Len(SetOne(o, choice)) >= 1
           /\ \A i \in DOMAIN SetOne(o, choice) : i # 1 =>
                 /\ SetOne(o, choice)[i].op # "write"
                 /\ SetOne(o, choice)[i].value.at = SetAddress(o)
           /\ o \notin WriteOnly => /\ Len(SetOne(o, choice)) = 3
                                    /\ SetOne(o, choice)[2] = Item("read", Value(SetAddress(o), 0))
<1> DEFINE at == SetAddress(o)
<1>1. at \in Addresses
  BY AddressFacts DEF Registers
<1> HIDE DEF at
<1>2. Value(at, choice) \in Values /\ Value(at, 0) \in Values /\ Value(at, 0).at = at
  BY <1>1, ValueFacts
<1> DEFINE w == Item("write", Value(at, choice))
           r == Item("read", Value(at, 0))
           p == Item("post", Value(at, 0))
<1>3. w \in Items /\ r \in Items /\ p \in Items
      /\ r.op # "write" /\ p.op # "write" /\ r.value.at = at /\ p.value.at = at
  BY <1>2, ItemFacts
<1>4. SetOne(o, choice) = IF o \in WriteOnly THEN <<w>> \o <<>> ELSE <<w>> \o <<r, p>>
  BY DEF SetOne, WriteCommand, ReadCommand, at
<1> HIDE DEF w, r, p
<1>5. CASE o \in WriteOnly
  <2>1. SetOne(o, choice) = <<w>>
    BY <1>3, <1>4, <1>5
  <2> QED
    BY <1>3, <1>5, <2>1 DEF w, at
<1>6. CASE o \notin WriteOnly
  <2> DEFINE u == <<w>>
             v == <<r, p>>
  <2>1. /\ u \in Seq(Items) /\ Len(u) = 1 /\ u[1] = w
        /\ v \in Seq(Items) /\ Len(v) = 2 /\ v[1] = r /\ v[2] = p
        /\ SetOne(o, choice) = u \o v
    BY <1>3, <1>4, <1>6
  <2> HIDE DEF u, v
  <2>2. /\ SetOne(o, choice) \in Seq(Items) /\ Len(SetOne(o, choice)) = 3
        /\ DOMAIN SetOne(o, choice) = {1, 2, 3}
        /\ SetOne(o, choice)[1] = w /\ SetOne(o, choice)[2] = r /\ SetOne(o, choice)[3] = p
    BY <2>1, ConcatThree
  <2> QED
    BY <1>3, <1>6, <2>2 DEF w, r, at
<1> QED
  BY <1>5, <1>6

----------------------------------------------------------------------------
(* What was last chosen for a register reaches the adapter and the cache.    *)

\* The registers the driver sets, and the cache keeps if they are refreshed.
Settable == Offsets \ (ReadOnly \cup WriteOnly \cup {FCR_SLOT})

\* A script that writes a choice and reads it back.
Sending(s, at, c) ==
    /\ s # <<>> /\ WritesTo(s[1], at) /\ s[1].value.choice = c
    /\ Len(s) >= 2 /\ ReadsOf(s[2], at)

\* The loop of set_registers sends what was last chosen, and nobody else writes.
ScriptsSet ==
    /\ \A o \in setting.slots : chosen[o] = setting.choice
    /\ \A o \in Settable : \A i \in DOMAIN script["ioctl"] :
          WritesTo(script["ioctl"][i], SetAddress(o))
              => i = 1 /\ Sending(script["ioctl"], SetAddress(o), chosen[o])
    /\ \A i \in DOMAIN script["data"] : script["data"][i].op # "write"
    /\ phase = "new" => \A o \in Offsets : chosen[o] = 0

\* A register is still to be set, or its last write has the choice that was made
\* for it, and its copy is being refreshed.
Applying(o) ==
    \/ o \in setting.slots
    \/ Sending(script["ioctl"], SetAddress(o), chosen[o])
    \/ /\ LastWriteIs(pipe, SetAddress(o), chosen[o], adapter[SetAddress(o)].choice)
       /\ o # MAX_OFFSET /\ chosen[o] # 0 =>
             Refreshing(script["ioctl"], pipe, answers, SetAddress(o), chosen[o],
                        register_storage[o].choice)

ApplyInv == ~lost => ScriptsSet /\ \A o \in Settable : Applying(o)

LEMMA SettableFacts ==
    ASSUME RegsAssumption, NEW o \in Settable
    PROVE  /\ o \in Offsets /\ o <= MAX_OFFSET /\ o \notin WriteOnly
           /\ SetAddress(o) = Upper(o) /\ SetAddress(o) \in Addresses
           /\ SetAddress(o) # FcrAddress /\ SetAddress(o) # Upper(CMDR_OFFSET)
           /\ SetAddress(o) # NonvolatileAddress
           /\ \A p \in Offsets : SetAddress(p) = SetAddress(o) => p = o
<1>1. o \in Offsets /\ o # FCR_SLOT /\ o # CMDR_OFFSET /\ o \notin WriteOnly
  BY DEF Settable, WriteOnly, CMDR_OFFSET
<1>2. o \in 1..92 /\ o % 4 = 0 /\ o # 92
  BY <1>1 DEF RegsAssumption, FCR_SLOT
<1>3. o <= 88
  BY <1>2
<1>4. SetAddress(o) = Upper(o)
  BY <1>2, <1>3 DEF SetAddress, MAX_OFFSET
<1>5. \A p : Upper(p) = Upper(o) => p = o
  BY DEF Upper
<1>6. \A p : Upper(p) # FcrAddress /\ Upper(p) # NonvolatileAddress
  BY DEF Upper, FcrAddress, NonvolatileAddress
<1>7. \A p \in Offsets : SetAddress(p) = SetAddress(o) => p = o
  BY <1>4, <1>5, <1>6 DEF SetAddress
<1>8. SetAddress(o) \in Addresses
  BY <1>1, <1>4 DEF Addresses
<1> QED
  BY <1>1, <1>3, <1>4, <1>5, <1>6, <1>7, <1>8 DEF MAX_OFFSET

LEMMA ClockScriptItems ==
    ASSUME NEW fcr \in Values
    PROVE  /\ ClockScript(fcr) \in Seq(Items) /\ Len(ClockScript(fcr)) = 4
           /\ DOMAIN ClockScript(fcr) = 1..4
           /\ \A i \in 1..4 : ClockScript(fcr)[i].op = "write" /\ ClockScript(fcr)[i].value.at = FcrAddress
           /\ ClockScript(fcr)[4].value.clock = fcr.clock
<1> DEFINE value(i) == [fcr EXCEPT !.at = FcrAddress,
                                   !.clock = <<"low", "bits", "strobe", fcr.clock>>[i]]
<1>1. \A i \in 1..4 : value(i) \in Values /\ value(i).at = FcrAddress
  BY ClockItem
<1>2. ClockScript(fcr) = [i \in 1..4 |-> Item("write", value(i))]
  BY DEF ClockScript
<1>3. value(4).clock = fcr.clock
  BY DEF Values
<1> HIDE DEF value
<1>4. \A i \in 1..4 : /\ Item("write", value(i)) \in Items /\ Item("write", value(i)).op = "write"
                      /\ Item("write", value(i)).value = value(i)
  BY <1>1, ItemFacts
<1>5. DOMAIN ClockScript(fcr) = 1..4 /\ \A i \in 1..4 : ClockScript(fcr)[i] = Item("write", value(i))
  BY <1>2
<1>6. ClockScript(fcr) \in Seq(Items) /\ Len(ClockScript(fcr)) = 4
  BY <1>2, <1>4
<1> QED
  BY <1>1, <1>3, <1>4, <1>5, <1>6

LEMMA ReadCommandWrites ==
    ASSUME NEW at \in Addresses
    PROVE  /\ \A i \in DOMAIN ReadCommand(at) : ReadCommand(at)[i].op # "write"
           /\ 1 \in DOMAIN ReadCommand(at) /\ ReadsOf(ReadCommand(at)[1], at)
<1>1. DOMAIN ReadCommand(at) = {1, 2}
  BY ReadCommandFacts
<1>2. Value(at, 0) \in Values /\ Value(at, 0).at = at
  BY ValueFacts
<1> QED
  BY <1>1, <1>2, ReadCommandFacts, ItemFacts DEF ReadsOf

\* What the ioctl thread sends of the clock and at the start writes no register
\* that set_registers sets.
LEMMA OtherScripts ==
    ASSUME RegsAssumption, NEW o \in Settable
    PROVE  /\ \A fcr \in Values : \A i \in DOMAIN ClockScript(fcr) :
                 ~WritesTo(ClockScript(fcr)[i], SetAddress(o))
           /\ \A at \in Addresses : \A i \in DOMAIN ReadCommand(at) :
                 ~WritesTo(ReadCommand(at)[i], SetAddress(o))
           /\ LET s == WriteCommand(Value(Upper(CMDR_OFFSET), 1))
                       \o WriteCommand(Value(Upper(CMDR_OFFSET), 1))
                       \o ReadCommand(Upper(VSTR_OFFSET)) \o ReadCommand(FirmwareAddress)
              IN  \A i \in DOMAIN s : ~WritesTo(s[i], SetAddress(o))
<1> DEFINE at == SetAddress(o)
<1>1. at # FcrAddress /\ at # Upper(CMDR_OFFSET)
  BY SettableFacts
<1>2. ASSUME NEW fcr \in Values, NEW i \in DOMAIN ClockScript(fcr)
      PROVE  ~WritesTo(ClockScript(fcr)[i], at)
  BY <1>1, <1>2, ClockScriptItems DEF WritesTo
<1>3. ASSUME NEW a \in Addresses, NEW i \in DOMAIN ReadCommand(a) PROVE ~WritesTo(ReadCommand(a)[i], at)
  BY ReadCommandWrites DEF WritesTo
<1>4. LET s == WriteCommand(Value(Upper(CMDR_OFFSET), 1))
               \o WriteCommand(Value(Upper(CMDR_OFFSET), 1))
               \o ReadCommand(Upper(VSTR_OFFSET)) \o ReadCommand(FirmwareAddress)
      IN  \A i \in DOMAIN s : ~WritesTo(s[i], at)
  <2> DEFINE w == WriteCommand(Value(Upper(CMDR_OFFSET), 1))
             v == ReadCommand(Upper(VSTR_OFFSET))
             f == ReadCommand(FirmwareAddress)
  <2>1. Upper(CMDR_OFFSET) \in Addresses /\ Upper(VSTR_OFFSET) \in Addresses /\ FirmwareAddress \in Addresses
    BY AddressFacts DEF Registers
  <2>2. w \in Seq(Items) /\ NoWriteTo(w, at)
    <3>1. Value(Upper(CMDR_OFFSET), 1) \in Values /\ Value(Upper(CMDR_OFFSET), 1).at = Upper(CMDR_OFFSET)
      BY <2>1, ValueFacts
    <3>2. w \in Seq(Items) /\ Len(w) = 1 /\ w[1].value.at = Upper(CMDR_OFFSET)
      BY <3>1, WriteCommandFacts, ItemFacts
    <3>3. DOMAIN w = {1}
      BY <3>2
    <3> QED
      BY <1>1, <3>2, <3>3 DEF NoWriteTo, WritesTo
  <2>3. v \in Seq(Items) /\ NoWriteTo(v, at) /\ f \in Seq(Items) /\ NoWriteTo(f, at)
    BY <1>3, <2>1, ReadCommandFacts DEF NoWriteTo
  <2> HIDE DEF w, v, f
  <2>4. \A x, y \in Seq(Items) : NoWriteTo(x, at) /\ NoWriteTo(y, at)
           => x \o y \in Seq(Items) /\ NoWriteTo(x \o y, at)
    <3> SUFFICES ASSUME NEW x \in Seq(Items), NEW y \in Seq(Items), NoWriteTo(x, at), NoWriteTo(y, at)
                 PROVE  x \o y \in Seq(Items) /\ NoWriteTo(x \o y, at)
      OBVIOUS
    <3>1. ASSUME NEW i \in DOMAIN (x \o y)
          PROVE  \/ i \in DOMAIN x /\ (x \o y)[i] = x[i]
                 \/ i - Len(x) \in DOMAIN y /\ (x \o y)[i] = y[i - Len(x)]
      OBVIOUS
    <3> QED
      BY <3>1 DEF NoWriteTo
  <2>5. NoWriteTo(w \o w \o v \o f, at)
    BY <2>2, <2>3, <2>4
  <2> QED
    BY <2>5 DEF NoWriteTo, w, v, f
<1> QED
  BY <1>2, <1>3, <1>4

\* A script that sets nothing.
LEMMA SetsNothing ==
    ASSUME ScriptsSet, UNCHANGED chosen, setting' = setting, phase' = phase \/ phase' # "new",
           \A o \in Settable : NoWriteTo(script'["ioctl"], SetAddress(o)),
           \A i \in DOMAIN script'["data"] : script'["data"][i].op # "write"
    PROVE  ScriptsSet'
BY DEF ScriptsSet, NoWriteTo

LEMMA SendSets == RegsAssumption /\ TypeOK /\ ScriptsSet /\ (\E t \in Threads : Send(t)) => ScriptsSet'
<1> SUFFICES ASSUME RegsAssumption, TypeOK, ScriptsSet, NEW t \in Threads, Send(t) PROVE ScriptsSet'
  OBVIOUS
<1>1. /\ script[t] \in Seq(Items) /\ script[t] # <<>> /\ script'[t] = Tail(script[t])
      /\ \A u \in Threads \ {t} : script'[u] = script[u]
      /\ UNCHANGED <<setting, chosen, phase>>
  BY SendFacts DEF historyVars
<1>2. \A i \in DOMAIN script'[t] : i >= 1 /\ i \in Nat /\ i + 1 \in DOMAIN script[t] /\ script'[t][i] = script[t][i + 1]
  BY <1>1, TailIndexes
<1>3. \A o \in Settable : NoWriteTo(script'["ioctl"], SetAddress(o)) \/ script'["ioctl"] = script["ioctl"]
  <2>1. CASE t = "ioctl"
    <3>1. ASSUME NEW o \in Settable, NEW i \in DOMAIN script'["ioctl"],
                 WritesTo(script'["ioctl"][i], SetAddress(o))
          PROVE  FALSE
      <4>1. i + 1 \in DOMAIN script["ioctl"] /\ WritesTo(script["ioctl"][i + 1], SetAddress(o)) /\ i + 1 # 1
        BY <1>2, <2>1, <3>1
      <4> QED
        BY <4>1 DEF ScriptsSet
    <3> QED
      BY <3>1 DEF NoWriteTo
  <2>2. CASE t # "ioctl"
    BY <1>1, <2>2 DEF Threads
  <2> QED
    BY <2>1, <2>2
<1>4. \A i \in DOMAIN script'["data"] : script'["data"][i].op # "write"
  <2>1. CASE t = "data"
    BY <1>2, <2>1 DEF ScriptsSet
  <2>2. CASE t # "data"
    BY <1>1, <2>2 DEF ScriptsSet, Threads
  <2> QED
    BY <2>1, <2>2
<1> QED
  BY <1>1, <1>3, <1>4 DEF ScriptsSet, NoWriteTo

LEMMA SetNextSets == RegsAssumption /\ TypeOK /\ ScriptsSet /\ SetNext => ScriptsSet'
<1> SUFFICES ASSUME RegsAssumption, TypeOK, ScriptsSet, SetNext PROVE ScriptsSet'
  OBVIOUS
<1>1. PICK p \in setting.slots :
         /\ setting' = [setting EXCEPT !.slots = @ \ {p}]
         /\ script' = [script EXCEPT !["ioctl"] = SetOne(p, setting.choice)]
  BY DEF SetNext
<1>2. p \in Offsets /\ setting.choice \in Int /\ chosen[p] = setting.choice
  BY DEF TypeOK, ScriptsSet
<1>3. /\ setting'.slots = setting.slots \ {p} /\ setting'.choice = setting.choice
      /\ script'["ioctl"] = SetOne(p, setting.choice) /\ script'["data"] = script["data"]
  BY <1>1 DEF TypeOK, Threads
<1>4. UNCHANGED <<phase, chosen>>
  BY DEF SetNext, historyVars
<1> DEFINE s == SetOne(p, setting.choice)
<1>5. ASSUME NEW o \in Settable, NEW i \in DOMAIN s, WritesTo(s[i], SetAddress(o))
      PROVE  i = 1 /\ Sending(s, SetAddress(o), chosen[o])
  <2>1. i = 1 /\ s[1] = Item("write", Value(SetAddress(p), setting.choice))
    BY <1>2, <1>5, SetOneFacts DEF WritesTo
  <2>2. /\ Value(SetAddress(p), setting.choice) \in Values
        /\ Value(SetAddress(p), setting.choice).at = SetAddress(p)
        /\ Value(SetAddress(p), 0) \in Values /\ Value(SetAddress(p), 0).at = SetAddress(p)
    BY <1>2, AddressFacts, ValueFacts DEF Registers
  <2>3. s[1].value.at = SetAddress(p) /\ s[1].value.choice = setting.choice
    BY <2>1, <2>2, ItemFacts DEF Value
  <2>4. p = o
    BY <1>2, <1>5, <2>1, <2>3, SettableFacts DEF WritesTo
  <2>5. /\ Len(s) = 3 /\ s[2] = Item("read", Value(SetAddress(p), 0))
    BY <1>2, <2>4, SetOneFacts, SettableFacts
  <2>6. ReadsOf(s[2], SetAddress(o))
    BY <2>2, <2>4, <2>5, ItemFacts DEF ReadsOf
  <2>7. s # <<>> /\ Len(s) >= 2
    BY <2>5
  <2> QED
    BY <1>2, <1>5, <2>1, <2>3, <2>4, <2>6, <2>7 DEF Sending
<1> HIDE DEF s
<1> QED
  BY <1>3, <1>4, <1>5 DEF ScriptsSet, s

\* The steps that give the ioctl thread a script, or none.
LEMMA StartSets == RegsAssumption /\ TypeOK /\ ScriptsSet /\ Start => ScriptsSet'
<1> SUFFICES ASSUME RegsAssumption, TypeOK, ScriptsSet, Start PROVE ScriptsSet'
  OBVIOUS
<1>1. script["ioctl"] = <<>> /\ DOMAIN <<>> = {} /\ \A at : NoWriteTo(<<>>, at)
  BY DEF Start, StartDefaults, StartClock, StartIdentify, StartNonvolatile, Done, NoWriteTo
<1>2. CASE StartDefaults
  <2>1. PICK opens \in RegistryOpens :
           LET slots == IF opens THEN DefaultSlots ELSE {}
           IN  /\ setting' = [slots |-> slots, choice |-> 1]
               /\ chosen' = [o \in Offsets |-> IF o \in slots THEN 1 ELSE chosen[o]]
    BY <1>2 DEF StartDefaults
  <2>2. UNCHANGED script /\ phase' = "defaults" /\ DefaultSlots \subseteq Offsets
    BY <1>2 DEF StartDefaults, RegsAssumption
  <2>3. \A o \in setting'.slots : chosen'[o] = setting'.choice
    BY <2>1, <2>2
  <2> QED
    BY <1>1, <2>2, <2>3 DEF ScriptsSet
<1>3. CASE StartClock \/ StartIdentify \/ StartNonvolatile
  <2>1. UNCHANGED <<chosen, setting>> /\ phase' # "new" /\ script'["data"] = script["data"]
    BY <1>3 DEF StartClock, StartIdentify, StartNonvolatile, TypeOK, Threads
  <2>2. ASSUME NEW o \in Settable PROVE NoWriteTo(script'["ioctl"], SetAddress(o))
    <3>1. CASE StartClock
      <4>1. script'["ioctl"] = ClockScript(register_storage[FCR_SLOT])
        BY <3>1 DEF StartClock, TypeOK, Threads
      <4>2. register_storage[FCR_SLOT] \in Values
        BY DEF TypeOK, RegsAssumption
      <4> QED
        BY <4>1, <4>2, OtherScripts DEF NoWriteTo
    <3>2. CASE StartIdentify
      <4>1. script'["ioctl"] = WriteCommand(Value(Upper(CMDR_OFFSET), 1))
                               \o WriteCommand(Value(Upper(CMDR_OFFSET), 1))
                               \o ReadCommand(Upper(VSTR_OFFSET)) \o ReadCommand(FirmwareAddress)
        BY <3>2 DEF StartIdentify, TypeOK, Threads
      <4> QED
        BY <4>1, OtherScripts DEF NoWriteTo
    <3>3. CASE StartNonvolatile
      <4>1. script'["ioctl"] = ReadCommand(NonvolatileAddress) \/ script' = script
        BY <3>3 DEF StartNonvolatile, TypeOK, Threads
      <4>2. NonvolatileAddress \in Addresses
        BY AddressFacts
      <4> QED
        BY <1>1, <4>1, <4>2, OtherScripts DEF NoWriteTo
    <3> QED
      BY <1>3, <3>1, <3>2, <3>3
  <2>3. \A i \in DOMAIN script'["data"] : script'["data"][i].op # "write"
    BY <2>1 DEF ScriptsSet
  <2> QED
    BY <2>1, <2>2, <2>3, SetsNothing
<1> QED
  BY <1>2, <1>3 DEF Start

LEMMA HandleIoctlSets == RegsAssumption /\ TypeOK /\ ScriptsSet /\ HandleIoctl => ScriptsSet'
<1> SUFFICES ASSUME RegsAssumption, TypeOK, ScriptsSet, HandleIoctl PROVE ScriptsSet'
  OBVIOUS
<1>1. /\ script["ioctl"] = <<>> /\ DOMAIN <<>> = {} /\ (\A at : NoWriteTo(<<>>, at)) /\ phase = "ready"
      /\ phase' = phase
  BY DEF HandleIoctl, SetRegisters, GetRegisters, SetClockBits, SetNonvolatile, GetNonvolatile,
         Reprogram, Ioctl, Done, NoWriteTo
<1>2. CASE SetRegisters
  <2>1. PICK S \in SetChoices :
           LET slots == S \ ReadOnly
           IN  /\ setting' = [slots |-> slots, choice |-> Choice]
               /\ chosen' = [o \in Offsets |-> IF o \in slots THEN Choice ELSE chosen[o]]
    BY <1>2 DEF SetRegisters
  <2>2. UNCHANGED script /\ S \subseteq Offsets
    BY <1>2 DEF SetRegisters, RegsAssumption
  <2>3. \A o \in setting'.slots : chosen'[o] = setting'.choice
    BY <2>1, <2>2
  <2> QED
    BY <1>1, <2>2, <2>3 DEF ScriptsSet
<1>3. CASE ~SetRegisters
  <2>1. UNCHANGED <<chosen, setting>> /\ script'["data"] = script["data"]
    BY <1>3 DEF HandleIoctl, GetRegisters, SetClockBits, SetNonvolatile, GetNonvolatile, Reprogram,
                historyVars, TypeOK, Threads
  <2>2. ASSUME NEW o \in Settable PROVE NoWriteTo(script'["ioctl"], SetAddress(o))
    <3>1. CASE GetRegisters
      <4>1. PICK p \in GetChoices \ WriteOnly : script' = [script EXCEPT !["ioctl"] = ReadCommand(GetAddress(p))]
        BY <3>1 DEF GetRegisters
      <4>2. script'["ioctl"] = ReadCommand(GetAddress(p))
        BY <4>1 DEF TypeOK, Threads
      <4>3. GetAddress(p) \in Addresses
        BY AddressFacts DEF RegsAssumption, Registers
      <4> QED
        BY <4>2, <4>3, OtherScripts DEF NoWriteTo
    <3>2. CASE SetClockBits
      <4>1. script'["ioctl"] = ClockScript(register_storage[FCR_SLOT])
        BY <3>2 DEF SetClockBits, TypeOK, Threads
      <4>2. register_storage[FCR_SLOT] \in Values
        BY DEF TypeOK, RegsAssumption
      <4> QED
        BY <4>1, <4>2, OtherScripts DEF NoWriteTo
    <3>3. CASE GetNonvolatile
      <4>1. script'["ioctl"] = ReadCommand(NonvolatileAddress)
        BY <3>3 DEF GetNonvolatile, TypeOK, Threads
      <4>2. NonvolatileAddress \in Addresses
        BY AddressFacts
      <4> QED
        BY <4>1, <4>2, OtherScripts DEF NoWriteTo
    <3>4. CASE SetNonvolatile \/ Reprogram
      BY <1>1, <3>4 DEF SetNonvolatile, Reprogram
    <3> QED
      BY <1>3, <3>1, <3>2, <3>3, <3>4 DEF HandleIoctl
  <2>3. \A i \in DOMAIN script'["data"] : script'["data"][i].op # "write"
    BY <2>1 DEF ScriptsSet
  <2> QED
    BY <1>1, <2>1, <2>2, <2>3, SetsNothing
<1> QED
  BY <1>2, <1>3

LEMMA DataReadSets == RegsAssumption /\ TypeOK /\ ScriptsSet /\ DataRead => ScriptsSet'
<1> SUFFICES ASSUME RegsAssumption, TypeOK, ScriptsSet, DataRead PROVE ScriptsSet'
  OBVIOUS
<1>1. /\ script'["data"] = ReadCommand(Upper(FIFO_FC_OFFSET)) /\ script'["ioctl"] = script["ioctl"]
      /\ UNCHANGED <<setting, phase, chosen>>
  BY DEF DataRead, TypeOK, Threads, historyVars
<1>2. \A i \in DOMAIN script'["data"] : script'["data"][i].op # "write"
  BY <1>1, AddressFacts, ReadCommandWrites DEF Registers
<1> QED
  BY <1>1, <1>2 DEF ScriptsSet

\* Steps that change nothing Applying speaks of, and steps of a thread that had
\* nothing to send.
LEMMA ApplyingSame ==
    ASSUME NEW o \in Settable, Applying(o), script'["ioctl"] = script["ioctl"],
           UNCHANGED <<setting, chosen, pipe, answers, adapter, register_storage>>
    PROVE  Applying(o)'
BY DEF Applying

LEMMA ApplyingScript ==
    ASSUME NEW o \in Settable, Applying(o), script["ioctl"] = <<>>,
           o \in setting.slots => o \in setting'.slots, chosen'[o] = chosen[o],
           UNCHANGED <<pipe, answers, adapter>>, register_storage'[o] = register_storage[o]
    PROVE  Applying(o)'
<1>1. CASE o \in setting.slots
  BY <1>1 DEF Applying
<1>2. CASE o \notin setting.slots
  <2>1. ~Sending(script["ioctl"], SetAddress(o), chosen[o])
    BY DEF Sending
  <2>2. Refreshing(<<>>, pipe, answers, SetAddress(o), chosen[o], register_storage[o].choice)
           => Refreshing(script'["ioctl"], pipe, answers, SetAddress(o), chosen[o], register_storage[o].choice)
    BY RefreshScript
  <2> QED
    BY <1>2, <2>1, <2>2 DEF Applying
<1> QED
  BY <1>1, <1>2

LEMMA ApplyingSend ==
    ASSUME RegsAssumption, TypeOK, ScriptsSet, NEW o \in Settable, Applying(o), NEW t \in Threads, Send(t)
    PROVE  Applying(o)'
<1> DEFINE at == SetAddress(o)
           s == script["ioctl"]
           x == Head(script[t])
           y == Stamped(x)
<1>1. /\ script[t] \in Seq(Items) /\ script[t] # <<>> /\ x \in Items /\ y \in Items
      /\ pipe \in Seq(Items) /\ SameCommand(x, y) /\ y.value.choice = x.value.choice
      /\ pipe' = Sent(pipe, x, y)
      /\ script'[t] = Tail(script[t]) /\ \A u \in Threads \ {t} : script'[u] = script[u]
      /\ UNCHANGED <<setting, chosen, answers, adapter, register_storage>>
  BY SendFacts DEF historyVars, cacheVars
<1>2. x = script[t][1] /\ 1 \in DOMAIN script[t]
  BY <1>1, TailIndexes
<1> HIDE DEF y
<1>3. ASSUME ~WritesTo(x, at), LastWriteIs(pipe, at, chosen[o], adapter[at].choice)
      PROVE  LastWriteIs(pipe', at, chosen[o], adapter[at].choice)
  <2>1. ~WritesTo(y, at)
    BY <1>1, <1>3 DEF SameCommand, WritesTo
  <2>2. LastWriteIs(Append(pipe, y), at, chosen[o], adapter[at].choice)
    BY <1>1, <1>3, <2>1, AppendOther
  <2> QED
    BY <1>1, <1>3, <2>2 DEF Sent
<1>4. CASE o \in setting.slots
  BY <1>1, <1>4 DEF Applying
<1>5. CASE o \notin setting.slots /\ t = "ioctl" /\ WritesTo(x, at)
  <2>1. Sending(s, at, chosen[o])
    BY <1>2, <1>5 DEF ScriptsSet
  <2>2. WritesTo(y, at) /\ y.value.choice = chosen[o] /\ x.op # "post"
    BY <1>1, <1>2, <1>5, <2>1 DEF Sending, SameCommand, WritesTo
  <2>3. LastWriteIs(Append(pipe, y), at, y.value.choice, adapter[at].choice)
    BY <1>1, <2>2, AppendThis
  <2>4. LastWriteIs(pipe', at, chosen[o], adapter[at].choice)
    BY <1>1, <2>2, <2>3 DEF Sent
  <2>5. 1 \in DOMAIN Tail(s) /\ Tail(s)[1] = s[2]
    <3>1. s \in Seq(Items) /\ Len(s) >= 2 /\ s # <<>>
      BY <1>1, <1>5, <2>1 DEF Sending
    <3> HIDE DEF s
    <3> QED
      BY <3>1
  <2>6. Refreshing(script'["ioctl"], pipe', answers, at, chosen[o], register_storage[o].choice)
    BY <1>1, <1>5, <2>1, <2>5 DEF Refreshing, Sending
  <2> QED
    BY <1>1, <2>4, <2>6 DEF Applying
<1>6. CASE o \notin setting.slots /\ t = "ioctl" /\ ~WritesTo(x, at)
  <2>1. /\ LastWriteIs(pipe, at, chosen[o], adapter[at].choice)
        /\ o # MAX_OFFSET /\ chosen[o] # 0 =>
              Refreshing(s, pipe, answers, at, chosen[o], register_storage[o].choice)
    BY <1>2, <1>6 DEF Applying, Sending
  <2>2. Refreshing(s, pipe, answers, at, chosen[o], register_storage[o].choice)
           => Refreshing(script'["ioctl"], pipe', answers, at, chosen[o], register_storage[o].choice)
    BY <1>1, <1>6, RefreshSend
  <2> QED
    BY <1>1, <1>3, <1>6, <2>1, <2>2 DEF Applying
<1>7. CASE o \notin setting.slots /\ t = "data"
  <2>1. ~WritesTo(x, at) /\ script'["ioctl"] = s
    BY <1>1, <1>2, <1>7 DEF ScriptsSet, WritesTo, Threads
  <2>2. CASE Sending(s, at, chosen[o])
    BY <1>1, <2>1, <2>2 DEF Applying
  <2>3. CASE ~Sending(s, at, chosen[o])
    <3>1. /\ LastWriteIs(pipe, at, chosen[o], adapter[at].choice)
          /\ o # MAX_OFFSET /\ chosen[o] # 0 =>
                Refreshing(s, pipe, answers, at, chosen[o], register_storage[o].choice)
      BY <1>7, <2>3 DEF Applying
    <3>2. Refreshing(s, pipe, answers, at, chosen[o], register_storage[o].choice)
             => Refreshing(s, pipe', answers, at, chosen[o], register_storage[o].choice)
      BY <1>1, <2>1, RefreshSendOther
    <3> QED
      BY <1>1, <1>3, <2>1, <3>1, <3>2 DEF Applying
  <2> QED
    BY <2>2, <2>3
<1> QED
  BY <1>4, <1>5, <1>6, <1>7 DEF Threads

LEMMA ApplyingSetNext ==
    ASSUME RegsAssumption, TypeOK, ScriptsSet, NEW o \in Settable, Applying(o), SetNext
    PROVE  Applying(o)'
<1>1. PICK p \in setting.slots :
         /\ setting' = [setting EXCEPT !.slots = @ \ {p}]
         /\ script' = [script EXCEPT !["ioctl"] = SetOne(p, setting.choice)]
  BY DEF SetNext
<1>2. /\ setting'.slots = setting.slots \ {p} /\ script'["ioctl"] = SetOne(p, setting.choice)
      /\ script["ioctl"] = <<>> /\ UNCHANGED <<chosen, pipe, answers, adapter, register_storage>>
  BY <1>1 DEF SetNext, TypeOK, Threads, cacheVars, historyVars
<1>3. CASE p = o
  <2>1. o \in Offsets /\ setting.choice \in Int /\ chosen[o] = setting.choice
    BY <1>1, <1>3 DEF TypeOK, ScriptsSet
  <2> DEFINE s == SetOne(o, setting.choice)
             at == SetAddress(o)
  <2>2. /\ Value(at, setting.choice) \in Values /\ Value(at, setting.choice).at = at
        /\ Value(at, 0) \in Values /\ Value(at, 0).at = at /\ Value(at, setting.choice).choice = setting.choice
    BY <2>1, SettableFacts, ValueFacts DEF Value
  <2>3. /\ s[1] = Item("write", Value(at, setting.choice)) /\ Len(s) = 3 /\ s[2] = Item("read", Value(at, 0))
        /\ s \in Seq(Items)
    BY <2>1, SetOneFacts, SettableFacts
  <2> HIDE DEF s, at
  <2>4. s # <<>> /\ Len(s) >= 2
    BY <2>3
  <2>5. Sending(s, at, chosen[o])
    BY <2>1, <2>2, <2>3, <2>4, ItemFacts DEF Sending, WritesTo, ReadsOf
  <2> QED
    BY <1>2, <1>3, <2>5 DEF Applying, s, at
<1>4. CASE p # o
  <2>1. o \in setting.slots => o \in setting'.slots
    BY <1>2, <1>4
  <2> QED
    BY <1>2, <2>1, ApplyingScript
<1> QED
  BY <1>3, <1>4

LEMMA ApplyingStart ==
    ASSUME RegsAssumption, TypeOK, ScriptsSet, NEW o \in Settable, Applying(o), Start
    PROVE  Applying(o)'
<1>1. /\ script["ioctl"] = <<>> /\ setting.slots = {}
      /\ UNCHANGED <<pipe, answers, adapter>>
  BY DEF Start, StartDefaults, StartClock, StartIdentify, StartNonvolatile, Done, StartUnchanged
<1>2. CASE StartDefaults
  <2>1. PICK opens \in RegistryOpens :
           LET slots == IF opens THEN DefaultSlots ELSE {}
           IN  /\ setting' = [slots |-> slots, choice |-> 1]
               /\ chosen' = [q \in Offsets |-> IF q \in slots THEN 1 ELSE chosen[q]]
    BY <1>2 DEF StartDefaults
  <2>2. CASE o \in setting'.slots
    BY <2>2 DEF Applying
  <2>3. CASE o \notin setting'.slots
    <3>1. o \in Offsets
      BY SettableFacts
    <3>2. chosen'[o] = 0 /\ chosen[o] = 0
      BY <1>2, <2>1, <2>3, <3>1 DEF ScriptsSet, StartDefaults
    <3>3. LastWriteIs(pipe, SetAddress(o), chosen[o], adapter[SetAddress(o)].choice)
      BY <1>1 DEF Applying, Sending
    <3> QED
      BY <1>1, <3>2, <3>3 DEF Applying
  <2> QED
    BY <2>2, <2>3
<1>3. CASE StartClock \/ StartIdentify \/ StartNonvolatile
  <2>1. UNCHANGED <<chosen, register_storage, setting>>
    BY <1>3 DEF StartClock, StartIdentify, StartNonvolatile
  <2> QED
    BY <1>1, <2>1, ApplyingScript
<1> QED
  BY <1>2, <1>3 DEF Start

LEMMA ApplyingIoctl ==
    ASSUME RegsAssumption, TypeOK, ScriptsSet, NEW o \in Settable, Applying(o), HandleIoctl
    PROVE  Applying(o)'
<1>1. /\ script["ioctl"] = <<>> /\ setting.slots = {}
      /\ UNCHANGED <<answers, adapter, register_storage>>
  BY DEF HandleIoctl, SetRegisters, GetRegisters, SetClockBits, SetNonvolatile, GetNonvolatile,
         Reprogram, Ioctl, Done
<1>2. CASE SetRegisters
  <2>1. PICK S \in SetChoices :
           LET slots == S \ ReadOnly
           IN  /\ setting' = [slots |-> slots, choice |-> Choice]
               /\ chosen' = [q \in Offsets |-> IF q \in slots THEN Choice ELSE chosen[q]]
    BY <1>2 DEF SetRegisters
  <2>2. CASE o \in setting'.slots
    BY <2>2 DEF Applying
  <2>3. CASE o \notin setting'.slots
    <3>1. o \in Offsets
      BY SettableFacts
    <3>2. chosen'[o] = chosen[o] /\ UNCHANGED pipe
      BY <1>2, <2>1, <2>3, <3>1 DEF SetRegisters
    <3> QED
      BY <1>1, <3>2, ApplyingScript
  <2> QED
    BY <2>2, <2>3
<1>3. CASE GetRegisters \/ SetClockBits \/ GetNonvolatile
  <2>1. UNCHANGED <<chosen, setting, pipe>>
    BY <1>3 DEF GetRegisters, SetClockBits, GetNonvolatile, historyVars
  <2> QED
    BY <1>1, <2>1, ApplyingScript
<1>4. CASE SetNonvolatile \/ Reprogram
  <2>1. PICK x \in Items : pipe' = Append(pipe, x) /\ ~WritesTo(x, SetAddress(o))
    <3>1. /\ Choice \in Int /\ NonvolatileAddress \in Addresses /\ FirmwareAddress \in Addresses
      <4>1. Choice \in Int
        BY DEF Choice, TypeOK
      <4> QED
        BY <4>1, AddressFacts DEF Registers
    <3>2. /\ Item("write", Value(NonvolatileAddress, Choice)) \in Items
          /\ Item("program", Value(FirmwareAddress, 0)) \in Items
          /\ Item("program", Value(FirmwareAddress, 0)).op # "write"
          /\ Item("write", Value(NonvolatileAddress, Choice)).value.at = NonvolatileAddress
      BY <3>1, ValueFacts, ItemFacts
    <3> QED
      BY <1>4, <3>2, SettableFacts DEF SetNonvolatile, Reprogram, WritesTo
  <2>2. UNCHANGED <<chosen, setting, script>> /\ pipe \in Seq(Items)
    BY <1>4 DEF SetNonvolatile, Reprogram, historyVars, TypeOK
  <2>3. /\ LastWriteIs(pipe, SetAddress(o), chosen[o], adapter[SetAddress(o)].choice)
           => LastWriteIs(pipe', SetAddress(o), chosen[o], adapter[SetAddress(o)].choice)
        /\ NoWriteTo(pipe, SetAddress(o)) => NoWriteTo(pipe', SetAddress(o))
        /\ ReadPending(pipe, SetAddress(o)) => ReadPending(pipe', SetAddress(o))
    BY <2>1, <2>2, AppendOther
  <2> QED
    BY <1>1, <2>2, <2>3 DEF Applying, Refreshing
<1> QED
  BY <1>2, <1>3, <1>4 DEF HandleIoctl

\* The command at the head of the pipe is executed.
LEMMA ExecuteFacts ==
    ASSUME TypeOK, AdapterTrue, Execute, NEW at \in Addresses
    PROVE  /\ pipe \in Seq(Items) /\ pipe # <<>> /\ pipe' = Tail(pipe)
           /\ answers \in Seq(Values) /\ adapter[Head(pipe).value.at] \in Values
           /\ adapter[Head(pipe).value.at].at = Head(pipe).value.at
           /\ adapter'[at] = IF WritesTo(Head(pipe), at) THEN Head(pipe).value ELSE adapter[at]
           /\ answers' = IF Head(pipe).op = "read" THEN Append(answers, adapter[Head(pipe).value.at])
                         ELSE answers
           /\ UNCHANGED <<cacheVars, threadVars, posted, historyVars, lost, bound>>
<1> DEFINE x == Head(pipe)
<1>1. pipe \in Seq(Items) /\ pipe # <<>> /\ pipe' = Tail(pipe) /\ answers \in Seq(Values)
      /\ adapter \in [Addresses -> Values]
  BY DEF Execute, TypeOK
<1>2. x \in Items /\ x.value.at \in Addresses
  <2>1. x \in Items
    BY <1>1, TailFacts
  <2> QED
    BY <2>1 DEF Items, Values
<1>3. adapter[x.value.at] \in Values /\ adapter[x.value.at].at = x.value.at
  BY <1>1, <1>2 DEF AdapterTrue
<1>4. /\ adapter' = IF x.op = "write" THEN [adapter EXCEPT ![x.value.at] = x.value] ELSE adapter
      /\ answers' = IF x.op = "read" THEN Append(answers, adapter[x.value.at]) ELSE answers
      /\ UNCHANGED <<cacheVars, threadVars, posted, historyVars, lost, bound>>
  BY DEF Execute
<1>5. adapter'[at] = IF WritesTo(x, at) THEN x.value ELSE adapter[at]
  BY <1>1, <1>2, <1>4 DEF WritesTo
<1> QED
  BY <1>1, <1>3, <1>4, <1>5

LEMMA ApplyingExecute ==
    ASSUME RegsAssumption, TypeOK, AdapterTrue, NEW o \in Settable, Applying(o), Execute
    PROVE  Applying(o)'
<1> DEFINE at == SetAddress(o)
           x == Head(pipe)
           v == adapter[x.value.at]
<1>0. at \in Addresses
  BY SettableFacts
<1>1. /\ pipe \in Seq(Items) /\ pipe # <<>> /\ pipe' = Tail(pipe)
      /\ answers \in Seq(Values) /\ v \in Values /\ v.at = x.value.at
      /\ adapter'[at] = IF WritesTo(x, at) THEN x.value ELSE adapter[at]
      /\ answers' = IF x.op = "read" THEN Append(answers, v) ELSE answers
      /\ UNCHANGED <<register_storage, setting, script, chosen>>
  BY <1>0, ExecuteFacts DEF cacheVars, threadVars, historyVars
<1>2. CASE o \in setting.slots \/ Sending(script["ioctl"], at, chosen[o])
  BY <1>1, <1>2 DEF Applying
<1>3. CASE ~(o \in setting.slots \/ Sending(script["ioctl"], at, chosen[o]))
  <2>1. /\ LastWriteIs(pipe, at, chosen[o], adapter[at].choice)
        /\ o # MAX_OFFSET /\ chosen[o] # 0 =>
              Refreshing(script["ioctl"], pipe, answers, at, chosen[o], register_storage[o].choice)
    BY <1>3 DEF Applying
  <2>2. LastWriteIs(pipe', at, chosen[o], adapter'[at].choice)
    <3>1. adapter'[at].choice = IF WritesTo(x, at) THEN x.value.choice ELSE adapter[at].choice
      BY <1>1
    <3> QED
      BY <1>1, <2>1, <3>1, TailWrites
  <2>3. v.at = at => v = adapter[at]
    BY <1>1
  <2>4. NoWriteTo(pipe, at) /\ v.at = at => v.choice = chosen[o]
    BY <2>1, <2>3 DEF LastWriteIs
  <2>5. ReadsOf(x, at) /\ NoWriteTo(Tail(pipe), at) => v.at = at /\ v.choice = chosen[o]
    <3> SUFFICES ASSUME ReadsOf(x, at), NoWriteTo(Tail(pipe), at) PROVE v.at = at /\ v.choice = chosen[o]
      OBVIOUS
    <3>1. v.at = at /\ ~WritesTo(x, at) /\ adapter'[at] = adapter[at]
      BY <1>1 DEF ReadsOf, WritesTo
    <3>2. adapter'[at].choice = chosen[o]
      BY <1>1, <2>2 DEF LastWriteIs
    <3> QED
      BY <2>3, <3>1, <3>2
  <2>6. Refreshing(script["ioctl"], pipe, answers, at, chosen[o], register_storage[o].choice)
           => Refreshing(script["ioctl"], pipe', answers', at, chosen[o], register_storage[o].choice)
    <3> SUFFICES ASSUME Refreshing(script["ioctl"], pipe, answers, at, chosen[o], register_storage[o].choice)
                 PROVE  Refreshing(script["ioctl"], pipe', answers', at, chosen[o], register_storage[o].choice)
      OBVIOUS
    <3> HIDE DEF at, x, v
    <3>1. answers' = IF Head(pipe).op = "read" THEN Append(answers, v) ELSE answers
      BY <1>1 DEF x
    <3>2. ReadsOf(Head(pipe), at) /\ NoWriteTo(Tail(pipe), at) => v.at = at /\ v.choice = chosen[o]
      BY <2>5 DEF x
    <3>3. Refreshing(script["ioctl"], Tail(pipe), answers', at, chosen[o], register_storage[o].choice)
      BY <1>1, <2>4, <3>1, <3>2, RefreshExecute
    <3> QED
      BY <1>1, <3>3
  <2> QED
    BY <1>1, <2>1, <2>2, <2>6 DEF Applying
<1> QED
  BY <1>2, <1>3

\* An answer that is not lost is taken to the copy of its register.
LEMMA CompletionFacts ==
    ASSUME RegsAssumption, TypeOK, Completion, ~lost'
    PROVE  /\ answers \in Seq(Values) /\ answers # <<>> /\ answers' = Tail(answers)
           /\ UNCHANGED <<threadVars, pipe, adapter, historyVars, bound>>
           /\ \A o \in Settable \ {MAX_OFFSET} :
                 register_storage'[o] = IF Head(answers).at = SetAddress(o) THEN Head(answers)
                                        ELSE register_storage[o]
           /\ nonvolatile_reg' = IF Head(answers).at = NonvolatileAddress THEN Head(answers).choice
                                 ELSE nonvolatile_reg
           /\ register_storage'[FCR_SLOT] = IF Head(answers).at = FcrAddress THEN Head(answers)
                                            ELSE register_storage[FCR_SLOT]
<1> DEFINE x == Head(answers)
<1>1. /\ answers \in Seq(Values) /\ answers # <<>> /\ answers' = Tail(answers)
      /\ UNCHANGED <<threadVars, pipe, adapter, historyVars, bound>>
  BY DEF Completion, CompletionError, CompletionNonvolatile, CompletionFx2, CompletionRegister, Meet, TypeOK
<1>2. x \in Values /\ x.at \in Addresses
  <2>1. x \in Values
    BY <1>1, TailFacts
  <2> QED
    BY <2>1 DEF Values
<1>3. ~CompletionError
  BY DEF CompletionError
<1>4. /\ AnswerSize(x.at) = 4 <=> x.at = NonvolatileAddress
      /\ AnswerSize(x.at) = 2 <=> x.at = Fx2Address
  BY <1>2 DEF AnswerSize, Addresses, Upper, FcrAddress, FirmwareAddress, NonvolatileAddress, Fx2Address
<1>5. FCR_SLOT \in Offsets /\ FCR_SLOT = 92 /\ NonvolatileAddress # FcrAddress /\ Fx2Address # FcrAddress
      /\ NonvolatileAddress # Fx2Address
  BY DEF RegsAssumption, FCR_SLOT, NonvolatileAddress, FcrAddress, Fx2Address
<1>6. \A o \in Settable : SetAddress(o) # NonvolatileAddress /\ SetAddress(o) # Fx2Address
  BY SettableFacts, AddressFacts
<1>7. CASE CompletionNonvolatile
  <2>1. x.at = NonvolatileAddress /\ nonvolatile_reg' = x.choice /\ UNCHANGED register_storage
    BY <1>4, <1>7 DEF CompletionNonvolatile, Size
  <2> QED
    BY <1>1, <1>5, <1>6, <2>1
<1>8. CASE CompletionFx2
  <2>1. x.at = Fx2Address /\ UNCHANGED <<register_storage, nonvolatile_reg>>
    BY <1>4, <1>8 DEF CompletionFx2, Size
  <2> QED
    BY <1>1, <1>5, <1>6, <2>1
<1>9. CASE CompletionRegister
  <2>1. /\ register_storage' = [o \in Offsets |-> IF CachedAt(o, x.at) THEN x ELSE register_storage[o]]
        /\ nonvolatile_reg' = nonvolatile_reg /\ AnswerSize(x.at) = 6
    BY <1>9 DEF CompletionRegister, Size
  <2>2. x.at # NonvolatileAddress /\ x.at # Fx2Address
    BY <1>4, <2>1
  <2>3. ASSUME NEW o \in Settable \ {MAX_OFFSET} PROVE o \in Offsets /\ (CachedAt(o, x.at) <=> x.at = SetAddress(o))
    <3>1. o \in Offsets /\ o \in Int /\ o < MAX_OFFSET /\ SetAddress(o) = Upper(o) /\ o # FCR_SLOT
      BY SettableFacts DEF RegsAssumption, MAX_OFFSET, FCR_SLOT, Settable
    <3>2. x.at[1] = "upper" => x.at = Upper(x.at[2])
      BY <1>2 DEF Addresses, Upper, FcrAddress, FirmwareAddress, NonvolatileAddress, Fx2Address
    <3>3. Upper(o)[1] = "upper" /\ Upper(o)[2] = o
      BY DEF Upper
    <3> QED
      BY <3>1, <3>2, <3>3 DEF CachedAt
  <2>4. CachedAt(FCR_SLOT, x.at) <=> x.at = FcrAddress
    BY <1>5 DEF CachedAt, MAX_OFFSET
  <2> QED
    BY <1>1, <1>5, <2>1, <2>2, <2>3, <2>4
<1> QED
  BY <1>3, <1>7, <1>8, <1>9 DEF Completion

LEMMA ApplyingCompletion ==
    ASSUME RegsAssumption, TypeOK, NEW o \in Settable, Applying(o), Completion, ~lost'
    PROVE  Applying(o)'
<1> DEFINE at == SetAddress(o)
<1>1. /\ answers \in Seq(Values) /\ answers # <<>> /\ answers' = Tail(answers)
      /\ UNCHANGED <<setting, script, pipe, adapter, chosen>>
      /\ o # MAX_OFFSET => register_storage'[o] = IF Head(answers).at = at THEN Head(answers)
                                                  ELSE register_storage[o]
  BY CompletionFacts DEF threadVars, historyVars
<1>2. CASE o # MAX_OFFSET
  <2>1. register_storage'[o].choice = IF Head(answers).at = at THEN Head(answers).choice
                                      ELSE register_storage[o].choice
    BY <1>1, <1>2
  <2> HIDE DEF at
  <2>2. Refreshing(script["ioctl"], pipe, answers, at, chosen[o], register_storage[o].choice)
           => Refreshing(script["ioctl"], pipe, Tail(answers), at, chosen[o], register_storage'[o].choice)
    BY <1>1, <2>1, RefreshComplete
  <2> QED
    BY <1>1, <2>2 DEF Applying, at
<1>3. CASE o = MAX_OFFSET
  BY <1>1, <1>3 DEF Applying
<1> QED
  BY <1>2, <1>3


LEMMA ApplyInit == RegsAssumption /\ Init => ApplyInv
<1> SUFFICES ASSUME RegsAssumption, Init PROVE ScriptsSet /\ \A o \in Settable : Applying(o)
  BY DEF ApplyInv
<1>1. /\ script["ioctl"] = ReadCommand(Fx2Address) /\ script["data"] = <<>> /\ setting.slots = {}
      /\ pipe = <<>> /\ DOMAIN <<>> = {} /\ \A o \in Offsets : chosen[o] = 0
  BY DEF Init, Threads, NoSetting
<1>2. Fx2Address \in Addresses
  BY AddressFacts DEF Registers
<1>3. ScriptsSet
  BY <1>1, <1>2, OtherScripts DEF ScriptsSet
<1>4. ASSUME NEW o \in Settable PROVE Applying(o)
  <2>1. o \in Offsets /\ SetAddress(o) \in Addresses /\ SetAddress(o) # Fx2Address
    BY SettableFacts, AddressFacts
  <2>2. adapter[SetAddress(o)].choice = 0
    BY <2>1 DEF Init, Value
  <2>3. LastWriteIs(pipe, SetAddress(o), chosen[o], adapter[SetAddress(o)].choice)
    BY <1>1, <2>1, <2>2 DEF LastWriteIs
  <2> QED
    BY <1>1, <2>1, <2>3 DEF Applying
<1> QED
  BY <1>3, <1>4

\* Nothing lost comes back.
LEMMA LostStays == [Next]_vars /\ ~lost' => ~lost
BY DEF Next, IoctlStep, HandleIoctl, Start, Send, SendFails, SetNext, StartDefaults, StartClock,
       StartIdentify, StartNonvolatile, StartUnchanged, SetRegisters, GetRegisters, SetClockBits,
       SetNonvolatile, GetNonvolatile, Reprogram, Ioctl, Release, DataRead, Execute, Completion,
       CompletionError, CompletionNonvolatile, CompletionFx2, CompletionRegister, vars

LEMMA ApplyNext == RegsAssumption /\ TypeOK /\ RevisionTrue /\ ApplyInv /\ [Next]_vars => ApplyInv'
<1> SUFFICES ASSUME RegsAssumption, TypeOK, RevisionTrue, ApplyInv, [Next]_vars, ~lost'
             PROVE  ScriptsSet' /\ \A o \in Settable : Applying(o)'
  BY DEF ApplyInv
<1>1. ~lost /\ ScriptsSet /\ \A o \in Settable : Applying(o)
  BY LostStays DEF ApplyInv
<1>2. CASE \E t \in Threads : Send(t)
  BY <1>1, <1>2, SendSets, ApplyingSend
<1>3. CASE SetNext
  BY <1>1, <1>3, SetNextSets, ApplyingSetNext
<1>4. CASE Start
  BY <1>1, <1>4, StartSets, ApplyingStart
<1>5. CASE HandleIoctl
  BY <1>1, <1>5, HandleIoctlSets, ApplyingIoctl
<1>6. CASE DataRead
  <2>1. /\ script'["ioctl"] = script["ioctl"]
        /\ UNCHANGED <<setting, chosen, pipe, answers, adapter, register_storage>>
    BY <1>6 DEF DataRead, TypeOK, Threads, cacheVars, historyVars
  <2> QED
    BY <1>1, <1>6, <2>1, DataReadSets, ApplyingSame
<1>7. CASE Release \/ UNCHANGED vars
  <2>1. UNCHANGED <<script, setting, chosen, phase, pipe, answers, adapter, register_storage>>
    BY <1>7 DEF Release, vars, cacheVars, threadVars, historyVars
  <2>2. ScriptsSet'
    BY <1>1, <2>1 DEF ScriptsSet
  <2> QED
    BY <1>1, <2>1, <2>2, ApplyingSame
<1>8. CASE Execute
  <2>1. UNCHANGED <<script, setting, chosen, phase>>
    BY <1>8 DEF Execute, threadVars, historyVars
  <2>2. ScriptsSet'
    BY <1>1, <2>1 DEF ScriptsSet
  <2> QED
    BY <1>1, <1>8, <2>2, ApplyingExecute DEF RevisionTrue
<1>9. CASE Completion
  <2>1. UNCHANGED <<script, setting, chosen, phase>>
    BY <1>9, CompletionFacts DEF threadVars, historyVars
  <2>2. ScriptsSet'
    BY <1>1, <2>1 DEF ScriptsSet
  <2> QED
    BY <1>1, <1>9, <2>2, ApplyingCompletion
<1>10. ~\E t \in Threads : SendFails(t)
  BY DEF SendFails
<1> QED
  BY <1>2, <1>3, <1>4, <1>5, <1>6, <1>7, <1>8, <1>9, <1>10 DEF Next, IoctlStep, Threads

LEMMA ApplyGuards == ApplyInv => SettingsApplied
<1> SUFFICES ASSUME ApplyInv, Quiet, ~lost, NEW o \in Settable
             PROVE  /\ adapter[SetAddress(o)].choice = chosen[o]
                    /\ o # MAX_OFFSET /\ chosen[o] # 0 => register_storage[o].choice = chosen[o]
  BY DEF SettingsApplied, Settable
<1>1. setting.slots = {} /\ script["ioctl"] = <<>> /\ pipe = <<>> /\ answers = <<>> /\ DOMAIN <<>> = {}
  BY DEF Quiet, Done
<1>2. /\ LastWriteIs(<<>>, SetAddress(o), chosen[o], adapter[SetAddress(o)].choice)
      /\ o # MAX_OFFSET /\ chosen[o] # 0 =>
            Refreshing(<<>>, <<>>, <<>>, SetAddress(o), chosen[o], register_storage[o].choice)
  BY <1>1 DEF ApplyInv, Applying, Sending
<1> QED
  BY <1>1, <1>2 DEF LastWriteIs, NoWriteTo, Refreshing, ReadPending, LastAnswerIs

\* Whatever ioctls set and whatever answers come when, once everything sent has
\* been answered each register the driver sets, and its copy, hold what was last
\* chosen for it, if nothing was lost (set_registers and register_completion).
THEOREM ChoicesReachAdapter == Spec => []SettingsApplied
<1>1. RegsAssumption
  BY RegsAssumption
<1>2. Init => TypeOK /\ RevisionTrue /\ ApplyInv
  BY <1>1, InitType, RevisionInit, ApplyInit
<1>3. (TypeOK /\ RevisionTrue /\ ApplyInv) /\ [Next]_vars => (TypeOK /\ RevisionTrue /\ ApplyInv)'
  BY <1>1, NextType, RevisionNext, ApplyNext
<1> QED
  BY <1>2, <1>3, ApplyGuards, PTL DEF Spec

----------------------------------------------------------------------------
(* The non-volatile register.  SET_NONVOLATILE writes it directly; the       *)
(* scripts of the threads only read it.                                      *)

ScriptsNoNv == \A t \in Threads : NoWriteTo(script[t], NonvolatileAddress)

\* When the last ioctl on it was a read, its answer is still to come or the
\* driver has the adapter's value.
NvRefreshing ==
    last_nv = "get" => Refreshing(script["ioctl"], pipe, answers, NonvolatileAddress,
                                  adapter[NonvolatileAddress].choice, nonvolatile_reg)

NvInv == ~lost => ScriptsNoNv /\ NvRefreshing

LEMMA EmptyNoWrite == DOMAIN <<>> = {} /\ \A at : NoWriteTo(<<>>, at)
BY DEF NoWriteTo

LEMMA NvInit == RegsAssumption /\ Init => NvInv
<1> SUFFICES ASSUME RegsAssumption, Init PROVE ScriptsNoNv /\ NvRefreshing
  BY DEF NvInv
<1>1. last_nv = "none" /\ script["ioctl"] = ReadCommand(Fx2Address) /\ script["data"] = <<>>
  BY DEF Init, Threads
<1>2. NoWriteTo(ReadCommand(Fx2Address), NonvolatileAddress)
  BY AddressFacts, ReadCommandWrites DEF NoWriteTo, WritesTo, Registers
<1> QED
  BY <1>1, <1>2, EmptyNoWrite DEF ScriptsNoNv, NvRefreshing, Threads

\* A script of register commands, or of a read, does not write it.
LEMMA ScriptNoNv ==
    ASSUME RegsAssumption, NEW s
    PROVE  /\ ScriptFor(s, Registers) => NoWriteTo(s, NonvolatileAddress)
           /\ \A at \in Addresses : s = ReadCommand(at) => NoWriteTo(s, NonvolatileAddress)
<1>1. NonvolatileAddress \notin Registers
  BY RegistersHaveNoNonvolatile
<1> QED
  BY <1>1, ReadCommandWrites DEF ScriptFor, NoWriteTo, WritesTo

LEMMA NvSend ==
    ASSUME RegsAssumption, TypeOK, ScriptsNoNv, NvRefreshing, NEW t \in Threads, Send(t)
    PROVE  ScriptsNoNv' /\ NvRefreshing'
<1> DEFINE at == NonvolatileAddress
           x == Head(script[t])
           y == Stamped(x)
<1>1. /\ script[t] \in Seq(Items) /\ script[t] # <<>> /\ x \in Items /\ y \in Items
      /\ pipe \in Seq(Items) /\ SameCommand(x, y) /\ pipe' = Sent(pipe, x, y)
      /\ script'[t] = Tail(script[t]) /\ \A u \in Threads \ {t} : script'[u] = script[u]
      /\ UNCHANGED <<last_nv, answers, adapter, nonvolatile_reg>>
  BY SendFacts DEF historyVars, cacheVars
<1> HIDE DEF y
<1>2. ~WritesTo(x, at) /\ NoWriteTo(Tail(script[t]), at)
  BY <1>1, TailWrites DEF ScriptsNoNv
<1>3. ScriptsNoNv'
  BY <1>1, <1>2 DEF ScriptsNoNv
<1>4. ASSUME NEW c, NEW copy, Refreshing(script["ioctl"], pipe, answers, at, c, copy)
      PROVE  Refreshing(script'["ioctl"], pipe', answers, at, c, copy)
  <2>1. CASE t = "ioctl"
    <3>1. Refreshing(Tail(script["ioctl"]), Sent(pipe, Head(script["ioctl"]), y), answers, at, c, copy)
      BY <1>1, <1>2, <1>4, <2>1, RefreshSend
    <3> QED
      BY <1>1, <2>1, <3>1
  <2>2. CASE t = "data"
    <3>1. Refreshing(script["ioctl"], Sent(pipe, x, y), answers, at, c, copy)
      BY <1>1, <1>2, <1>4, RefreshSendOther
    <3> QED
      BY <1>1, <2>2, <3>1 DEF Threads
  <2> QED
    BY <2>1, <2>2 DEF Threads
<1> QED
  BY <1>1, <1>3, <1>4 DEF NvRefreshing

\* The ioctl thread gets a script.
LEMMA NvScript ==
    ASSUME ScriptsNoNv, NvRefreshing, script["ioctl"] = <<>>, script'["data"] = script["data"],
           NoWriteTo(script'["ioctl"], NonvolatileAddress), UNCHANGED <<pipe, answers, adapter, nonvolatile_reg>>,
           last_nv' # last_nv => \E i \in DOMAIN script'["ioctl"] : ReadsOf(script'["ioctl"][i], NonvolatileAddress)
    PROVE  ScriptsNoNv' /\ NvRefreshing'
<1>1. ScriptsNoNv'
  BY DEF ScriptsNoNv, Threads
<1>2. pipe' = pipe /\ answers' = answers /\ adapter' = adapter /\ nonvolatile_reg' = nonvolatile_reg
  OBVIOUS
<1>3. ASSUME last_nv' = "get"
      PROVE  Refreshing(script'["ioctl"], pipe, answers, NonvolatileAddress,
                        adapter[NonvolatileAddress].choice, nonvolatile_reg)
  <2>1. CASE last_nv' # last_nv
    BY <2>1 DEF Refreshing
  <2>2. CASE last_nv' = last_nv
    <3>1. Refreshing(<<>>, pipe, answers, NonvolatileAddress, adapter[NonvolatileAddress].choice, nonvolatile_reg)
      BY <1>3, <2>2 DEF NvRefreshing
    <3> QED
      BY <3>1, RefreshScript
  <2> QED
    BY <2>1, <2>2
<1>4. NvRefreshing'
  BY <1>2, <1>3 DEF NvRefreshing
<1> QED
  BY <1>1, <1>4

LEMMA NvSetNext ==
    ASSUME RegsAssumption, TypeOK, ScriptsNoNv, NvRefreshing, SetNext
    PROVE  ScriptsNoNv' /\ NvRefreshing'
<1>1. PICK p \in setting.slots : script' = [script EXCEPT !["ioctl"] = SetOne(p, setting.choice)]
  BY DEF SetNext
<1>2. p \in Offsets /\ setting.choice \in Int
  BY DEF TypeOK
<1>3. script'["ioctl"] = SetOne(p, setting.choice) /\ script'["data"] = script["data"]
  BY <1>1 DEF TypeOK, Threads
<1>4. NoWriteTo(script'["ioctl"], NonvolatileAddress)
  BY <1>2, <1>3, SetOneScript, ScriptNoNv
<1>5. script["ioctl"] = <<>> /\ UNCHANGED <<pipe, answers, adapter, nonvolatile_reg, last_nv>>
  BY DEF SetNext, cacheVars, historyVars
<1> QED
  BY <1>3, <1>4, <1>5, NvScript

LEMMA NvStart ==
    ASSUME RegsAssumption, TypeOK, ScriptsNoNv, NvRefreshing, Start
    PROVE  ScriptsNoNv' /\ NvRefreshing'
<1>1. /\ script["ioctl"] = <<>> /\ script'["data"] = script["data"]
      /\ UNCHANGED <<pipe, answers, adapter, nonvolatile_reg>>
  BY SMTT(30) DEF Start, StartDefaults, StartClock, StartIdentify, StartNonvolatile, Done, StartUnchanged,
         TypeOK, Threads
<1>2. CASE StartDefaults
  BY <1>1, <1>2, NvScript, EmptyNoWrite DEF StartDefaults
<1>3. CASE StartClock
  <2>1. script'["ioctl"] = ClockScript(register_storage[FCR_SLOT]) /\ register_storage[FCR_SLOT] \in Values
        /\ UNCHANGED last_nv
    BY <1>3 DEF StartClock, TypeOK, Threads, RegsAssumption
  <2>2. NoWriteTo(script'["ioctl"], NonvolatileAddress)
    BY <2>1, ClockScriptFacts, ScriptNoNv
  <2> QED
    BY <1>1, <2>1, <2>2, NvScript
<1>4. CASE StartIdentify
  <2>1. script'["ioctl"] = WriteCommand(Value(Upper(CMDR_OFFSET), 1))
                           \o WriteCommand(Value(Upper(CMDR_OFFSET), 1))
                           \o ReadCommand(Upper(VSTR_OFFSET)) \o ReadCommand(FirmwareAddress)
        /\ UNCHANGED last_nv
    BY <1>4 DEF StartIdentify, TypeOK, Threads
  <2>2. NoWriteTo(script'["ioctl"], NonvolatileAddress)
    BY <2>1, IdentifyScript, ScriptNoNv
  <2> QED
    BY <1>1, <2>1, <2>2, NvScript
<1>5. CASE StartNonvolatile
  <2>1. CASE CanSupportNonvolatile
    <3>1. script'["ioctl"] = ReadCommand(NonvolatileAddress) /\ NonvolatileAddress \in Addresses
      BY <1>5, <2>1, AddressFacts DEF StartNonvolatile, TypeOK, Threads
    <3>2. NoWriteTo(script'["ioctl"], NonvolatileAddress)
      BY <3>1, ScriptNoNv
    <3>3. 1 \in DOMAIN script'["ioctl"] /\ ReadsOf(script'["ioctl"][1], NonvolatileAddress)
      BY <3>1, ReadCommandWrites
    <3> QED
      BY <1>1, <3>2, <3>3, NvScript
  <2>2. CASE ~CanSupportNonvolatile
    BY <1>1, <1>5, <2>2, NvScript, EmptyNoWrite DEF StartNonvolatile
  <2> QED
    BY <2>1, <2>2
<1> QED
  BY <1>2, <1>3, <1>4, <1>5 DEF Start

LEMMA NvIoctl ==
    ASSUME RegsAssumption, TypeOK, ScriptsNoNv, NvRefreshing, HandleIoctl
    PROVE  ScriptsNoNv' /\ NvRefreshing'
<1>1. /\ script["ioctl"] = <<>> /\ script'["data"] = script["data"] /\ UNCHANGED <<answers, adapter>>
  BY DEF HandleIoctl, SetRegisters, GetRegisters, SetClockBits, SetNonvolatile, GetNonvolatile,
         Reprogram, Ioctl, Done, TypeOK, Threads
<1>2. CASE SetRegisters
  BY <1>1, <1>2, NvScript, EmptyNoWrite DEF SetRegisters
<1>3. CASE GetRegisters
  <2>1. PICK p \in GetChoices \ WriteOnly : script' = [script EXCEPT !["ioctl"] = ReadCommand(GetAddress(p))]
    BY <1>3 DEF GetRegisters
  <2>2. /\ script'["ioctl"] = ReadCommand(GetAddress(p)) /\ UNCHANGED <<pipe, nonvolatile_reg, last_nv>>
    BY <1>3, <2>1 DEF GetRegisters, TypeOK, Threads
  <2>3. GetAddress(p) \in Addresses
    BY AddressFacts DEF RegsAssumption, Registers
  <2>4. NoWriteTo(script'["ioctl"], NonvolatileAddress)
    BY <2>2, <2>3, ScriptNoNv
  <2> QED
    BY <1>1, <2>2, <2>4, NvScript
<1>4. CASE SetClockBits
  <2>1. /\ script'["ioctl"] = ClockScript(register_storage[FCR_SLOT]) /\ register_storage[FCR_SLOT] \in Values
        /\ UNCHANGED <<pipe, nonvolatile_reg, last_nv>>
    BY <1>4 DEF SetClockBits, TypeOK, Threads, RegsAssumption, historyVars
  <2>2. NoWriteTo(script'["ioctl"], NonvolatileAddress)
    BY <2>1, ClockScriptFacts, ScriptNoNv
  <2> QED
    BY <1>1, <2>1, <2>2, NvScript
<1>5. CASE GetNonvolatile
  <2>1. /\ script'["ioctl"] = ReadCommand(NonvolatileAddress) /\ NonvolatileAddress \in Addresses
        /\ UNCHANGED <<pipe, nonvolatile_reg>>
    BY <1>5, AddressFacts DEF GetNonvolatile, TypeOK, Threads
  <2>2. NoWriteTo(script'["ioctl"], NonvolatileAddress)
    BY <2>1, ScriptNoNv
  <2>3. 1 \in DOMAIN script'["ioctl"] /\ ReadsOf(script'["ioctl"][1], NonvolatileAddress)
    BY <2>1, ReadCommandWrites
  <2> QED
    BY <1>1, <2>1, <2>2, <2>3, NvScript
<1>6. CASE SetNonvolatile
  <2>1. last_nv' = "set" /\ UNCHANGED script
    BY <1>6 DEF SetNonvolatile
  <2> QED
    BY <2>1 DEF ScriptsNoNv, NvRefreshing
<1>7. CASE Reprogram
  <2> DEFINE x == Item("program", Value(FirmwareAddress, 0))
  <2>1. x \in Items /\ ~WritesTo(x, NonvolatileAddress)
    <3>1. FirmwareAddress \in Addresses
      BY AddressFacts DEF Registers
    <3> QED
      BY <3>1, ValueFacts, ItemFacts DEF WritesTo
  <2>2. /\ pipe \in Seq(Items) /\ pipe' = Append(pipe, x)
        /\ UNCHANGED <<script, nonvolatile_reg, last_nv>>
    BY <1>7 DEF Reprogram, historyVars, TypeOK
  <2> HIDE DEF x
  <2>3. /\ NoWriteTo(pipe, NonvolatileAddress) => NoWriteTo(pipe', NonvolatileAddress)
        /\ ReadPending(pipe, NonvolatileAddress) => ReadPending(pipe', NonvolatileAddress)
    BY <2>1, <2>2, AppendOther
  <2> QED
    BY <1>1, <2>2, <2>3 DEF ScriptsNoNv, NvRefreshing, Refreshing
<1> QED
  BY <1>2, <1>3, <1>4, <1>5, <1>6, <1>7 DEF HandleIoctl

LEMMA NvDataRead ==
    ASSUME RegsAssumption, TypeOK, ScriptsNoNv, NvRefreshing, DataRead
    PROVE  ScriptsNoNv' /\ NvRefreshing'
<1>1. /\ script'["data"] = ReadCommand(Upper(FIFO_FC_OFFSET)) /\ script'["ioctl"] = script["ioctl"]
      /\ UNCHANGED <<pipe, answers, adapter, nonvolatile_reg, last_nv>>
  BY DEF DataRead, TypeOK, Threads, historyVars, cacheVars
<1>2. NoWriteTo(script'["data"], NonvolatileAddress)
  BY <1>1, AddressFacts, ScriptNoNv DEF Registers
<1> QED
  BY <1>1, <1>2 DEF ScriptsNoNv, NvRefreshing, Threads

LEMMA NvExecute ==
    ASSUME RegsAssumption, TypeOK, AdapterTrue, ScriptsNoNv, NvRefreshing, Execute
    PROVE  ScriptsNoNv' /\ NvRefreshing'
<1> DEFINE at == NonvolatileAddress
           x == Head(pipe)
           v == adapter[x.value.at]
<1>1. /\ pipe \in Seq(Items) /\ pipe # <<>> /\ pipe' = Tail(pipe)
      /\ answers \in Seq(Values) /\ v \in Values /\ v.at = x.value.at
      /\ adapter'[at] = IF WritesTo(x, at) THEN x.value ELSE adapter[at]
      /\ answers' = IF x.op = "read" THEN Append(answers, v) ELSE answers
      /\ UNCHANGED <<script, nonvolatile_reg, last_nv>>
  BY AddressFacts, ExecuteFacts DEF cacheVars, threadVars, historyVars
<1>2. v.at = at => v = adapter[at]
  BY <1>1
<1>3. ReadsOf(x, at) => ~WritesTo(x, at) /\ v.at = at
  BY <1>1 DEF ReadsOf, WritesTo
<1>4. NoWriteTo(pipe, at) => ~WritesTo(x, at)
  BY <1>1, TailWrites
<1> DEFINE c == adapter[at].choice
           later == adapter'[at].choice
<1>5. /\ NoWriteTo(pipe, at) /\ v.at = at => v.choice = later
      /\ ReadsOf(x, at) /\ NoWriteTo(Tail(pipe), at) => v.at = at /\ v.choice = later
      /\ ~WritesTo(x, at) => later = c
  BY <1>1, <1>2, <1>3, <1>4
<1>6. ScriptsNoNv'
  BY <1>1 DEF ScriptsNoNv
<1>7. ASSUME last_nv = "get" PROVE Refreshing(script["ioctl"], Tail(pipe), answers', at, later, nonvolatile_reg)
  <2>1. Refreshing(script["ioctl"], pipe, answers, at, c, nonvolatile_reg)
    BY <1>7 DEF NvRefreshing
  <2> HIDE DEF at, v, c, later
  <2> QED
    BY <1>1, <1>5, <2>1, RefreshExecute
<1> QED
  BY <1>1, <1>6, <1>7 DEF NvRefreshing

LEMMA NvCompletion ==
    ASSUME RegsAssumption, TypeOK, ScriptsNoNv, NvRefreshing, Completion, ~lost'
    PROVE  ScriptsNoNv' /\ NvRefreshing'
<1> DEFINE at == NonvolatileAddress
<1>1. /\ answers \in Seq(Values) /\ answers # <<>> /\ answers' = Tail(answers)
      /\ UNCHANGED <<script, pipe, adapter, last_nv>>
      /\ nonvolatile_reg' = IF Head(answers).at = at THEN Head(answers).choice ELSE nonvolatile_reg
  BY CompletionFacts DEF threadVars, historyVars
<1>2. ASSUME NEW c, Refreshing(script["ioctl"], pipe, answers, at, c, nonvolatile_reg)
      PROVE  Refreshing(script["ioctl"], pipe, Tail(answers), at, c, nonvolatile_reg')
  BY <1>1, <1>2, RefreshComplete
<1> QED
  BY <1>1, <1>2 DEF ScriptsNoNv, NvRefreshing

LEMMA NvNext == RegsAssumption /\ TypeOK /\ RevisionTrue /\ NvInv /\ [Next]_vars => NvInv'
<1> SUFFICES ASSUME RegsAssumption, TypeOK, RevisionTrue, NvInv, [Next]_vars, ~lost'
             PROVE  ScriptsNoNv' /\ NvRefreshing'
  BY DEF NvInv
<1>1. ~lost /\ ScriptsNoNv /\ NvRefreshing
  BY LostStays DEF NvInv
<1>2. CASE \E t \in Threads : Send(t)
  BY <1>1, <1>2, NvSend
<1>3. CASE SetNext
  BY <1>1, <1>3, NvSetNext
<1>4. CASE Start
  BY <1>1, <1>4, NvStart
<1>5. CASE HandleIoctl
  BY <1>1, <1>5, NvIoctl
<1>6. CASE DataRead
  BY <1>1, <1>6, NvDataRead
<1>7. CASE Release \/ UNCHANGED vars
  BY <1>1, <1>7 DEF Release, vars, cacheVars, threadVars, historyVars, ScriptsNoNv, NvRefreshing
<1>8. CASE Execute
  BY <1>1, <1>8, NvExecute DEF RevisionTrue
<1>9. CASE Completion
  BY <1>1, <1>9, NvCompletion
<1>10. ~\E t \in Threads : SendFails(t)
  BY DEF SendFails
<1> QED
  BY <1>2, <1>3, <1>4, <1>5, <1>6, <1>7, <1>8, <1>9, <1>10 DEF Next, IoctlStep, Threads

LEMMA NvGuards == NvInv => NvSettles
<1> SUFFICES ASSUME NvInv, Quiet, ~lost, last_nv = "get"
             PROVE  nonvolatile_reg = adapter[NonvolatileAddress].choice
  BY DEF NvSettles
<1>1. script["ioctl"] = <<>> /\ pipe = <<>> /\ answers = <<>> /\ DOMAIN <<>> = {}
  BY DEF Quiet, Done
<1>2. Refreshing(<<>>, <<>>, <<>>, NonvolatileAddress, adapter[NonvolatileAddress].choice, nonvolatile_reg)
  BY <1>1 DEF NvInv, NvRefreshing
<1> QED
  BY <1>1, <1>2 DEF Refreshing, ReadPending, LastAnswerIs

\* When the last ioctl on it was a read, nonvolatile_reg ends as the adapter's
\* value, although SET_NONVOLATILE writes the copy at once and an answer that
\* is older may still come (synccom_port_set_nonvolatile, register_completion).
THEOREM NonvolatileSettles == Spec => []NvSettles
<1>1. RegsAssumption
  BY RegsAssumption
<1>2. Init => TypeOK /\ RevisionTrue /\ NvInv
  BY <1>1, InitType, RevisionInit, NvInit
<1>3. (TypeOK /\ RevisionTrue /\ NvInv) /\ [Next]_vars => (TypeOK /\ RevisionTrue /\ NvInv)'
  BY <1>1, NextType, RevisionNext, NvNext
<1> QED
  BY <1>2, <1>3, NvGuards, PTL DEF Spec

----------------------------------------------------------------------------
(* The lines of the clock chip.  Idle is what they are left at: "rest", or   *)
(* also "ones" where a start may leave the register at -1.                   *)

\* What the n-th command of q would find the lines at: now is the adapter's FCR.
LinesBefore(q, now, n, Idle) ==
    /\ \A i \in DOMAIN q :
          /\ i < n /\ WritesTo(q[i], FcrAddress)
          /\ \A j \in DOMAIN q : i < j /\ j < n => ~WritesTo(q[j], FcrAddress)
          => q[i].value.clock \in Idle
    /\ (\A i \in DOMAIN q : i < n => ~WritesTo(q[i], FcrAddress)) => now \in Idle

\* No read of FCR in q finds them in the middle.
ReadsIdle(q, now, Idle) ==
    \A n \in DOMAIN q : ReadsOf(q[n], FcrAddress) => LinesBefore(q, now, n, Idle)

LEMMA LinesAppend ==
    ASSUME NEW S, NEW q \in Seq(S), NEW x \in S, NEW now, NEW Idle
    PROVE  /\ \A n \in 1..(Len(q) + 1) :
                 LinesBefore(q, now, n, Idle) => LinesBefore(Append(q, x), now, n, Idle)
           /\ WritesTo(x, FcrAddress) /\ x.value.clock \in Idle
                 => LinesBefore(Append(q, x), now, Len(q) + 2, Idle)
           /\ ~WritesTo(x, FcrAddress) /\ LinesBefore(q, now, Len(q) + 1, Idle)
                 => LinesBefore(Append(q, x), now, Len(q) + 2, Idle)
<1> DEFINE r == Append(q, x)
<1>1. /\ DOMAIN r = 1..(Len(q) + 1) /\ DOMAIN q = 1..Len(q) /\ Len(q) \in Nat
      /\ r[Len(q) + 1] = x
      /\ \A i \in DOMAIN q : i \in DOMAIN r /\ r[i] = q[i]
  BY AppendIndexes
<1> HIDE DEF r
<1> DEFINE W(i) == WritesTo(r[i], FcrAddress)
           V(i) == WritesTo(q[i], FcrAddress)
<1>2. \A i \in DOMAIN q : W(i) <=> V(i)
  BY <1>1
<1>3. ASSUME NEW n \in 1..(Len(q) + 1), LinesBefore(q, now, n, Idle) PROVE LinesBefore(r, now, n, Idle)
  <2>1. \A i \in DOMAIN r : i < n => i \in DOMAIN q /\ r[i] = q[i]
    BY <1>1
  <2>2. \A i \in DOMAIN q : i \in DOMAIN r
    BY <1>1
  <2>3. ASSUME NEW i \in DOMAIN r, i < n, WritesTo(r[i], FcrAddress),
               \A j \in DOMAIN r : i < j /\ j < n => ~WritesTo(r[j], FcrAddress)
        PROVE  r[i].value.clock \in Idle
    <3>1. i \in DOMAIN q /\ r[i] = q[i]
      BY <2>1, <2>3
    <3>2. \A j \in DOMAIN q : i < j /\ j < n => ~WritesTo(q[j], FcrAddress)
      BY <2>1, <2>2, <2>3
    <3> QED
      BY <1>3, <2>3, <3>1, <3>2 DEF LinesBefore
  <2>4. ASSUME \A i \in DOMAIN r : i < n => ~WritesTo(r[i], FcrAddress) PROVE now \in Idle
    <3>1. \A i \in DOMAIN q : i < n => ~WritesTo(q[i], FcrAddress)
      BY <2>1, <2>2, <2>4
    <3> QED
      BY <1>3, <3>1 DEF LinesBefore
  <2> QED
    BY <2>3, <2>4 DEF LinesBefore
<1>4. Len(q) + 1 \in DOMAIN r /\ Len(q) + 1 < Len(q) + 2
  BY <1>1
<1>5. \A i \in DOMAIN r : i = Len(q) + 1 \/ (i < Len(q) + 1 /\ i \in DOMAIN q /\ r[i] = q[i])
  BY <1>1
<1>6. ASSUME WritesTo(x, FcrAddress), x.value.clock \in Idle
      PROVE  LinesBefore(r, now, Len(q) + 2, Idle)
  <2>1. WritesTo(r[Len(q) + 1], FcrAddress) /\ r[Len(q) + 1].value.clock \in Idle
    BY <1>1, <1>6
  <2>2. ASSUME NEW i \in DOMAIN r,
               \A j \in DOMAIN r : i < j /\ j < Len(q) + 2 => ~WritesTo(r[j], FcrAddress)
        PROVE  r[i].value.clock \in Idle
    BY <1>4, <1>5, <2>1, <2>2
  <2> QED
    BY <1>4, <2>1, <2>2 DEF LinesBefore
<1>7. ASSUME ~WritesTo(x, FcrAddress), LinesBefore(q, now, Len(q) + 1, Idle)
      PROVE  LinesBefore(r, now, Len(q) + 2, Idle)
  <2>1. \A i \in DOMAIN q : i \in DOMAIN r /\ r[i] = q[i] /\ i < Len(q) + 1 /\ i < Len(q) + 2
    BY <1>1
  <2>2. ASSUME NEW i \in DOMAIN r, WritesTo(r[i], FcrAddress),
               \A j \in DOMAIN r : i < j /\ j < Len(q) + 2 => ~WritesTo(r[j], FcrAddress)
        PROVE  r[i].value.clock \in Idle
    <3>1. i \in DOMAIN q /\ r[i] = q[i] /\ i < Len(q) + 1
      BY <1>1, <1>5, <1>7, <2>2
    <3>2. \A j \in DOMAIN q : i < j /\ j < Len(q) + 1 => ~WritesTo(q[j], FcrAddress)
      BY <2>1, <2>2
    <3> QED
      BY <1>7, <2>2, <3>1, <3>2 DEF LinesBefore
  <2>3. ASSUME \A i \in DOMAIN r : i < Len(q) + 2 => ~WritesTo(r[i], FcrAddress) PROVE now \in Idle
    <3>1. \A i \in DOMAIN q : i < Len(q) + 1 => ~WritesTo(q[i], FcrAddress)
      BY <2>1, <2>3
    <3> QED
      BY <1>7, <3>1 DEF LinesBefore
  <2> QED
    BY <2>2, <2>3 DEF LinesBefore
<1> QED
  BY <1>3, <1>6, <1>7 DEF r

LEMMA ReadsAppend ==
    ASSUME NEW S, NEW q \in Seq(S), NEW x \in S, NEW now, NEW Idle, ReadsIdle(q, now, Idle),
           ReadsOf(x, FcrAddress) => LinesBefore(q, now, Len(q) + 1, Idle)
    PROVE  ReadsIdle(Append(q, x), now, Idle)
<1> SUFFICES ASSUME NEW n \in DOMAIN Append(q, x), ReadsOf(Append(q, x)[n], FcrAddress)
             PROVE  LinesBefore(Append(q, x), now, n, Idle)
  BY DEF ReadsIdle
<1>1. n \in 1..(Len(q) + 1)
  BY AppendIndexes
<1>2. CASE n \in DOMAIN q /\ Append(q, x)[n] = q[n]
  BY <1>1, <1>2, LinesAppend DEF ReadsIdle
<1>3. CASE n = Len(q) + 1 /\ Append(q, x)[n] = x
  BY <1>1, <1>3, LinesAppend
<1> QED
  BY <1>2, <1>3, AppendIndexes

LEMMA LinesTail ==
    ASSUME NEW S, NEW q \in Seq(S), q # <<>>, NEW now, NEW Idle, NEW later,
           later = IF WritesTo(Head(q), FcrAddress) THEN Head(q).value.clock ELSE now
    PROVE  /\ \A n \in Nat : n >= 1 /\ LinesBefore(q, now, n + 1, Idle)
                 => LinesBefore(Tail(q), later, n, Idle)
           /\ ReadsIdle(q, now, Idle) => ReadsIdle(Tail(q), later, Idle)
           /\ ReadsIdle(q, now, Idle) /\ ReadsOf(Head(q), FcrAddress) => now \in Idle
<1> DEFINE r == Tail(q)
<1>1. /\ 1 \in DOMAIN q /\ Head(q) = q[1]
      /\ \A i \in DOMAIN r : i \in Nat /\ i >= 1 /\ i + 1 \in DOMAIN q /\ r[i] = q[i + 1]
      /\ \A i \in DOMAIN q : i \in Nat /\ (i = 1 \/ (i > 1 /\ i - 1 \in DOMAIN r /\ r[i - 1] = q[i]))
  BY TailIndexes
<1> HIDE DEF r
<1>2. ASSUME NEW n \in Nat, n >= 1, LinesBefore(q, now, n + 1, Idle) PROVE LinesBefore(r, later, n, Idle)
  <2>1. ASSUME NEW i \in DOMAIN r, i < n, WritesTo(r[i], FcrAddress),
               \A j \in DOMAIN r : i < j /\ j < n => ~WritesTo(r[j], FcrAddress)
        PROVE  r[i].value.clock \in Idle
    <3>1. i \in Nat /\ i >= 1 /\ i + 1 \in DOMAIN q /\ r[i] = q[i + 1] /\ i + 1 < n + 1
      BY <1>1, <2>1
    <3>2. ASSUME NEW j \in DOMAIN q, i + 1 < j, j < n + 1 PROVE ~WritesTo(q[j], FcrAddress)
      <4>1. j \in Nat /\ j # 1
        BY <1>1, <3>1, <3>2
      <4>2. j - 1 \in DOMAIN r /\ r[j - 1] = q[j] /\ i < j - 1 /\ j - 1 < n
        <5>1. j > 1 /\ j - 1 \in DOMAIN r /\ r[j - 1] = q[j]
          BY <1>1, <3>2, <4>1
        <5>2. i < j - 1 /\ j - 1 < n
          BY <1>2, <3>1, <3>2, <4>1
        <5> QED
          BY <5>1, <5>2
      <4> QED
        BY <2>1, <4>2
    <3> QED
      BY <1>2, <2>1, <3>1, <3>2 DEF LinesBefore
  <2>2. ASSUME \A i \in DOMAIN r : i < n => ~WritesTo(r[i], FcrAddress) PROVE later \in Idle
    <3>1. ASSUME NEW j \in DOMAIN q, j > 1, j < n + 1 PROVE ~WritesTo(q[j], FcrAddress)
      <4>1. j \in Nat /\ j - 1 \in DOMAIN r /\ r[j - 1] = q[j] /\ j - 1 < n
        BY <1>1, <3>1
      <4> QED
        BY <2>2, <4>1
    <3>2. CASE WritesTo(q[1], FcrAddress)
      <4>1. 1 \in DOMAIN q /\ 1 < n + 1 /\ \A j \in DOMAIN q : j > 1 <=> 1 < j
        BY <1>1, <1>2
      <4>2. q[1].value.clock \in Idle
        BY <1>2, <3>1, <3>2, <4>1 DEF LinesBefore
      <4>3. later = q[1].value.clock
        BY <1>1, <3>2
      <4> QED
        BY <4>2, <4>3
    <3>3. CASE ~WritesTo(q[1], FcrAddress)
      <4>1. \A j \in DOMAIN q : j < n + 1 => ~WritesTo(q[j], FcrAddress)
        BY <1>1, <3>1, <3>3
      <4>2. now \in Idle
        BY <1>2, <4>1 DEF LinesBefore
      <4> QED
        BY <1>1, <3>3, <4>2
    <3> QED
      BY <3>2, <3>3
  <2> QED
    BY <2>1, <2>2 DEF LinesBefore
<1>3. ASSUME ReadsIdle(q, now, Idle) PROVE ReadsIdle(r, later, Idle)
  <2> SUFFICES ASSUME NEW n \in DOMAIN r, ReadsOf(r[n], FcrAddress) PROVE LinesBefore(r, later, n, Idle)
    BY DEF ReadsIdle
  <2>1. n \in Nat /\ n >= 1 /\ n + 1 \in DOMAIN q /\ r[n] = q[n + 1]
    BY <1>1
  <2>2. LinesBefore(q, now, n + 1, Idle)
    BY <1>3, <2>1 DEF ReadsIdle
  <2> QED
    BY <1>2, <2>1, <2>2
<1>4. ASSUME ReadsIdle(q, now, Idle), ReadsOf(Head(q), FcrAddress) PROVE now \in Idle
  <2>1. LinesBefore(q, now, 1, Idle)
    BY <1>1, <1>4 DEF ReadsIdle
  <2>2. \A i \in DOMAIN q : ~(i < 1)
    BY <1>1
  <2> QED
    BY <2>1, <2>2 DEF LinesBefore
<1> QED
  BY <1>2, <1>3, <1>4 DEF r

\* A script of set_clock_bits, whose last write leaves the lines alone.
Programming(s, Idle) ==
    s # <<>> /\ (\A i \in DOMAIN s : WritesTo(s[i], FcrAddress)) /\ s[Len(s)].value.clock \in Idle

\* A script that does not touch them.
Resting(s, Idle) == \A i \in DOMAIN s : WritesTo(s[i], FcrAddress) => s[i].value.clock \in Idle

Lines == adapter[FcrAddress].clock

ScriptsIdle(Idle) ==
    /\ \/ Programming(script["ioctl"], Idle)
       \/ Resting(script["ioctl"], Idle) /\ LinesBefore(pipe, Lines, Len(pipe) + 1, Idle)
    /\ \A i \in DOMAIN script["data"] :
          script["data"][i].op # "write" /\ ~ReadsOf(script["data"][i], FcrAddress)

CopiesIdle(Idle) ==
    /\ \A i \in DOMAIN answers : answers[i].at = FcrAddress => answers[i].clock \in Idle
    /\ register_storage[FCR_SLOT].clock \in Idle

ClockState(Idle) == ScriptsIdle(Idle) /\ ReadsIdle(pipe, Lines, Idle) /\ CopiesIdle(Idle)

ClockInv(Idle) == ~lost => ClockState(Idle)

\* A start gives FCR a value of the registry, or the lines may be left high.
Leaves(Idle) ==
    /\ "rest" \in Idle
    /\ (RegistryOpens \subseteq {TRUE} /\ FCR_SLOT \in DefaultSlots) \/ "ones" \in Idle

LEMMA SentOther ==
    ASSUME NEW S, NEW q \in Seq(S), NEW x, NEW y \in S, NEW now, NEW Idle,
           SameCommand(x, y), ~WritesTo(x, FcrAddress), ReadsIdle(q, now, Idle),
           ReadsOf(x, FcrAddress) => LinesBefore(q, now, Len(q) + 1, Idle)
    PROVE  /\ ReadsIdle(Sent(q, x, y), now, Idle)
           /\ LinesBefore(q, now, Len(q) + 1, Idle)
                 => LinesBefore(Sent(q, x, y), now, Len(Sent(q, x, y)) + 1, Idle)
<1>1. CASE x.op = "post"
  BY <1>1 DEF Sent
<1>2. CASE x.op # "post"
  <2>1. Sent(q, x, y) = Append(q, y)
    BY <1>2 DEF Sent
  <2>2. Len(Append(q, y)) + 1 = Len(q) + 2
    OBVIOUS
  <2>3. ~WritesTo(y, FcrAddress) /\ (ReadsOf(y, FcrAddress) => ReadsOf(x, FcrAddress))
    BY DEF SameCommand, WritesTo, ReadsOf
  <2>4. ReadsIdle(Append(q, y), now, Idle)
    BY <2>3, ReadsAppend
  <2>5. LinesBefore(q, now, Len(q) + 1, Idle) => LinesBefore(Append(q, y), now, Len(q) + 2, Idle)
    BY <2>3, LinesAppend
  <2> QED
    BY <2>1, <2>2, <2>4, <2>5
<1> QED
  BY <1>1, <1>2

LEMMA SentLines ==
    ASSUME NEW S, NEW s \in Seq(S), s # <<>>, NEW q \in Seq(S), NEW y \in S, NEW now, NEW Idle,
           SameCommand(Head(s), y), y.value.clock = Head(s).value.clock, ReadsIdle(q, now, Idle),
           Programming(s, Idle) \/ (Resting(s, Idle) /\ LinesBefore(q, now, Len(q) + 1, Idle))
    PROVE  /\ ReadsIdle(Sent(q, Head(s), y), now, Idle)
           /\ \/ Programming(Tail(s), Idle)
              \/ /\ Resting(Tail(s), Idle)
                 /\ LinesBefore(Sent(q, Head(s), y), now, Len(Sent(q, Head(s), y)) + 1, Idle)
<1> DEFINE x == Head(s)
           u == Tail(s)
<1>1. /\ 1 \in DOMAIN s /\ x = s[1] /\ DOMAIN s = 1..Len(s) /\ Len(s) \in Nat
      /\ u \in Seq(S) /\ Len(u) = Len(s) - 1 /\ DOMAIN u = 1..(Len(s) - 1)
      /\ \A i \in DOMAIN u : i + 1 \in DOMAIN s /\ u[i] = s[i + 1]
  OBVIOUS
<1> HIDE DEF x, u
<1>2. u = <<>> => Len(s) = 1 /\ DOMAIN u = {}
  <2> SUFFICES ASSUME u = <<>> PROVE Len(s) = 1 /\ DOMAIN u = {}
    OBVIOUS
  <2>1. Len(u) = 0 /\ DOMAIN u = {}
    OBVIOUS
  <2>2. \A n \in Nat : 0 = n - 1 => n = 1
    OBVIOUS
  <2> QED
    BY <1>1, <2>1, <2>2
<1>3. u # <<>> => Len(u) \in DOMAIN u /\ u[Len(u)] = s[Len(s)]
  BY <1>1
<1>4. CASE Resting(s, Idle) /\ LinesBefore(q, now, Len(q) + 1, Idle)
  <2>1. Resting(u, Idle) /\ (WritesTo(x, FcrAddress) => x.value.clock \in Idle)
    BY <1>1, <1>4 DEF Resting
  <2>2. CASE ~WritesTo(x, FcrAddress)
    <3>1. SameCommand(x, y)
      BY DEF x
    <3>2. /\ ReadsIdle(Sent(q, x, y), now, Idle)
          /\ LinesBefore(Sent(q, x, y), now, Len(Sent(q, x, y)) + 1, Idle)
      BY <1>4, <2>2, <3>1, SentOther
    <3> QED
      BY <2>1, <3>2 DEF x, u
  <2>3. CASE WritesTo(x, FcrAddress)
    <3>1. WritesTo(y, FcrAddress) /\ y.value.clock \in Idle /\ Sent(q, x, y) = Append(q, y)
      BY <2>1, <2>3 DEF x, SameCommand, WritesTo, Sent
    <3>2. ~ReadsOf(y, FcrAddress) /\ Len(Append(q, y)) + 1 = Len(q) + 2
      BY <3>1 DEF WritesTo, ReadsOf
    <3>3. ReadsIdle(Append(q, y), now, Idle)
      BY <3>2, ReadsAppend
    <3>4. LinesBefore(Append(q, y), now, Len(q) + 2, Idle)
      BY <3>1, LinesAppend
    <3> QED
      BY <2>1, <3>1, <3>2, <3>3, <3>4 DEF x, u
  <2> QED
    BY <2>2, <2>3
<1>5. CASE Programming(s, Idle)
  <2>1. WritesTo(x, FcrAddress) /\ \A i \in DOMAIN u : WritesTo(u[i], FcrAddress)
    BY <1>1, <1>5 DEF Programming
  <2>2. WritesTo(y, FcrAddress) /\ Sent(q, x, y) = Append(q, y)
    BY <2>1 DEF x, SameCommand, WritesTo, Sent
  <2>3. ~ReadsOf(y, FcrAddress) /\ Len(Append(q, y)) + 1 = Len(q) + 2
    BY <2>2 DEF WritesTo, ReadsOf
  <2>4. ReadsIdle(Append(q, y), now, Idle)
    BY <2>3, ReadsAppend
  <2>5. CASE u = <<>>
    <3>1. y.value.clock \in Idle
      BY <1>1, <1>2, <1>5, <2>5 DEF Programming, x
    <3>2. LinesBefore(Append(q, y), now, Len(q) + 2, Idle)
      BY <2>2, <3>1, LinesAppend
    <3>3. Resting(u, Idle)
      BY <1>2, <2>5 DEF Resting
    <3> QED
      BY <2>2, <2>3, <2>4, <3>2, <3>3 DEF x, u
  <2>6. CASE u # <<>>
    <3>1. Programming(u, Idle)
      BY <1>3, <1>5, <2>1, <2>6 DEF Programming
    <3> QED
      BY <2>2, <2>4, <3>1 DEF x, u
  <2> QED
    BY <2>5, <2>6
<1> QED
  BY <1>4, <1>5

LEMMA ClockSend ==
    ASSUME TypeOK, NEW Idle, ClockState(Idle), NEW t \in Threads, Send(t)
    PROVE  ClockState(Idle)'
<1> DEFINE x == Head(script[t])
           y == Stamped(x)
<1>1. /\ script[t] \in Seq(Items) /\ script[t] # <<>> /\ x \in Items /\ y \in Items
      /\ pipe \in Seq(Items) /\ SameCommand(x, y) /\ y.value.clock = x.value.clock
      /\ pipe' = Sent(pipe, x, y)
      /\ script'[t] = Tail(script[t]) /\ \A u \in Threads \ {t} : script'[u] = script[u]
      /\ UNCHANGED <<answers, adapter, register_storage>>
  BY SendFacts DEF cacheVars
<1>2. Lines' = Lines /\ CopiesIdle(Idle)'
  BY <1>1 DEF ClockState, Lines, CopiesIdle
<1> HIDE DEF x, y
<1>3. CASE t = "ioctl"
  <2>1. script'["data"] = script["data"]
    BY <1>1, <1>3 DEF Threads
  <2>2. /\ ReadsIdle(Sent(pipe, x, y), Lines, Idle)
        /\ \/ Programming(Tail(script["ioctl"]), Idle)
           \/ /\ Resting(Tail(script["ioctl"]), Idle)
              /\ LinesBefore(Sent(pipe, x, y), Lines, Len(Sent(pipe, x, y)) + 1, Idle)
    <3>1. x = Head(script["ioctl"])
      BY <1>3 DEF x
    <3>2. /\ script["ioctl"] \in Seq(Items) /\ script["ioctl"] # <<>> /\ y \in Items /\ pipe \in Seq(Items)
          /\ SameCommand(Head(script["ioctl"]), y) /\ y.value.clock = Head(script["ioctl"]).value.clock
      BY <1>1, <1>3, <3>1
    <3>3. /\ ReadsIdle(pipe, Lines, Idle)
          /\ \/ Programming(script["ioctl"], Idle)
             \/ Resting(script["ioctl"], Idle) /\ LinesBefore(pipe, Lines, Len(pipe) + 1, Idle)
      BY DEF ClockState, ScriptsIdle
    <3> DEFINE s == script["ioctl"]
               n == Lines
    <3>4. /\ s \in Seq(Items) /\ s # <<>> /\ SameCommand(Head(s), y) /\ y.value.clock = Head(s).value.clock
          /\ ReadsIdle(pipe, n, Idle) /\ x = Head(s)
          /\ \/ Programming(s, Idle)
             \/ Resting(s, Idle) /\ LinesBefore(pipe, n, Len(pipe) + 1, Idle)
      BY <3>1, <3>2, <3>3
    <3> HIDE DEF s, n
    <3>5. /\ ReadsIdle(Sent(pipe, Head(s), y), n, Idle)
          /\ \/ Programming(Tail(s), Idle)
             \/ /\ Resting(Tail(s), Idle)
                /\ LinesBefore(Sent(pipe, Head(s), y), n, Len(Sent(pipe, Head(s), y)) + 1, Idle)
      BY <3>2, <3>4, SentLines
    <3> QED
      BY <3>4, <3>5 DEF s, n
  <2> QED
    BY <1>1, <1>2, <1>3, <2>1, <2>2 DEF ClockState, ScriptsIdle
<1>4. CASE t = "data"
  <2>1. script'["ioctl"] = script["ioctl"]
    BY <1>1, <1>4 DEF Threads
  <2>2. ~WritesTo(x, FcrAddress) /\ ~ReadsOf(x, FcrAddress)
    <3>1. 1 \in DOMAIN script["data"] /\ x = script["data"][1]
      BY <1>1, <1>4, TailIndexes DEF x
    <3> QED
      BY <3>1 DEF ClockState, ScriptsIdle, WritesTo
  <2>3. /\ ReadsIdle(Sent(pipe, x, y), Lines, Idle)
        /\ LinesBefore(pipe, Lines, Len(pipe) + 1, Idle)
              => LinesBefore(Sent(pipe, x, y), Lines, Len(Sent(pipe, x, y)) + 1, Idle)
    BY <1>1, <2>2, SentOther DEF ClockState
  <2>4. \A i \in DOMAIN script'["data"] :
           script'["data"][i].op # "write" /\ ~ReadsOf(script'["data"][i], FcrAddress)
    <3> DEFINE s == script["data"]
    <3>0. s \in Seq(Items) /\ s # <<>> /\ script'["data"] = Tail(s)
      BY <1>1, <1>4
    <3> HIDE DEF s
    <3>1. \A i \in DOMAIN Tail(s) : i + 1 \in DOMAIN s /\ Tail(s)[i] = s[i + 1]
      BY <3>0, TailIndexes
    <3>2. \A i \in DOMAIN s : s[i].op # "write" /\ ~ReadsOf(s[i], FcrAddress)
      BY DEF ClockState, ScriptsIdle, s
    <3> QED
      BY <3>0, <3>1, <3>2
  <2> QED
    BY <1>1, <1>2, <2>1, <2>3, <2>4 DEF ClockState, ScriptsIdle
<1> QED
  BY <1>3, <1>4 DEF Threads

\* The ioctl thread gets a script.
LEMMA ClockNewScript ==
    ASSUME NEW Idle, ClockState(Idle), script["ioctl"] = <<>>, script'["data"] = script["data"],
           UNCHANGED <<pipe, answers, adapter>>, register_storage'[FCR_SLOT].clock \in Idle,
           Programming(script'["ioctl"], Idle) \/ Resting(script'["ioctl"], Idle)
    PROVE  ClockState(Idle)'
<1>1. LinesBefore(pipe, Lines, Len(pipe) + 1, Idle)
  BY DEF ClockState, ScriptsIdle, Programming
<1>2. ScriptsIdle(Idle)'
  BY <1>1 DEF ClockState, ScriptsIdle, Lines
<1>3. CopiesIdle(Idle)' /\ ReadsIdle(pipe, Lines, Idle)'
  BY DEF ClockState, CopiesIdle, Lines
<1> QED
  BY <1>2, <1>3 DEF ClockState

\* Every script but the clock's leaves the lines alone.
LEMMA ClockScripts ==
    ASSUME RegsAssumption, NEW Idle, "rest" \in Idle
    PROVE  /\ Resting(<<>>, Idle)
           /\ \A o \in Offsets, choice \in Nat : Resting(SetOne(o, choice), Idle)
           /\ \A fcr \in Values : fcr.clock \in Idle => Programming(ClockScript(fcr), Idle)
           /\ \A at \in Addresses : Resting(ReadCommand(at), Idle)
           /\ Resting(WriteCommand(Value(Upper(CMDR_OFFSET), 1))
                      \o WriteCommand(Value(Upper(CMDR_OFFSET), 1))
                      \o ReadCommand(Upper(VSTR_OFFSET)) \o ReadCommand(FirmwareAddress), Idle)
<1>1. Resting(<<>>, Idle)
  BY EmptyNoWrite DEF Resting
<1>2. ASSUME NEW o \in Offsets, NEW choice \in Nat PROVE Resting(SetOne(o, choice), Idle)
  <2> DEFINE v == Value(SetAddress(o), choice)
  <2>1. SetAddress(o) \in Addresses /\ choice \in Int
    BY AddressFacts DEF Registers
  <2>2. v \in Values /\ v.clock = "rest"
    BY <2>1, ValueFacts DEF Value, Unset
  <2>3. SetOne(o, choice)[1].value = v
    <3>1. SetOne(o, choice)[1] = Item("write", v)
      BY <2>1, SetOneFacts
    <3> QED
      BY <3>1 DEF Item
  <2>4. \A i \in DOMAIN SetOne(o, choice) : i # 1 => SetOne(o, choice)[i].op # "write"
    BY <2>1, SetOneFacts
  <2> QED
    BY <2>2, <2>3, <2>4 DEF Resting, WritesTo
<1>3. ASSUME NEW fcr \in Values, fcr.clock \in Idle PROVE Programming(ClockScript(fcr), Idle)
  <2>1. /\ Len(ClockScript(fcr)) = 4 /\ DOMAIN ClockScript(fcr) = 1..4
        /\ \A i \in 1..4 : WritesTo(ClockScript(fcr)[i], FcrAddress)
        /\ ClockScript(fcr)[4].value.clock \in Idle
    BY <1>3, ClockScriptItems DEF WritesTo
  <2>2. ClockScript(fcr) # <<>>
    BY <2>1, EmptyNoWrite
  <2> QED
    BY <2>1, <2>2 DEF Programming
<1>4. ASSUME NEW at \in Addresses PROVE Resting(ReadCommand(at), Idle)
  BY ReadCommandWrites DEF Resting, WritesTo
<1>5. Resting(WriteCommand(Value(Upper(CMDR_OFFSET), 1))
              \o WriteCommand(Value(Upper(CMDR_OFFSET), 1))
              \o ReadCommand(Upper(VSTR_OFFSET)) \o ReadCommand(FirmwareAddress), Idle)
  <2> DEFINE w == WriteCommand(Value(Upper(CMDR_OFFSET), 1))
             v == ReadCommand(Upper(VSTR_OFFSET))
             f == ReadCommand(FirmwareAddress)
  <2>1. Upper(CMDR_OFFSET) \in Addresses /\ Upper(VSTR_OFFSET) \in Addresses /\ FirmwareAddress \in Addresses
    BY AddressFacts DEF Registers
  <2>2. w \in Seq(Items) /\ Resting(w, Idle)
    <3>1. Value(Upper(CMDR_OFFSET), 1) \in Values /\ Value(Upper(CMDR_OFFSET), 1).clock = "rest"
      BY <2>1, ValueFacts DEF Value, Unset
    <3>2. w \in Seq(Items) /\ Len(w) = 1 /\ w[1].value.clock = "rest"
      BY <3>1, WriteCommandFacts, ItemFacts
    <3>3. DOMAIN w = {1}
      BY <3>2
    <3> QED
      BY <3>2, <3>3 DEF Resting
  <2>3. v \in Seq(Items) /\ Resting(v, Idle) /\ f \in Seq(Items) /\ Resting(f, Idle)
    BY <1>4, <2>1, ReadCommandFacts
  <2> HIDE DEF w, v, f
  <2>4. \A x, y \in Seq(Items) : Resting(x, Idle) /\ Resting(y, Idle)
           => x \o y \in Seq(Items) /\ Resting(x \o y, Idle)
    <3> SUFFICES ASSUME NEW x \in Seq(Items), NEW y \in Seq(Items), Resting(x, Idle), Resting(y, Idle)
                 PROVE  x \o y \in Seq(Items) /\ Resting(x \o y, Idle)
      OBVIOUS
    <3>1. ASSUME NEW i \in DOMAIN (x \o y)
          PROVE  \/ i \in DOMAIN x /\ (x \o y)[i] = x[i]
                 \/ i - Len(x) \in DOMAIN y /\ (x \o y)[i] = y[i - Len(x)]
      OBVIOUS
    <3> QED
      BY <3>1 DEF Resting
  <2>5. Resting(w \o w \o v \o f, Idle)
    BY <2>2, <2>3, <2>4
  <2> QED
    BY <2>5 DEF w, v, f
<1> QED
  BY <1>1, <1>2, <1>3, <1>4, <1>5

LEMMA ClockSetNext ==
    ASSUME RegsAssumption, TypeOK, NEW Idle, "rest" \in Idle, ClockState(Idle), SetNext
    PROVE  ClockState(Idle)'
<1>1. PICK p \in setting.slots : script' = [script EXCEPT !["ioctl"] = SetOne(p, setting.choice)]
  BY DEF SetNext
<1>2. p \in Offsets /\ setting.choice \in Nat
  BY DEF TypeOK
<1>3. /\ script'["ioctl"] = SetOne(p, setting.choice) /\ script'["data"] = script["data"]
      /\ script["ioctl"] = <<>> /\ UNCHANGED <<pipe, answers, adapter, register_storage>>
  BY <1>1 DEF SetNext, TypeOK, Threads, cacheVars
<1>4. Resting(script'["ioctl"], Idle)
  BY <1>2, <1>3, ClockScripts
<1>5. register_storage'[FCR_SLOT].clock \in Idle
  BY <1>3 DEF ClockState, CopiesIdle
<1> QED
  BY <1>3, <1>4, <1>5, ClockNewScript

LEMMA ClockStart ==
    ASSUME RegsAssumption, TypeOK, NEW Idle, Leaves(Idle), ClockState(Idle), Start
    PROVE  ClockState(Idle)'
<1>1. /\ script["ioctl"] = <<>> /\ script'["data"] = script["data"]
      /\ UNCHANGED <<pipe, answers, adapter>> /\ "rest" \in Idle
      /\ register_storage[FCR_SLOT] \in Values /\ register_storage[FCR_SLOT].clock \in Idle
  BY SMTT(30) DEF Start, StartDefaults, StartClock, StartIdentify, StartNonvolatile, Done, StartUnchanged,
         TypeOK, Threads, Leaves, ClockState, CopiesIdle, RegsAssumption
<1>2. CASE StartDefaults
  <2>1. PICK opens \in RegistryOpens :
           register_storage' = [o \in Offsets |->
               Value(SetAddress(o), IF o \in (IF opens THEN DefaultSlots ELSE {}) THEN 1 ELSE Unset)]
    BY <1>2 DEF StartDefaults
  <2>2. FCR_SLOT \in Offsets /\ script' = script
    BY <1>2 DEF StartDefaults, RegsAssumption
  <2>3. register_storage'[FCR_SLOT] =
           Value(SetAddress(FCR_SLOT), IF FCR_SLOT \in (IF opens THEN DefaultSlots ELSE {}) THEN 1 ELSE Unset)
    BY <2>1, <2>2
  <2>4. \A at : Value(at, 1).clock = "rest" /\ Value(at, Unset).clock = "ones"
    BY DEF Value, Unset
  <2>5. register_storage'[FCR_SLOT].clock \in Idle
    <3>1. CASE "ones" \in Idle
      BY <1>1, <2>3, <2>4, <3>1
    <3>2. CASE "ones" \notin Idle
      <4>1. opens = TRUE /\ FCR_SLOT \in DefaultSlots
        BY <3>2 DEF Leaves
      <4> QED
        BY <1>1, <2>3, <2>4, <4>1
    <3> QED
      BY <3>1, <3>2
  <2>6. Resting(script'["ioctl"], Idle)
    BY <1>1, <2>2, ClockScripts
  <2> QED
    BY <1>1, <2>5, <2>6, ClockNewScript
<1>3. CASE StartClock \/ StartIdentify \/ StartNonvolatile
  <2>1. UNCHANGED register_storage
    BY <1>3 DEF StartClock, StartIdentify, StartNonvolatile
  <2>2. CASE StartClock
    <3>1. script'["ioctl"] = ClockScript(register_storage[FCR_SLOT])
      BY <2>2 DEF StartClock, TypeOK, Threads
    <3>2. Programming(script'["ioctl"], Idle)
      BY <1>1, <3>1, ClockScripts
    <3> QED
      BY <1>1, <2>1, <3>2, ClockNewScript
  <2>3. CASE StartIdentify
    <3>1. script'["ioctl"] = WriteCommand(Value(Upper(CMDR_OFFSET), 1))
                             \o WriteCommand(Value(Upper(CMDR_OFFSET), 1))
                             \o ReadCommand(Upper(VSTR_OFFSET)) \o ReadCommand(FirmwareAddress)
      BY <2>3 DEF StartIdentify, TypeOK, Threads
    <3>2. Resting(script'["ioctl"], Idle)
      BY <1>1, <3>1, ClockScripts
    <3> QED
      BY <1>1, <2>1, <3>2, ClockNewScript
  <2>4. CASE StartNonvolatile
    <3>1. script'["ioctl"] = ReadCommand(NonvolatileAddress) \/ script' = script
      BY <2>4 DEF StartNonvolatile, TypeOK, Threads
    <3>2. Resting(script'["ioctl"], Idle)
      BY <1>1, <3>1, AddressFacts, ClockScripts
    <3> QED
      BY <1>1, <2>1, <3>2, ClockNewScript
  <2> QED
    BY <1>3, <2>2, <2>3, <2>4
<1> QED
  BY <1>2, <1>3 DEF Start

\* A command that is not of FCR goes out at once.
LEMMA ClockAppend ==
    ASSUME TypeOK, NEW Idle, ClockState(Idle), NEW x \in Items, x.value.at # FcrAddress,
           pipe' = Append(pipe, x), UNCHANGED <<script, answers, adapter, register_storage>>
    PROVE  ClockState(Idle)'
<1>1. ~WritesTo(x, FcrAddress) /\ ~ReadsOf(x, FcrAddress) /\ pipe \in Seq(Items)
  BY DEF WritesTo, ReadsOf, TypeOK
<1>2. ReadsIdle(Append(pipe, x), Lines, Idle)
  BY <1>1, ReadsAppend DEF ClockState
<1>3. LinesBefore(pipe, Lines, Len(pipe) + 1, Idle)
         => LinesBefore(Append(pipe, x), Lines, Len(pipe) + 2, Idle)
  BY <1>1, LinesAppend
<1>4. Len(Append(pipe, x)) + 1 = Len(pipe) + 2
  BY <1>1
<1>5. Lines' = Lines /\ CopiesIdle(Idle)'
  BY DEF Lines, ClockState, CopiesIdle
<1> QED
  BY <1>2, <1>3, <1>4, <1>5 DEF ClockState, ScriptsIdle

LEMMA ClockIoctl ==
    ASSUME RegsAssumption, TypeOK, NEW Idle, Leaves(Idle), ClockState(Idle), HandleIoctl
    PROVE  ClockState(Idle)'
<1>1. /\ script["ioctl"] = <<>> /\ script'["data"] = script["data"]
      /\ UNCHANGED <<answers, adapter, register_storage>> /\ "rest" \in Idle
      /\ register_storage[FCR_SLOT] \in Values /\ register_storage[FCR_SLOT].clock \in Idle
  BY DEF HandleIoctl, SetRegisters, GetRegisters, SetClockBits, SetNonvolatile, GetNonvolatile,
         Reprogram, Ioctl, Done, TypeOK, Threads, Leaves, ClockState, CopiesIdle, RegsAssumption
<1>2. CASE SetRegisters
  <2>1. UNCHANGED <<script, pipe>>
    BY <1>2 DEF SetRegisters
  <2>2. Resting(script'["ioctl"], Idle)
    BY <1>1, <2>1, ClockScripts
  <2> QED
    BY <1>1, <2>1, <2>2, ClockNewScript
<1>3. CASE GetRegisters
  <2>1. PICK p \in GetChoices \ WriteOnly : script' = [script EXCEPT !["ioctl"] = ReadCommand(GetAddress(p))]
    BY <1>3 DEF GetRegisters
  <2>2. script'["ioctl"] = ReadCommand(GetAddress(p)) /\ UNCHANGED pipe
    BY <1>3, <2>1 DEF GetRegisters, TypeOK, Threads
  <2>3. GetAddress(p) \in Addresses
    BY AddressFacts DEF RegsAssumption, Registers
  <2>4. Resting(script'["ioctl"], Idle)
    BY <1>1, <2>2, <2>3, ClockScripts
  <2> QED
    BY <1>1, <2>2, <2>4, ClockNewScript
<1>4. CASE SetClockBits
  <2>1. script'["ioctl"] = ClockScript(register_storage[FCR_SLOT]) /\ UNCHANGED pipe
    BY <1>4 DEF SetClockBits, TypeOK, Threads
  <2>2. Programming(script'["ioctl"], Idle)
    BY <1>1, <2>1, ClockScripts
  <2> QED
    BY <1>1, <2>1, <2>2, ClockNewScript
<1>5. CASE GetNonvolatile
  <2>1. /\ script'["ioctl"] = ReadCommand(NonvolatileAddress) /\ NonvolatileAddress \in Addresses
        /\ UNCHANGED pipe
    BY <1>5, AddressFacts DEF GetNonvolatile, TypeOK, Threads
  <2>2. Resting(script'["ioctl"], Idle)
    BY <1>1, <2>1, ClockScripts
  <2> QED
    BY <1>1, <2>1, <2>2, ClockNewScript
<1>6. CASE SetNonvolatile
  <2> DEFINE x == Item("write", Value(NonvolatileAddress, Choice))
  <2>1. NonvolatileAddress \in Addresses /\ Choice \in Int /\ NonvolatileAddress # FcrAddress
    BY AddressFacts, SMTT(30) DEF TypeOK, Choice, NonvolatileAddress, FcrAddress
  <2>2. x \in Items /\ x.value.at # FcrAddress
    BY <2>1, ValueFacts, ItemFacts
  <2>3. pipe' = Append(pipe, x) /\ UNCHANGED script
    BY <1>6 DEF SetNonvolatile
  <2> HIDE DEF x
  <2> QED
    BY <1>1, <2>2, <2>3, ClockAppend
<1>7. CASE Reprogram
  <2> DEFINE x == Item("program", Value(FirmwareAddress, 0))
  <2>1. FirmwareAddress \in Addresses /\ FirmwareAddress # FcrAddress
    BY AddressFacts DEF Registers, FirmwareAddress, FcrAddress, FCR_OFFSET
  <2>2. x \in Items /\ x.value.at # FcrAddress
    BY <2>1, ValueFacts, ItemFacts
  <2>3. pipe' = Append(pipe, x) /\ UNCHANGED script
    BY <1>7 DEF Reprogram
  <2> HIDE DEF x
  <2> QED
    BY <1>1, <2>2, <2>3, ClockAppend
<1> QED
  BY <1>2, <1>3, <1>4, <1>5, <1>6, <1>7 DEF HandleIoctl

LEMMA ClockDataRead ==
    ASSUME RegsAssumption, TypeOK, NEW Idle, ClockState(Idle), DataRead
    PROVE  ClockState(Idle)'
<1> DEFINE at == Upper(FIFO_FC_OFFSET)
<1>1. /\ script'["data"] = ReadCommand(at) /\ script'["ioctl"] = script["ioctl"]
      /\ UNCHANGED <<pipe, answers, adapter, register_storage>>
  BY DEF DataRead, TypeOK, Threads, cacheVars
<1>2. at \in Addresses /\ at # FcrAddress
  BY AddressFacts DEF Registers, Upper, FcrAddress
<1>3. \A i \in DOMAIN ReadCommand(at) :
         ReadCommand(at)[i].op # "write" /\ ~ReadsOf(ReadCommand(at)[i], FcrAddress)
  <2> HIDE DEF at
  <2>1. DOMAIN ReadCommand(at) = {1, 2} /\ Value(at, 0) \in Values /\ Value(at, 0).at = at
    BY <1>2, ReadCommandFacts, ValueFacts
  <2>2. \A i \in DOMAIN ReadCommand(at) : ReadCommand(at)[i].value.at = at
    BY <1>2, <2>1, ReadCommandFacts, ItemFacts
  <2> QED
    BY <1>2, <2>2, ReadCommandWrites DEF ReadsOf
<1> HIDE DEF at
<1>4. Lines' = Lines
  BY <1>1 DEF Lines
<1> QED
  BY <1>1, <1>3, <1>4 DEF ClockState, ScriptsIdle, CopiesIdle

LEMMA ClockExecute ==
    ASSUME RegsAssumption, TypeOK, AdapterTrue, NEW Idle, ClockState(Idle), Execute
    PROVE  ClockState(Idle)'
<1> DEFINE x == Head(pipe)
           v == adapter[x.value.at]
<1>1. /\ pipe \in Seq(Items) /\ pipe # <<>> /\ pipe' = Tail(pipe)
      /\ answers \in Seq(Values) /\ v \in Values /\ v.at = x.value.at
      /\ adapter'[FcrAddress] = IF WritesTo(x, FcrAddress) THEN x.value ELSE adapter[FcrAddress]
      /\ answers' = IF x.op = "read" THEN Append(answers, v) ELSE answers
      /\ UNCHANGED <<script, register_storage>>
  BY AddressFacts, ExecuteFacts DEF cacheVars, threadVars, Registers
<1> DEFINE now == Lines
           later == Lines'
           n == Len(Tail(pipe)) + 1
<1>2. later = IF WritesTo(x, FcrAddress) THEN x.value.clock ELSE now
  BY <1>1 DEF Lines
<1>3. n \in Nat /\ n >= 1 /\ n + 1 = Len(pipe) + 1
  BY <1>1
<1>4. /\ LinesBefore(pipe, now, n + 1, Idle) => LinesBefore(Tail(pipe), later, n, Idle)
      /\ ReadsIdle(pipe, now, Idle) => ReadsIdle(Tail(pipe), later, Idle)
      /\ ReadsIdle(pipe, now, Idle) /\ ReadsOf(x, FcrAddress) => now \in Idle
  <2> HIDE DEF now, later, n
  <2> QED
    BY <1>1, <1>2, <1>3, LinesTail
<1>5. ScriptsIdle(Idle)' /\ ReadsIdle(pipe, Lines, Idle)'
  BY <1>1, <1>3, <1>4 DEF ClockState, ScriptsIdle
<1>6. CopiesIdle(Idle)'
  <2>1. v.at = FcrAddress /\ x.op = "read" => v.clock \in Idle
    BY <1>1, <1>4 DEF ClockState, ReadsOf, Lines
  <2>2. \A i \in DOMAIN answers : answers[i].at = FcrAddress => answers[i].clock \in Idle
    BY DEF ClockState, CopiesIdle
  <2> HIDE DEF v, x
  <2>3. CASE x.op = "read"
    <3>1. \A i \in DOMAIN Append(answers, v) :
             \/ i \in DOMAIN answers /\ Append(answers, v)[i] = answers[i]
             \/ Append(answers, v)[i] = v
      BY <1>1, AppendIndexes
    <3>2. answers' = Append(answers, v)
      BY <1>1, <2>3
    <3> QED
      BY <1>1, <2>1, <2>2, <2>3, <3>1, <3>2 DEF ClockState, CopiesIdle
  <2>4. CASE x.op # "read"
    BY <1>1, <2>4 DEF ClockState, CopiesIdle
  <2> QED
    BY <2>3, <2>4
<1> QED
  BY <1>5, <1>6 DEF ClockState

LEMMA ClockCompletion ==
    ASSUME RegsAssumption, TypeOK, NEW Idle, ClockState(Idle), Completion, ~lost'
    PROVE  ClockState(Idle)'
<1>1. /\ answers \in Seq(Values) /\ answers # <<>> /\ answers' = Tail(answers)
      /\ UNCHANGED <<script, pipe, adapter>>
      /\ register_storage'[FCR_SLOT] = IF Head(answers).at = FcrAddress THEN Head(answers)
                                       ELSE register_storage[FCR_SLOT]
  BY CompletionFacts DEF threadVars
<1>2. /\ 1 \in DOMAIN answers /\ Head(answers) = answers[1]
      /\ \A i \in DOMAIN Tail(answers) : i + 1 \in DOMAIN answers /\ Tail(answers)[i] = answers[i + 1]
  BY <1>1, TailIndexes
<1>3. CopiesIdle(Idle)'
  <2>1. /\ \A i \in DOMAIN answers : answers[i].at = FcrAddress => answers[i].clock \in Idle
        /\ register_storage[FCR_SLOT].clock \in Idle
    BY DEF ClockState, CopiesIdle
  <2>2. register_storage'[FCR_SLOT].clock \in Idle
    BY <1>1, <1>2, <2>1
  <2>3. \A i \in DOMAIN Tail(answers) : Tail(answers)[i].at = FcrAddress => Tail(answers)[i].clock \in Idle
    BY <1>2, <2>1
  <2> QED
    BY <1>1, <2>2, <2>3 DEF CopiesIdle
<1>4. Lines' = Lines
  BY <1>1 DEF Lines
<1> QED
  BY <1>1, <1>3, <1>4 DEF ClockState, ScriptsIdle

LEMMA ClockInit == ASSUME RegsAssumption, NEW Idle, "rest" \in Idle, Init PROVE ClockInv(Idle)
<1>1. /\ pipe = <<>> /\ answers = <<>> /\ DOMAIN <<>> = {} /\ Len(<<>>) = 0
      /\ script["ioctl"] = ReadCommand(Fx2Address) /\ script["data"] = <<>>
      /\ register_storage[FCR_SLOT] = Value(SetAddress(FCR_SLOT), 0)
  BY DEF Init, Threads, RegsAssumption
<1>2. \A at : Value(at, 0).clock = "rest"
  BY DEF Value, Unset
<1>3. Lines = "rest"
  <2>1. PICK revision \in Revisions :
           adapter = [at \in Addresses |-> Value(at, IF at = Fx2Address THEN revision ELSE 0)]
    BY DEF Init
  <2>2. FcrAddress \in Addresses /\ FcrAddress # Fx2Address
    BY AddressFacts DEF FcrAddress, Fx2Address, Registers
  <2>3. adapter[FcrAddress] = Value(FcrAddress, 0)
    BY <2>1, <2>2
  <2> QED
    BY <1>2, <2>3 DEF Lines
<1>4. LinesBefore(pipe, Lines, Len(pipe) + 1, Idle) /\ ReadsIdle(pipe, Lines, Idle)
  BY <1>1, <1>3 DEF LinesBefore, ReadsIdle
<1>5. Resting(script["ioctl"], Idle)
  <2>1. Fx2Address \in Addresses
    BY DEF Addresses
  <2> QED
    BY <1>1, <2>1, ClockScripts
<1>6. ScriptsIdle(Idle)
  BY <1>1, <1>4, <1>5 DEF ScriptsIdle
<1>7. CopiesIdle(Idle)
  BY <1>1, <1>2 DEF CopiesIdle
<1> QED
  BY <1>4, <1>6, <1>7 DEF ClockInv, ClockState

LEMMA ClockNext ==
    ASSUME RegsAssumption, TypeOK, RevisionTrue, NEW Idle, Leaves(Idle), ClockInv(Idle), [Next]_vars
    PROVE  ClockInv(Idle)'
<1> SUFFICES ASSUME ~lost' PROVE ClockState(Idle)'
  BY DEF ClockInv
<1>1. ClockState(Idle) /\ "rest" \in Idle
  BY LostStays DEF ClockInv, Leaves
<1>2. CASE \E t \in Threads : Send(t)
  BY <1>1, <1>2, ClockSend
<1>3. CASE SetNext
  BY <1>1, <1>3, ClockSetNext
<1>4. CASE Start
  BY <1>1, <1>4, ClockStart
<1>5. CASE HandleIoctl
  BY <1>1, <1>5, ClockIoctl
<1>6. CASE DataRead
  BY <1>1, <1>6, ClockDataRead
<1>7. CASE Release \/ UNCHANGED vars
  <2>1. UNCHANGED <<script, pipe, answers, adapter, register_storage>>
    BY <1>7 DEF Release, vars, cacheVars, threadVars
  <2> QED
    BY <1>1, <2>1 DEF ClockState, ScriptsIdle, CopiesIdle, Lines
<1>8. CASE Execute
  BY <1>1, <1>8, ClockExecute DEF RevisionTrue
<1>9. CASE Completion
  BY <1>1, <1>9, ClockCompletion
<1>10. ~\E t \in Threads : SendFails(t)
  BY DEF SendFails
<1> QED
  BY <1>2, <1>3, <1>4, <1>5, <1>6, <1>7, <1>8, <1>9, <1>10 DEF Next, IoctlStep, Threads

LEMMA ClockGuards ==
    ASSUME NEW Idle, ClockInv(Idle)
    PROVE  ~lost => /\ Quiet => adapter[FcrAddress].clock \in Idle
                    /\ register_storage[FCR_SLOT].clock \in Idle
<1> SUFFICES ASSUME ~lost
             PROVE  /\ Quiet => adapter[FcrAddress].clock \in Idle
                    /\ register_storage[FCR_SLOT].clock \in Idle
  OBVIOUS
<1>1. register_storage[FCR_SLOT].clock \in Idle
  BY DEF ClockInv, ClockState, CopiesIdle
<1>2. ASSUME Quiet PROVE adapter[FcrAddress].clock \in Idle
  <2>1. script["ioctl"] = <<>> /\ pipe = <<>> /\ DOMAIN <<>> = {}
    BY <1>2 DEF Quiet, Done
  <2>2. LinesBefore(<<>>, Lines, Len(pipe) + 1, Idle)
    BY <2>1 DEF ClockInv, ClockState, ScriptsIdle, Programming
  <2> QED
    BY <2>1, <2>2 DEF LinesBefore, Lines
<1> QED
  BY <1>1, <1>2

\* Once it is programmed, with nothing lost, the lines of the clock chip are
\* left alone, and no read of FCR catches them in the middle (set_clock_bits,
\* register_completion), where the registry gives FCR a value at each start.
THEOREM ClockLinesLeftIdle ==
    ASSUME RegistryOpens \subseteq {TRUE}, FCR_SLOT \in DefaultSlots
    PROVE  Spec => []ClockLeftIdle
<1> DEFINE Idle == {"rest"}
<1>1. RegsAssumption /\ "rest" \in Idle /\ Leaves(Idle)
  BY RegsAssumption DEF Leaves
<1> HIDE DEF Idle
<1>2. Init => TypeOK /\ RevisionTrue /\ ClockInv(Idle)
  BY <1>1, InitType, RevisionInit, ClockInit
<1>3. (TypeOK /\ RevisionTrue /\ ClockInv(Idle)) /\ [Next]_vars
         => (TypeOK /\ RevisionTrue /\ ClockInv(Idle))'
  BY <1>1, NextType, RevisionNext, ClockNext
<1>4. ClockInv(Idle) => ClockLeftIdle
  BY ClockGuards DEF ClockLeftIdle, Idle
<1> QED
  BY <1>2, <1>3, <1>4, PTL DEF Spec

\* The lines are left as they are at rest or all high, for every content of the
\* registry: never low, in the middle of the bits or at the strobe.
ClockProgrammed ==
    ~lost => /\ Quiet => adapter[FcrAddress].clock \in {"rest", "ones"}
             /\ register_storage[FCR_SLOT].clock \in {"rest", "ones"}

\* Whatever the registry gives, no programming of the clock is left half done
\* and no read of FCR catches one (set_clock_bits, register_completion).
THEOREM ClockNeverHalfDone == Spec => []ClockProgrammed
<1> DEFINE Idle == {"rest", "ones"}
<1>1. RegsAssumption /\ "rest" \in Idle /\ Leaves(Idle)
  BY RegsAssumption DEF Leaves
<1> HIDE DEF Idle
<1>2. Init => TypeOK /\ RevisionTrue /\ ClockInv(Idle)
  BY <1>1, InitType, RevisionInit, ClockInit
<1>3. (TypeOK /\ RevisionTrue /\ ClockInv(Idle)) /\ [Next]_vars
         => (TypeOK /\ RevisionTrue /\ ClockInv(Idle))'
  BY <1>1, NextType, RevisionNext, ClockNext
<1>4. ClockInv(Idle) => ClockProgrammed
  BY ClockGuards DEF ClockProgrammed, Idle
<1> QED
  BY <1>2, <1>3, <1>4, PTL DEF Spec

=============================================================================
