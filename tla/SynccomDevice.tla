---------------------------- MODULE SynccomDevice ----------------------------
(* The life of the driver's device objects (device.c): synccom_port_new      *)
(* builds a port step by step, PrepareHardware and D0Entry start it, D0Exit  *)
(* and ReleaseHardware stop it, and the settings come from the registry.     *)
(* Several devices are added at a time.  While a port is built and after it  *)
(* is released its callbacks may run: completions of register reads, the     *)
(* continuous reader, the timer and the DPCs.  A step of another module that *)
(* takes several locks is one step here: what matters is what it touches.    *)
EXTENDS Integers, Sequences

CONSTANTS
    Adapters,        \* the adapters that are plugged in and out
    Flags,           \* the settings that are flags (append_status, ...)
    WORD, BYTE,      \* 2^32, 2^8
    RegistryChoices, \* what the registry may hold of an adapter's settings
    IoctlValues,     \* the numbers ioctls pass
    MaxPorts,        \* bound on calls of DeviceAdd
    MaxStarts,       \* bound on the starts of one device object
    Followed,        \* bound on the ports that are followed once they are built: what
                     \* a port does from then on is nothing to another port
    MaxIoctls        \* bound on the ioctls that change a setting

Missing == -1
Settings == Flags \cup {"MAX_WRITES", "TX_MODIFIERS"}

\* XF, XREP, TXT, XREP | TXT and TXEXT of synccom.h.
Modifiers == {0, 1, 2, 3, 4}

ASSUME DeviceAssumption ==
    /\ Adapters # {} /\ Flags \cap {"MAX_WRITES", "TX_MODIFIERS", "PortNumber"} = {}
    /\ WORD \in Nat \ {0} /\ BYTE \in Nat \ {0}
    /\ RegistryChoices \subseteq [Settings -> 0..(WORD - 1) \cup {Missing}]
    /\ IoctlValues \subseteq Int
    /\ Followed \subseteq Nat /\ MaxPorts \in Nat /\ MaxStarts \in Nat /\ MaxIoctls \in Nat

Ports == 1..MaxPorts

\* What synccom_port_new makes, in its order.
Steps == <<"device", "usb", "number", "queues", "link", "locks", "request", "dpcs", "timer", "lists">>
StepNames == {Steps[i] : i \in DOMAIN Steps}

VARIABLES
    instance,  \* the counter of synccom_port_new, under port_num_spinlock
    registry,  \* the registry of each adapter: its settings and PortNumber
    port,      \* the device objects
    ioctls,    \* counter of the bounded ioctls
    early,     \* history: what the last callback used before it was made
    late       \* history: <<port, callback>> when it used a frame that was freed

vars == <<instance, registry, port, ioctls, early, late>>

\* A device object.  istream and pending_oframe are pointers: to nothing, to a
\* frame, or to a frame that was freed.  made: how many of Steps are done;
\* asked: register reads not answered.
NoPort == [phase |-> "none", adapter |-> CHOOSE a \in Adapters : TRUE, made |-> 0, number |-> 0,
           istream |-> "null", pending_oframe |-> "null", reader |-> FALSE, timer |-> FALSE,
           dpcs |-> {}, asked |-> {}, starts |-> 0, opened |-> FALSE,
           setting |-> [s \in Settings |-> 0], cap |-> [input |-> 0, output |-> 0]]

Init ==
    /\ instance = 0
    /\ \E r \in RegistryChoices :
          registry = [a \in Adapters |-> [s \in Settings \cup {"PortNumber"} |->
                         IF s = "PortNumber" THEN Missing ELSE r[s]]]
    /\ port = [n \in Ports |-> NoPort]
    /\ ioctls = 0 /\ early = {} /\ late = {}

Exists(n) == port[n].phase \notin {"none", "deleted"}

Made(n) == {Steps[i] : i \in 1..port[n].made}

\* A callback of port n uses the objects needs and the frames a pointer points to.
Use(n, callback, needs, pointers) ==
    /\ early' = needs \ Made(n)
    /\ late' = IF "freed" \in pointers THEN {<<n, callback>>} ELSE {}

NoUse == early' = {} /\ late' = {}

----------------------------------------------------------------------------
(* synccom_port_new. *)

NextStep(n) == Steps[port[n].made + 1]

\* The framework adds a device for an adapter that has none.
CanAdd(n, a) ==
    \A m \in Ports : IF m < n THEN port[m].phase # "none" /\ ~(Exists(m) /\ port[m].adapter = a)
                              ELSE port[m].phase = "none"

\* mutant: without the lock, two calls at a time may read the same number.
DeviceAddUnlocked(n, a) ==
    /\ CanAdd(n, a)
    /\ \E number \in {IF \E m \in Ports : port[m].phase = "adding" THEN instance - 1 ELSE instance} :
          port' = [port EXCEPT ![n].phase = "adding", ![n].adapter = a, ![n].number = number]
    /\ instance' = instance + 1
    /\ UNCHANGED <<registry, ioctls>> /\ NoUse

\* The next number is taken under port_num_spinlock.
DeviceAdd(n, a) ==
    /\ CanAdd(n, a)
    /\ port' = [port EXCEPT ![n].phase = "adding", ![n].adapter = a, ![n].number = instance]
    /\ instance' = instance + 1
    /\ UNCHANGED <<registry, ioctls>> /\ NoUse

Making(n, step) == port[n].phase = "adding" /\ NextStep(n) = step /\ UNCHANGED <<instance, ioctls>>

Make(n, step) ==
    /\ Making(n, step)
    /\ port' = [port EXCEPT ![n].made = @ + 1]
    /\ UNCHANGED registry /\ NoUse

\* WdfDeviceCreate makes the context, zeroed; the stream is allocated.
CreateDevice(n) ==
    /\ Making(n, "device")
    /\ port' = [port EXCEPT ![n].made = @ + 1, ![n].istream = "frame"]
    /\ UNCHANGED registry /\ NoUse

\* The pipes; the revision of the FX2 firmware is asked for at once.
SetupUsb(n) ==
    /\ Making(n, "usb")
    /\ port' = [port EXCEPT ![n].made = @ + 1, ![n].asked = @ \cup {"fx2"}]
    /\ UNCHANGED registry /\ NoUse

SetPortNum(n) ==
    /\ Making(n, "number")
    /\ registry' = [registry EXCEPT ![port[n].adapter]["PortNumber"] = port[n].number]
    /\ port' = [port EXCEPT ![n].made = @ + 1]
    /\ NoUse

CreateQueues(n) == Make(n, "queues")
CreateLink(n) == Make(n, "link")
SetupSpinlocks(n) == Make(n, "locks")
SetupRequest(n) == Make(n, "request")
SetupDpc(n) == Make(n, "dpcs")
SetupTimer(n) == Make(n, "timer")

InitLists(n) ==
    /\ Making(n, "lists")
    /\ port' = [port EXCEPT ![n].made = @ + 1, ![n].phase = "added"]
    /\ UNCHANGED registry /\ NoUse

\* What the framework does with a device object it is done with.
Deleted(p) == [p EXCEPT !.phase = "deleted", !.made = 0, !.asked = {}, !.timer = FALSE, !.dpcs = {}]

\* Any step but the last may fail: the device object is deleted, its number lost.
PortNewFails(n) ==
    /\ port[n].phase = "adding" /\ NextStep(n) # "lists"
    /\ port' = [port EXCEPT ![n] = Deleted(@)]
    /\ UNCHANGED <<instance, registry, ioctls>> /\ NoUse

PortNew(n) == \/ CreateDevice(n) \/ SetupUsb(n) \/ SetPortNum(n) \/ CreateQueues(n)
              \/ CreateLink(n) \/ SetupSpinlocks(n) \/ SetupRequest(n) \/ SetupDpc(n)
              \/ SetupTimer(n) \/ InitLists(n) \/ PortNewFails(n)

----------------------------------------------------------------------------
(* Settings. *)

\* The assignment of an unsigned value to an int, and to a flag.
AsInt(v) == IF v < WORD \div 2 THEN v ELSE v - WORD
AsFlag(v) == IF v % BYTE # 0 THEN 1 ELSE 0

Default(s) == IF s = "MAX_WRITES" THEN 20 ELSE 0

\* What a setting becomes when it is set to v: a modifier must be a known one.
Taken(s, old, v) ==
    IF s = "MAX_WRITES" THEN AsInt(v)
    ELSE IF s = "TX_MODIFIERS" THEN (IF v \in Modifiers THEN v ELSE old)
    ELSE AsFlag(v)

\* synccom_port_setget_default_settings: what the registry lacks is stored
\* there.  When the key cannot be opened only the maximum of writes is set.
Stored(a) == [s \in DOMAIN registry[a] |->
                 IF s # "PortNumber" /\ registry[a][s] = Missing THEN Default(s) ELSE registry[a][s]]

\* mutant: a missing value is stored and not taken.
DefaultSettingsForgets(n) ==
    [s \in Settings |-> IF registry[port[n].adapter][s] = Missing THEN port[n].setting[s]
                        ELSE Taken(s, port[n].setting[s], Stored(port[n].adapter)[s])]

DefaultSettings(n) ==
    [s \in Settings |-> Taken(s, port[n].setting[s], Stored(port[n].adapter)[s])]

\* Each number of SYNCCOM_SET_MEMORY_CAP is taken unless it is negative.
\* mutant: a number that is to be left alone is taken.
CapTakenAlways(old, v) == v
CapTaken(old, v) == IF v >= 0 THEN v ELSE old

----------------------------------------------------------------------------
(* Start and stop.  The framework calls these one at a time for a device:    *)
(* PrepareHardware, D0Entry, D0Exit (and D0Entry again), ReleaseHardware; a  *)
(* device it stopped it may start again.                                     *)

Locks == {"locks", "lists", "dpcs"}

\* The caps and the settings of a start.
Configured(n, opens) ==
    [port[n] EXCEPT !.opened = opens, !.cap = [input |-> 1000000, output |-> 1000000],
                    !.setting = IF opens THEN DefaultSettings(n)
                                         ELSE [@ EXCEPT !["MAX_WRITES"] = Default("MAX_WRITES")]]

Prepared(n, opens, phase) ==
    [Configured(n, opens) EXCEPT !.phase = phase, !.starts = @ + 1, !.pending_oframe = "null",
                                 !.asked = @ \cup {"register"}, !.timer = TRUE]

\* The caps, the settings, the registers, a purge of both directions; register
\* reads are sent; the timer starts.  A reader that cannot be configured makes
\* it fail after all that.
PrepareHardware(n) ==
    /\ port[n].phase \in {"added", "released"} /\ port[n].starts < MaxStarts
    /\ Use(n, "PrepareHardware", Locks \cup {"usb", "queues", "timer"}, {port[n].istream})
    /\ \E opens \in BOOLEAN, phase \in {"prepared", "stopped"} :
        /\ registry' = IF opens THEN [registry EXCEPT ![port[n].adapter] = Stored(port[n].adapter)]
                                ELSE registry
        /\ port' = [port EXCEPT ![n] = Prepared(n, opens, phase)]
    /\ UNCHANGED <<instance, ioctls>>

\* D0Entry starts the continuous reader, or fails.
D0Entry(n) ==
    /\ port[n].phase \in {"prepared", "asleep"}
    /\ Use(n, "D0Entry", {"usb"}, {})
    /\ \E phase \in {"started", "stopped"} :
          port' = [port EXCEPT ![n].phase = phase, ![n].reader = (phase = "started")]
    /\ UNCHANGED <<instance, registry, ioctls>>

\* mutant: the reader is not stopped.
D0ExitReading(n) ==
    /\ port[n].phase = "started"
    /\ Use(n, "D0Exit", {"usb"}, {})
    /\ \E phase \in {"asleep", "stopped"} : port' = [port EXCEPT ![n].phase = phase]
    /\ UNCHANGED <<instance, registry, ioctls>>

\* D0Exit stops the reader and cancels its read: the device sleeps or goes.
D0Exit(n) ==
    /\ port[n].phase = "started"
    /\ Use(n, "D0Exit", {"usb"}, {})
    /\ \E phase \in {"asleep", "stopped"} :
          port' = [port EXCEPT ![n].phase = phase, ![n].reader = FALSE]
    /\ UNCHANGED <<instance, registry, ioctls>>

Freed(pointer) == IF pointer = "null" THEN "null" ELSE "freed"

\* ReleaseHardware deletes the frames one lock at a time, and keeps the pointers.
ReleaseStream(n) ==
    /\ port[n].phase \in {"stopped", "asleep"}
    /\ Use(n, "ReleaseHardware", Locks, {port[n].istream})
    /\ port' = [port EXCEPT ![n].phase = "releasing", ![n].istream = Freed(@)]
    /\ UNCHANGED <<instance, registry, ioctls>>

ReleaseOframe(n) ==
    /\ port[n].phase = "releasing"
    /\ Use(n, "ReleaseHardware", Locks, {port[n].pending_oframe})
    /\ port' = [port EXCEPT ![n].phase = "released", ![n].pending_oframe = Freed(@)]
    /\ UNCHANGED <<instance, registry, ioctls>>

Delete(n) ==
    /\ port[n].phase = "released"
    /\ port' = [port EXCEPT ![n] = Deleted(@)]
    /\ UNCHANGED <<instance, registry, ioctls>> /\ NoUse

StartStop(n) == \/ PrepareHardware(n) \/ D0Entry(n) \/ D0Exit(n)
                \/ ReleaseStream(n) \/ ReleaseOframe(n) \/ Delete(n)

----------------------------------------------------------------------------
(* Callbacks. *)

CallbackUnchanged == UNCHANGED <<instance, registry, ioctls>>

\* mutant: the lock is taken before the answer is looked at.
AnswerNeedsLocked(read) == Locks

\* register_completion: the answer with the revision is told by its size,
\* before a lock is taken.
AnswerNeeds(read) == IF read = "fx2" THEN {} ELSE Locks

\* It is the iframe DPC that a frame size enqueues.
RegisterCompletion(n) ==
    /\ \E read \in port[n].asked :
          /\ Use(n, "register_completion", AnswerNeeds(read), {})
          /\ port' = [port EXCEPT ![n].asked = @ \ {read},
                                  ![n].dpcs = IF read = "register" THEN @ \cup {"iframe_worker"} ELSE @]
    /\ CallbackUnchanged

\* port_received_data fills the stream, and asks for the number of frames.
PortReceivedData(n) ==
    /\ port[n].reader
    /\ Use(n, "port_received_data", Locks \cup {"usb"}, {port[n].istream})
    /\ port' = [port EXCEPT ![n].dpcs = @ \cup {"iframe_worker"}, ![n].asked = @ \cup {"register"}]
    /\ CallbackUnchanged

\* Requests come while the device is started: a read is forwarded and its DPC
\* enqueued, a write queues a frame, an ioctl looks at any of the buffers.
SyncComEvtIo(n) ==
    /\ port[n].phase = "started"
    /\ Use(n, "EvtIo", Locks \cup {"queues"}, {port[n].istream, port[n].pending_oframe})
    /\ \E worker \in {"oframe_worker", "SynccomProcessRead"} :
          port' = [port EXCEPT ![n].dpcs = @ \cup {worker}]
    /\ CallbackUnchanged

TimerHandler(n) ==
    /\ port[n].timer
    /\ Use(n, "timer_handler", {"dpcs"}, {})
    /\ port' = [port EXCEPT ![n].dpcs = @ \cup {"oframe_worker", "iframe_worker"}]
    /\ CallbackUnchanged

IframeWorker(n) ==
    /\ "iframe_worker" \in port[n].dpcs
    /\ Use(n, "iframe_worker", Locks, {port[n].istream})
    /\ port' = [port EXCEPT ![n].dpcs = (@ \ {"iframe_worker"}) \cup {"SynccomProcessRead"}]
    /\ CallbackUnchanged

\* The pending frame is sent, in part or whole, or the next one is taken.
OframeWorker(n) ==
    /\ "oframe_worker" \in port[n].dpcs
    /\ Use(n, "oframe_worker", Locks \cup {"usb"}, {port[n].pending_oframe})
    /\ \E left \in IF port[n].pending_oframe = "freed" THEN {"freed", "null"} ELSE {"null", "frame"} :
          port' = [port EXCEPT ![n].dpcs = @ \ {"oframe_worker"}, ![n].pending_oframe = left]
    /\ CallbackUnchanged

SynccomProcessRead(n) ==
    /\ "SynccomProcessRead" \in port[n].dpcs
    /\ Use(n, "SynccomProcessRead", Locks \cup {"queues"}, {port[n].istream})
    /\ port' = [port EXCEPT ![n].dpcs = @ \ {"SynccomProcessRead"}]
    /\ CallbackUnchanged

Workers == {"iframe_worker", "oframe_worker", "SynccomProcessRead"}

Callback(n) == \/ RegisterCompletion(n) \/ PortReceivedData(n) \/ SyncComEvtIo(n)
               \/ TimerHandler(n) \/ IframeWorker(n) \/ OframeWorker(n) \/ SynccomProcessRead(n)

----------------------------------------------------------------------------
(* The ioctls that change a setting. *)

Ioctl(n) ==
    /\ port[n].phase = "started" /\ ioctls < MaxIoctls
    /\ ioctls' = ioctls + 1
    /\ UNCHANGED <<instance, registry>> /\ NoUse

\* SYNCCOM_SET_MAX_WRITES, SYNCCOM_SET_TX_MODIFIERS, SYNCCOM_ENABLE_ and
\* SYNCCOM_DISABLE_ of the flags.  A maximum of zero is refused.
SetSetting(n) ==
    /\ Ioctl(n)
    /\ \E s \in Settings, v \in {x % WORD : x \in IoctlValues} :
          /\ s = "MAX_WRITES" => v >= 1
          /\ port' = [port EXCEPT ![n].setting[s] = Taken(s, @, v)]

SetMemoryCap(n) ==
    /\ Ioctl(n)
    /\ \E input, output \in IoctlValues :
          port' = [port EXCEPT ![n].cap = [input |-> CapTaken(@.input, input),
                                           output |-> CapTaken(@.output, output)]]

----------------------------------------------------------------------------
Next ==
    \E n \in Ports :
        \/ \E a \in Adapters : DeviceAdd(n, a)
        \/ PortNew(n)
        \/ n \in Followed /\ (StartStop(n) \/ Callback(n) \/ SetSetting(n) \/ SetMemoryCap(n))

Spec == Init /\ [][Next]_vars

----------------------------------------------------------------------------
(* Properties. *)

\* The callbacks that use a frame, besides the workers.
Others == {"PrepareHardware", "ReleaseHardware", "port_received_data", "EvtIo"}

Pointers == {"null", "frame", "freed"}

TypeOK ==
    /\ instance \in Nat
    /\ registry \in [Adapters -> [Settings \cup {"PortNumber"} -> Int]]
    /\ port \in [Ports ->
          [phase : {"none", "adding", "added", "prepared", "started", "asleep", "stopped",
                    "releasing", "released", "deleted"},
           adapter : Adapters, made : 0..Len(Steps), number : Nat,
           istream : Pointers, pending_oframe : Pointers, reader : BOOLEAN, timer : BOOLEAN,
           dpcs : SUBSET Workers, asked : SUBSET {"fx2", "register"}, starts : Nat,
           opened : BOOLEAN, setting : [Settings -> Int], cap : [input : Nat, output : Nat]]]
    /\ ioctls \in Nat
    /\ early \subseteq StepNames /\ late \subseteq Ports \X (Workers \cup Others)

\* Two device objects never have the same name: neither \Device\SYNCCOMn nor
\* the symbolic link, although devices are added at a time, fail half-way and
\* come back.
NamesDistinct ==
    \A m, n \in Ports : Exists(m) /\ Exists(n) /\ port[m].number = port[n].number => m = n

\* No callback ever runs into a lock, a list or a DPC that synccom_port_new has
\* not made yet, although it asks for the firmware revision before it makes them.
MadeBeforeUse == early = {}

\* In the first life of a device object nothing but the workers ever uses a
\* frame ReleaseHardware freed: not the reader, which D0Exit stopped before,
\* not a request, not the release itself.  (The timer is never stopped, so the
\* workers may.)
OnlyWorkersLate ==
    \A use \in late : use[2] \in Workers \/ port[use[1]].starts > 1

\* Each start puts the settings of the registry in force, with a default for
\* what it lacks, whatever ioctls set in an earlier life.
StartsAsStored ==
    \A n \in Ports : port[n].phase = "prepared" /\ port[n].opened =>
        \A s \in Settings :
            LET stored == registry[port[n].adapter][s]
            IN  /\ stored # Missing
                /\ s = "MAX_WRITES" /\ stored < WORD \div 2 => port[n].setting[s] = stored
                /\ s = "TX_MODIFIERS" /\ stored \in Modifiers => port[n].setting[s] = stored
                /\ s \in Flags => (port[n].setting[s] = 1 <=> stored % BYTE # 0)

\* ChangeLog.md, 1.2.4: "Enabled the drivers to 'remember' what number a port is
\* set to."
NumberRemembered ==
    [][\A a \in Adapters : registry[a]["PortNumber"] # Missing
          => registry'[a]["PortNumber"] = registry[a]["PortNumber"]]_vars

=============================================================================
