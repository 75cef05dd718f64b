------------------------ MODULE SynccomDevice_proofs ------------------------
(* Theorems about the device objects.  Everything a callback relies on is a  *)
(* fact about its own port (Sound), except the names, which depend on the    *)
(* counter of synccom_port_new (Counted).                                    *)
EXTENDS SynccomDevice, TLAPS

PortStates ==
    [phase : {"none", "adding", "added", "prepared", "started", "asleep", "stopped",
              "releasing", "released", "deleted"},
     adapter : Adapters, made : 0..Len(Steps), number : Nat,
     istream : Pointers, pending_oframe : Pointers, reader : BOOLEAN, timer : BOOLEAN,
     dpcs : SUBSET Workers, asked : SUBSET {"fx2", "register"}, starts : Nat,
     opened : BOOLEAN, setting : [Settings -> Int], cap : [input : Nat, output : Nat]]

\* A port that is built has everything, and nothing that uses more than the
\* pipes runs before; a frame is freed by the release only, which comes after
\* the reader was stopped; the settings are legal.
Built(p) ==
    /\ p.phase \notin {"none", "adding", "deleted"} => p.made = 10
    /\ p.phase = "adding" => p.made < 10
    /\ p.phase = "none" => p.made = 0 /\ p.asked = {}
    /\ p.reader \/ p.timer \/ p.dpcs # {} \/ "register" \in p.asked => p.made = 10

Alive(p) ==
    /\ p.reader => p.phase = "started"
    /\ p.phase \in {"none", "adding", "added"} => p.starts = 0
    /\ p.phase \in {"prepared", "started", "asleep", "stopped", "releasing", "released"} => p.starts > 0
    /\ p.istream = "freed" /\ p.starts <= 1 => p.phase \in {"releasing", "released", "deleted"}
    /\ p.pending_oframe = "freed" => p.phase \in {"released", "deleted"}

Legal(p) == p.setting["TX_MODIFIERS"] \in Modifiers

Sound(p) == Built(p) /\ Alive(p) /\ Legal(p)

\* The numbers handed out are below the counter, and differ.
Counted ==
    \A n \in Ports : port[n].phase # "none" =>
        /\ port[n].number < instance
        /\ \A m \in Ports : port[m].phase # "none" /\ port[m].number = port[n].number => m = n

\* The registry holds unsigned numbers.
RegistrySound ==
    /\ registry \in [Adapters -> [Settings \cup {"PortNumber"} -> Int]]
    /\ \A a \in Adapters, s \in Settings : registry[a][s] # Missing => registry[a][s] \in Nat

DeviceInv ==
    /\ instance \in Nat
    /\ RegistrySound
    /\ port \in [Ports -> PortStates] /\ ioctls \in Nat
    /\ early = {} /\ late \subseteq Ports \X (Workers \cup Others)
    /\ \A n \in Ports : Sound(port[n])
    /\ OnlyWorkersLate
    /\ Counted

USE DeviceAssumption

----------------------------------------------------------------------------

LEMMA TenSteps == Len(Steps) = 10 /\ DOMAIN Steps = 1..10
  BY DEF Steps

LEMMA AllSteps ==
    StepNames = {"device", "usb", "number", "queues", "link", "locks", "request", "dpcs", "timer", "lists"}
  <1>1. StepNames = {Steps[1], Steps[2], Steps[3], Steps[4], Steps[5], Steps[6], Steps[7], Steps[8],
                     Steps[9], Steps[10]}
    BY TenSteps DEF StepNames
  <1> QED BY <1>1 DEF Steps

LEMMA AllMade == ASSUME NEW n \in Ports, port[n].made = 10 PROVE Made(n) = StepNames
  BY TenSteps DEF Made, StepNames

LEMMA SettingsTaken ==
    ASSUME NEW s \in Settings, NEW old \in Int, NEW v \in Nat
    PROVE  /\ Taken(s, old, v) \in Int
           /\ s = "TX_MODIFIERS" /\ old \in Modifiers => Taken(s, old, v) \in Modifiers
  BY DEF Taken, AsInt, AsFlag, Modifiers, Settings

\* A step that changes one port and no number.
LEMMA OnePort ==
    ASSUME DeviceInv, NEW n \in Ports, NEW p \in PortStates,
           port' = [port EXCEPT ![n] = p], Built(p), Alive(p), Legal(p), port[n].phase # "none", p.phase # "none",
           p.number = port[n].number,
           instance' = instance, ioctls' \in Nat, RegistrySound',
           early' = {}, late' \subseteq Ports \X (Workers \cup Others),
           \A use \in late' : use[2] \in Workers \/ (use[1] = n /\ p.starts > 1)
    PROVE  DeviceInv'
  <1>1. port' \in [Ports -> PortStates] /\ \A m \in Ports : port'[m] = IF m = n THEN p ELSE port[m]
    BY DEF DeviceInv
  <1>2. \A m \in Ports : Sound(port[m])'
    <2> TAKE m \in Ports
    <2>1. CASE m = n
      BY <2>1, <1>1 DEF Sound, Built, Alive, Legal
    <2>2. CASE m # n
      BY <2>2, <1>1 DEF DeviceInv, Sound, Built, Alive, Legal
    <2> QED BY <2>1, <2>2
  <1>3. OnlyWorkersLate'
    BY <1>1 DEF OnlyWorkersLate, Workers
  <1>4. Counted'
    BY <1>1 DEF Counted, DeviceInv
  <1> QED BY <1>1, <1>2, <1>3, <1>4 DEF DeviceInv

----------------------------------------------------------------------------

LEMMA InitInv == Init => DeviceInv
  <1> SUFFICES ASSUME Init PROVE DeviceInv
    OBVIOUS
  <1>1. NoPort \in PortStates /\ Sound(NoPort) /\ NoPort.phase = "none"
    <2>1. (CHOOSE a \in Adapters : TRUE) \in Adapters
      OBVIOUS
    <2> QED BY <2>1, TenSteps DEF NoPort, PortStates, Sound, Built, Alive, Legal, Settings, Modifiers, Pointers
  <1>2. RegistrySound
    <2>1. PICK r \in RegistryChoices :
              registry = [a \in Adapters |-> [s \in Settings \cup {"PortNumber"} |->
                             IF s = "PortNumber" THEN Missing ELSE r[s]]]
      BY DEF Init
    <2>2. r \in [Settings -> 0..(WORD - 1) \cup {Missing}] /\ "PortNumber" \notin Settings
      BY <2>1 DEF Settings
    <2>3. \A s \in Settings : r[s] \in Int /\ (r[s] # Missing => r[s] \in Nat)
      BY <2>2 DEF Missing
    <2> QED BY <2>1, <2>2, <2>3 DEF Missing, RegistrySound
  <1>3. \A n \in Ports : port[n] = NoPort
    BY DEF Init
  <1> QED BY <1>1, <1>2, <1>3 DEF Init, DeviceInv, OnlyWorkersLate, Counted

\* What the invariant says of one port.
LEMMA ThisPort ==
    ASSUME DeviceInv, NEW n \in Ports
    PROVE  port[n] \in PortStates /\ Sound(port[n])
  BY DEF DeviceInv

LEMMA SameRegistry == DeviceInv /\ UNCHANGED registry => RegistrySound'
  BY DEF DeviceInv, RegistrySound

LEMMA NewPort ==
    ASSUME DeviceInv, NEW n \in Ports, NEW a \in Adapters, DeviceAdd(n, a)
    PROVE  DeviceInv'
  <1> DEFINE p == [port[n] EXCEPT !.phase = "adding", !.adapter = a, !.number = instance]
  <1>1. port[n].phase = "none" /\ port[n] \in PortStates /\ Sound(port[n])
    <2>1. port[n].phase = "none"
      BY DEF DeviceAdd, CanAdd, Ports
    <2> QED BY <2>1, ThisPort
  <1>2. p \in PortStates /\ p.number = instance /\ p.phase = "adding"
    BY <1>1 DEF PortStates, DeviceInv
  <1>3. Sound(p)
    <2>1. Built(p)
      BY <1>1, TenSteps DEF PortStates, Sound, Built
    <2>2. Alive(p)
      BY <1>1, TenSteps DEF PortStates, Sound, Alive
    <2>3. Legal(p)
      BY <1>1, TenSteps DEF PortStates, Sound, Legal
    <2> QED BY <2>1, <2>2, <2>3 DEF Sound
  <1>4. port' = [port EXCEPT ![n] = p]
    BY Zenon DEF DeviceAdd
  <1>5. /\ instance' = instance + 1 /\ UNCHANGED <<registry, ioctls>>
        /\ early' = {} /\ late' = {}
    BY DEF DeviceAdd, NoUse
  <1> HIDE DEF p
  <1>6. /\ port' \in [Ports -> PortStates] /\ port'[n] = p
        /\ \A m \in Ports : m # n => port'[m] = port[m]
    BY <1>2, <1>4 DEF DeviceInv
  <1>7. \A m \in Ports : Sound(port[m])'
    <2> TAKE m \in Ports
    <2>1. Sound(port'[m])
      BY <1>3, <1>6, ThisPort
    <2> QED BY <2>1 DEF Sound, Built, Alive, Legal
  <1>8. Counted'
    <2>1. instance \in Nat /\ \A m \in Ports : port[m].number \in Nat
      BY DEF DeviceInv, PortStates
    <2>2. Counted
      BY DEF DeviceInv
    <2> SUFFICES ASSUME NEW k \in Ports, port'[k].phase # "none"
                 PROVE  /\ port'[k].number < instance'
                        /\ \A m \in Ports : port'[m].phase # "none" /\ port'[m].number = port'[k].number => m = k
      BY DEF Counted
    <2>3. CASE k = n
      BY <2>1, <2>2, <2>3, <1>2, <1>5, <1>6 DEF Counted
    <2>4. CASE k # n
      <3>1. port'[k] = port[k] /\ port[k].number < instance
        BY <2>2, <2>4, <1>6 DEF Counted
      <3> QED BY <2>1, <2>2, <2>4, <3>1, <1>2, <1>5, <1>6 DEF Counted
    <2> QED BY <2>3, <2>4
  <1>9. OnlyWorkersLate'
    BY <1>5 DEF OnlyWorkersLate
  <1>10. instance' \in Nat /\ ioctls' \in Nat /\ RegistrySound'
    BY <1>5, SameRegistry DEF DeviceInv
  <1> QED BY <1>5, <1>6, <1>7, <1>8, <1>9, <1>10 DEF DeviceInv

\* A step of synccom_port_new that makes one more thing.
LEMMA OneMore ==
    ASSUME DeviceInv, NEW n \in Ports, port[n].phase = "adding", NextStep(n) # "lists"
    PROVE  port[n].made + 1 \in 0..Len(Steps) /\ port[n].made + 1 < 10
  <1>1. port[n].made \in 0..9
    BY ThisPort, TenSteps DEF PortStates, Sound, Built
  <1>2. port[n].made # 9
    BY DEF NextStep, Steps
  <1> QED BY <1>1, <1>2, TenSteps

LEMMA MakeStep ==
    ASSUME DeviceInv, NEW n \in Ports, NEW step, Make(n, step), step # "lists"
    PROVE  DeviceInv'
  <1> DEFINE p == [port[n] EXCEPT !.made = port[n].made + 1]
  <1>1. port[n].phase = "adding" /\ NextStep(n) = step
    BY DEF Make, Making
  <1>2. port[n] \in PortStates /\ Sound(port[n]) /\ port[n].made + 1 \in 0..Len(Steps) /\ port[n].made + 1 < 10
    BY <1>1, ThisPort, OneMore
  <1>3. p \in PortStates /\ p.number = port[n].number /\ p.phase = "adding"
    BY <1>1, <1>2 DEF PortStates
  <1>4. Built(p)
    BY <1>1, <1>2, SMTT(30) DEF PortStates, Sound, Built
  <1>5. Alive(p)
    BY <1>1, <1>2 DEF PortStates, Sound, Alive
  <1>6. Legal(p)
    BY <1>1, <1>2 DEF PortStates, Sound, Legal
  <1>7. port' = [port EXCEPT ![n] = p]
    BY Zenon DEF Make
  <1>8. UNCHANGED <<instance, registry, ioctls>> /\ early' = {} /\ late' = {}
    BY DEF Make, Making, NoUse
  <1> HIDE DEF p
  <1> QED BY <1>1, <1>3, <1>4, <1>5, <1>6, <1>7, <1>8, OnePort, SameRegistry DEF DeviceInv

\* The steps of synccom_port_new that do more.

LEMMA CreateDeviceStep ==
    ASSUME DeviceInv, NEW n \in Ports, CreateDevice(n)
    PROVE  DeviceInv'
  <1> DEFINE p == [port[n] EXCEPT !.made = port[n].made + 1, !.istream = "frame"]
  <1>1. port[n].phase = "adding" /\ NextStep(n) = "device"
    BY DEF CreateDevice, Making
  <1>2. port[n] \in PortStates /\ Sound(port[n])
    BY ThisPort
  <1>0. port[n].made + 1 \in 0..Len(Steps) /\ port[n].made + 1 < 10
    BY <1>1, OneMore
  <1>3. p \in PortStates /\ p.number = port[n].number
    BY <1>0, <1>1, <1>2 DEF PortStates, Pointers
  <1>4. port[n].phase # "none" /\ p.phase # "none"
    BY <1>0, <1>1, <1>2 DEF PortStates, Sound, Built, Alive, Pointers
  <1>5. Built(p)
    BY <1>0, <1>1, <1>2 DEF PortStates, Sound, Built, Alive, Pointers
  <1>6. Alive(p)
    BY <1>0, <1>1, <1>2 DEF PortStates, Sound, Built, Alive, Pointers
  <1>7. Legal(p)
    BY <1>0, <1>1, <1>2 DEF PortStates, Sound, Legal, Pointers
  <1>8. port' = [port EXCEPT ![n] = p]
    BY Zenon DEF CreateDevice
  <1>9. UNCHANGED <<instance, registry, ioctls>> /\ early' = {} /\ late' = {}
    BY DEF CreateDevice, Making, NoUse
  <1> HIDE DEF p
  <1> QED BY <1>1, <1>3, <1>4, <1>5, <1>6, <1>7, <1>8, <1>9, OnePort, SameRegistry DEF DeviceInv

LEMMA SetupUsbStep ==
    ASSUME DeviceInv, NEW n \in Ports, SetupUsb(n)
    PROVE  DeviceInv'
  <1> DEFINE p == [port[n] EXCEPT !.made = port[n].made + 1, !.asked = port[n].asked \cup {"fx2"}]
  <1>1. port[n].phase = "adding" /\ NextStep(n) = "usb"
    BY DEF SetupUsb, Making
  <1>2. port[n] \in PortStates /\ Sound(port[n])
    BY ThisPort
  <1>0. port[n].made + 1 \in 0..Len(Steps) /\ port[n].made + 1 < 10
    BY <1>1, OneMore
  <1>3. p \in PortStates /\ p.number = port[n].number
    BY <1>0, <1>1, <1>2 DEF PortStates, Pointers
  <1>4. port[n].phase # "none" /\ p.phase # "none"
    BY <1>0, <1>1, <1>2 DEF PortStates, Sound, Built, Alive, Pointers
  <1>5. Built(p)
    BY <1>0, <1>1, <1>2 DEF PortStates, Sound, Built, Alive, Pointers
  <1>6. Alive(p)
    BY <1>0, <1>1, <1>2 DEF PortStates, Sound, Built, Alive, Pointers
  <1>7. Legal(p)
    BY <1>0, <1>1, <1>2 DEF PortStates, Sound, Legal, Pointers
  <1>8. port' = [port EXCEPT ![n] = p]
    BY Zenon DEF SetupUsb
  <1>9. UNCHANGED <<instance, registry, ioctls>> /\ early' = {} /\ late' = {}
    BY DEF SetupUsb, Making, NoUse
  <1> HIDE DEF p
  <1> QED BY <1>1, <1>3, <1>4, <1>5, <1>6, <1>7, <1>8, <1>9, OnePort, SameRegistry DEF DeviceInv

LEMMA SetPortNumStep ==
    ASSUME DeviceInv, NEW n \in Ports, SetPortNum(n)
    PROVE  DeviceInv'
  <1> DEFINE p == [port[n] EXCEPT !.made = port[n].made + 1]
  <1>1. port[n].phase = "adding" /\ NextStep(n) = "number"
    BY DEF SetPortNum, Making
  <1>2. port[n] \in PortStates /\ Sound(port[n])
    BY ThisPort
  <1>0. port[n].made + 1 \in 0..Len(Steps) /\ port[n].made + 1 < 10
    BY <1>1, OneMore
  <1>3. p \in PortStates /\ p.number = port[n].number
    BY <1>0, <1>1, <1>2 DEF PortStates, Pointers
  <1>4. port[n].phase # "none" /\ p.phase # "none"
    BY <1>0, <1>1, <1>2 DEF PortStates, Sound, Built, Alive, Pointers
  <1>5. Built(p)
    BY <1>0, <1>1, <1>2 DEF PortStates, Sound, Built, Alive, Pointers
  <1>6. Alive(p)
    BY <1>0, <1>1, <1>2 DEF PortStates, Sound, Built, Alive, Pointers
  <1>7. Legal(p)
    BY <1>0, <1>1, <1>2 DEF PortStates, Sound, Legal, Pointers
  <1>8. port' = [port EXCEPT ![n] = p]
    BY Zenon DEF SetPortNum
  <1>9. UNCHANGED <<instance, ioctls>> /\ early' = {} /\ late' = {} /\ RegistrySound'
    <2>1. UNCHANGED <<instance, ioctls>> /\ early' = {} /\ late' = {}
      BY DEF SetPortNum, Making, NoUse
    <2>2. registry' = [registry EXCEPT ![port[n].adapter]["PortNumber"] = port[n].number]
      BY DEF SetPortNum
    <2>3. "PortNumber" \notin Settings /\ port[n].number \in Int /\ port[n].adapter \in Adapters
      BY <1>2 DEF Settings, PortStates
    <2>4. registry \in [Adapters -> [Settings \cup {"PortNumber"} -> Int]]
      BY DEF DeviceInv, RegistrySound
    <2>5. registry' \in [Adapters -> [Settings \cup {"PortNumber"} -> Int]]
      BY <2>2, <2>3, <2>4
    <2>6. \A a \in Adapters, s \in Settings : registry'[a][s] = registry[a][s]
      BY <2>2, <2>3, <2>4
    <2>7. RegistrySound'
      BY <2>5, <2>6 DEF DeviceInv, RegistrySound
    <2> QED BY <2>1, <2>7
  <1> HIDE DEF p
  <1> QED BY <1>1, <1>3, <1>4, <1>5, <1>6, <1>7, <1>8, <1>9, OnePort, SameRegistry DEF DeviceInv

LEMMA InitListsStep ==
    ASSUME DeviceInv, NEW n \in Ports, InitLists(n)
    PROVE  DeviceInv'
  <1> DEFINE p == [port[n] EXCEPT !.made = port[n].made + 1, !.phase = "added"]
  <1>1. port[n].phase = "adding" /\ NextStep(n) = "lists"
    BY DEF InitLists, Making
  <1>2. port[n] \in PortStates /\ Sound(port[n])
    BY ThisPort
  <1>0. port[n].made + 1 = 10 /\ port[n].made + 1 \in 0..Len(Steps)
    <2>1. port[n].made \in 0..9
      BY <1>1, <1>2, TenSteps DEF PortStates, Sound, Built
    <2>2. port[n].made = 9
      BY <1>1, <2>1 DEF NextStep, Steps
    <2> QED BY <2>2, TenSteps
  <1>3. p \in PortStates /\ p.number = port[n].number
    BY <1>0, <1>1, <1>2 DEF PortStates
  <1>4. port[n].phase # "none" /\ p.phase # "none"
    BY <1>0, <1>1, <1>2 DEF PortStates, Sound, Built, Alive
  <1>5. Built(p)
    BY <1>0, <1>1, <1>2 DEF PortStates, Sound, Built, Alive
  <1>6. Alive(p)
    BY <1>0, <1>1, <1>2 DEF PortStates, Sound, Built, Alive
  <1>7. Legal(p)
    BY <1>0, <1>1, <1>2 DEF PortStates, Sound, Legal
  <1>8. port' = [port EXCEPT ![n] = p]
    BY Zenon DEF InitLists
  <1>9. UNCHANGED <<instance, registry, ioctls>> /\ early' = {} /\ late' = {}
    BY DEF InitLists, Making, NoUse
  <1> HIDE DEF p
  <1> QED BY <1>1, <1>3, <1>4, <1>5, <1>6, <1>7, <1>8, <1>9, OnePort, SameRegistry DEF DeviceInv

LEMMA PortNewFailsStep ==
    ASSUME DeviceInv, NEW n \in Ports, PortNewFails(n)
    PROVE  DeviceInv'
  <1> DEFINE p == Deleted(port[n])
  <1>1. port[n].phase = "adding"
    BY DEF PortNewFails
  <1>2. port[n] \in PortStates /\ Sound(port[n])
    BY ThisPort
  <1>0. 0 \in 0..Len(Steps)
    BY TenSteps
  <1>3. p \in PortStates /\ p.number = port[n].number
    BY <1>0, <1>1, <1>2 DEF PortStates, Deleted
  <1>4. port[n].phase # "none" /\ p.phase # "none"
    BY <1>0, <1>1, <1>2 DEF PortStates, Sound, Built, Alive, Deleted
  <1>5. Built(p)
    BY <1>0, <1>1, <1>2 DEF PortStates, Sound, Built, Alive, Deleted
  <1>6. Alive(p)
    BY <1>0, <1>1, <1>2 DEF PortStates, Sound, Built, Alive, Deleted
  <1>7. Legal(p)
    BY <1>0, <1>1, <1>2 DEF PortStates, Sound, Legal, Deleted
  <1>8. port' = [port EXCEPT ![n] = p]
    BY Zenon DEF PortNewFails
  <1>9. UNCHANGED <<instance, registry, ioctls>> /\ early' = {} /\ late' = {}
    BY DEF PortNewFails, NoUse
  <1> HIDE DEF p
  <1> QED BY <1>1, <1>3, <1>4, <1>5, <1>6, <1>7, <1>8, <1>9, OnePort, SameRegistry DEF DeviceInv

----------------------------------------------------------------------------
(* Stop. *)

LEMMA ReleaseStreamStep ==
    ASSUME DeviceInv, NEW n \in Ports, ReleaseStream(n)
    PROVE  DeviceInv'
  <1> DEFINE p == [port[n] EXCEPT !.phase = "releasing", !.istream = Freed(port[n].istream)]
  <1>1. port[n].phase \in {"stopped", "asleep"}
    BY DEF ReleaseStream
  <1>2. port[n] \in PortStates /\ Sound(port[n])
    BY ThisPort
  <1>3. p \in PortStates /\ p.number = port[n].number
    BY <1>1, <1>2 DEF PortStates, Freed, Pointers
  <1>4. port[n].phase # "none" /\ p.phase # "none"
    BY <1>1, <1>2 DEF PortStates, Sound, Built, Alive, Freed, Pointers
  <1>5. Built(p)
    BY <1>1, <1>2 DEF PortStates, Sound, Built, Alive, Freed, Pointers
  <1>6. Alive(p)
    BY <1>1, <1>2 DEF PortStates, Sound, Built, Alive, Freed, Pointers
  <1>7. Legal(p)
    BY <1>1, <1>2 DEF PortStates, Sound, Legal, Freed, Pointers
  <1>8. port' = [port EXCEPT ![n] = p]
    BY Zenon DEF ReleaseStream
  <1>9. /\ UNCHANGED <<instance, registry, ioctls>> /\ early' = {} /\ late' \subseteq Ports \X (Workers \cup Others)
        /\ \A use \in late' : use[1] = n /\ p.starts > 1
    <2>1. Use(n, "ReleaseHardware", Locks, {port[n].istream}) /\ UNCHANGED <<instance, registry, ioctls>>
      BY DEF ReleaseStream, CallbackUnchanged
    <2>2. port[n].made = 10
      BY <1>1, <1>2 DEF PortStates, Sound, Built, Alive
    <2>3. Locks \subseteq StepNames
      BY AllSteps DEF Locks
    <2>4. early' = {} /\ late' = IF "freed" \in {port[n].istream} THEN {<<n, "ReleaseHardware">>} ELSE {}
      BY <2>1, <2>2, <2>3, AllMade DEF Use
    <2>5. "freed" \in {port[n].istream} => p.starts > 1
      BY <1>1, <1>2 DEF PortStates, Sound, Alive
    <2> HIDE DEF p
    <2> QED BY <2>1, <2>4, <2>5 DEF Others
  <1> HIDE DEF p
  <1> QED BY <1>1, <1>3, <1>4, <1>5, <1>6, <1>7, <1>8, <1>9, OnePort, SameRegistry DEF DeviceInv

LEMMA ReleaseOframeStep ==
    ASSUME DeviceInv, NEW n \in Ports, ReleaseOframe(n)
    PROVE  DeviceInv'
  <1> DEFINE p == [port[n] EXCEPT !.phase = "released", !.pending_oframe = Freed(port[n].pending_oframe)]
  <1>1. port[n].phase = "releasing"
    BY DEF ReleaseOframe
  <1>2. port[n] \in PortStates /\ Sound(port[n])
    BY ThisPort
  <1>3. p \in PortStates /\ p.number = port[n].number
    BY <1>1, <1>2 DEF PortStates, Freed, Pointers
  <1>4. port[n].phase # "none" /\ p.phase # "none"
    BY <1>1, <1>2 DEF PortStates, Sound, Built, Alive, Freed, Pointers
  <1>5. Built(p)
    BY <1>1, <1>2 DEF PortStates, Sound, Built, Alive, Freed, Pointers
  <1>6. Alive(p)
    BY <1>1, <1>2 DEF PortStates, Sound, Built, Alive, Freed, Pointers
  <1>7. Legal(p)
    BY <1>1, <1>2 DEF PortStates, Sound, Legal, Freed, Pointers
  <1>8. port' = [port EXCEPT ![n] = p]
    BY Zenon DEF ReleaseOframe
  <1>9. /\ UNCHANGED <<instance, registry, ioctls>> /\ early' = {} /\ late' \subseteq Ports \X (Workers \cup Others)
        /\ \A use \in late' : use[1] = n /\ p.starts > 1
    <2>1. Use(n, "ReleaseHardware", Locks, {port[n].pending_oframe}) /\ UNCHANGED <<instance, registry, ioctls>>
      BY DEF ReleaseOframe, CallbackUnchanged
    <2>2. port[n].made = 10
      BY <1>1, <1>2 DEF PortStates, Sound, Built, Alive
    <2>3. Locks \subseteq StepNames
      BY AllSteps DEF Locks
    <2>4. early' = {} /\ late' = IF "freed" \in {port[n].pending_oframe} THEN {<<n, "ReleaseHardware">>} ELSE {}
      BY <2>1, <2>2, <2>3, AllMade DEF Use
    <2>5. "freed" \in {port[n].pending_oframe} => p.starts > 1
      BY <1>1, <1>2 DEF PortStates, Sound, Alive
    <2> HIDE DEF p
    <2> QED BY <2>1, <2>4, <2>5 DEF Others
  <1> HIDE DEF p
  <1> QED BY <1>1, <1>3, <1>4, <1>5, <1>6, <1>7, <1>8, <1>9, OnePort, SameRegistry DEF DeviceInv

LEMMA DeleteStep ==
    ASSUME DeviceInv, NEW n \in Ports, Delete(n)
    PROVE  DeviceInv'
  <1> DEFINE p == Deleted(port[n])
  <1>1. port[n].phase = "released"
    BY DEF Delete
  <1>2. port[n] \in PortStates /\ Sound(port[n])
    BY ThisPort
  <1>0. 0 \in 0..Len(Steps)
    BY TenSteps
  <1>3. p \in PortStates /\ p.number = port[n].number
    BY <1>0, <1>1, <1>2 DEF PortStates, Deleted
  <1>4. port[n].phase # "none" /\ p.phase # "none"
    BY <1>0, <1>1, <1>2 DEF PortStates, Sound, Built, Alive, Deleted
  <1>5. Built(p)
    BY <1>0, <1>1, <1>2 DEF PortStates, Sound, Built, Alive, Deleted
  <1>6. Alive(p)
    BY <1>0, <1>1, <1>2 DEF PortStates, Sound, Built, Alive, Deleted
  <1>7. Legal(p)
    BY <1>0, <1>1, <1>2 DEF PortStates, Sound, Legal, Deleted
  <1>8. port' = [port EXCEPT ![n] = p]
    BY Zenon DEF Delete
  <1>9. UNCHANGED <<instance, registry, ioctls>> /\ early' = {} /\ late' = {}
    BY DEF Delete, NoUse
  <1> HIDE DEF p
  <1> QED BY <1>1, <1>3, <1>4, <1>5, <1>6, <1>7, <1>8, <1>9, OnePort, SameRegistry DEF DeviceInv

----------------------------------------------------------------------------
(* Callbacks. *)

LEMMA PortReceivedDataStep ==
    ASSUME DeviceInv, NEW n \in Ports, PortReceivedData(n)
    PROVE  DeviceInv'
  <1> DEFINE p == [port[n] EXCEPT !.dpcs = port[n].dpcs \cup {"iframe_worker"}, !.asked = port[n].asked \cup {"register"}]
  <1>1. port[n].reader
    BY DEF PortReceivedData
  <1>2. port[n] \in PortStates /\ Sound(port[n])
    BY ThisPort
  <1>3. p \in PortStates /\ p.number = port[n].number
    BY <1>1, <1>2 DEF PortStates, Workers
  <1>4. port[n].phase # "none" /\ p.phase # "none"
    BY <1>1, <1>2 DEF PortStates, Sound, Built, Alive, Workers
  <1>5. Built(p)
    BY <1>1, <1>2 DEF PortStates, Sound, Built, Alive, Workers
  <1>6. Alive(p)
    BY <1>1, <1>2 DEF PortStates, Sound, Built, Alive, Workers
  <1>7. Legal(p)
    BY <1>1, <1>2 DEF PortStates, Sound, Legal, Workers
  <1>8. port' = [port EXCEPT ![n] = p]
    BY Zenon DEF PortReceivedData
  <1>9. /\ UNCHANGED <<instance, registry, ioctls>> /\ early' = {} /\ late' \subseteq Ports \X (Workers \cup Others)
        /\ \A use \in late' : use[1] = n /\ p.starts > 1
    <2>1. Use(n, "port_received_data", Locks \cup {"usb"}, {port[n].istream}) /\ UNCHANGED <<instance, registry, ioctls>>
      BY DEF PortReceivedData, CallbackUnchanged
    <2>2. port[n].made = 10
      BY <1>1, <1>2 DEF PortStates, Sound, Built, Alive
    <2>3. Locks \cup {"usb"} \subseteq StepNames
      BY AllSteps DEF Locks
    <2>4. early' = {} /\ late' = IF "freed" \in {port[n].istream} THEN {<<n, "port_received_data">>} ELSE {}
      BY <2>1, <2>2, <2>3, AllMade DEF Use
    <2>5. "freed" \in {port[n].istream} => p.starts > 1
      BY <1>1, <1>2 DEF PortStates, Sound, Alive
    <2> HIDE DEF p
    <2> QED BY <2>1, <2>4, <2>5 DEF Others
  <1> HIDE DEF p
  <1> QED BY <1>1, <1>3, <1>4, <1>5, <1>6, <1>7, <1>8, <1>9, OnePort, SameRegistry DEF DeviceInv

LEMMA TimerHandlerStep ==
    ASSUME DeviceInv, NEW n \in Ports, TimerHandler(n)
    PROVE  DeviceInv'
  <1> DEFINE p == [port[n] EXCEPT !.dpcs = port[n].dpcs \cup {"oframe_worker", "iframe_worker"}]
  <1>1. port[n].timer
    BY DEF TimerHandler
  <1>2. port[n] \in PortStates /\ Sound(port[n])
    BY ThisPort
  <1>3. p \in PortStates /\ p.number = port[n].number
    BY <1>1, <1>2 DEF PortStates, Workers
  <1>4. port[n].phase # "none" /\ p.phase # "none"
    BY <1>1, <1>2 DEF PortStates, Sound, Built, Alive, Workers
  <1>5. Built(p)
    BY <1>1, <1>2 DEF PortStates, Sound, Built, Alive, Workers
  <1>6. Alive(p)
    BY <1>1, <1>2 DEF PortStates, Sound, Built, Alive, Workers
  <1>7. Legal(p)
    BY <1>1, <1>2 DEF PortStates, Sound, Legal, Workers
  <1>8. port' = [port EXCEPT ![n] = p]
    BY Zenon DEF TimerHandler
  <1>9. /\ UNCHANGED <<instance, registry, ioctls>> /\ early' = {} /\ late' \subseteq Ports \X (Workers \cup Others)
        /\ late' = {}
    <2>1. Use(n, "timer_handler", {"dpcs"}, {}) /\ UNCHANGED <<instance, registry, ioctls>>
      BY DEF TimerHandler, CallbackUnchanged
    <2>2. port[n].made = 10
      BY <1>1, <1>2 DEF PortStates, Sound, Built, Alive
    <2>3. {"dpcs"} \subseteq StepNames
      BY AllSteps DEF Locks
    <2>4. early' = {} /\ late' = IF "freed" \in {} THEN {<<n, "timer_handler">>} ELSE {}
      BY <2>1, <2>2, <2>3, AllMade DEF Use
    <2> QED BY <2>1, <2>4
  <1> HIDE DEF p
  <1> QED BY <1>1, <1>3, <1>4, <1>5, <1>6, <1>7, <1>8, <1>9, OnePort, SameRegistry DEF DeviceInv

LEMMA IframeWorkerStep ==
    ASSUME DeviceInv, NEW n \in Ports, IframeWorker(n)
    PROVE  DeviceInv'
  <1> DEFINE p == [port[n] EXCEPT !.dpcs = (port[n].dpcs \ {"iframe_worker"}) \cup {"SynccomProcessRead"}]
  <1>1. "iframe_worker" \in port[n].dpcs
    BY DEF IframeWorker
  <1>2. port[n] \in PortStates /\ Sound(port[n])
    BY ThisPort
  <1>3. p \in PortStates /\ p.number = port[n].number
    BY <1>1, <1>2 DEF PortStates, Workers
  <1>4. port[n].phase # "none" /\ p.phase # "none"
    BY <1>1, <1>2 DEF PortStates, Sound, Built, Alive, Workers
  <1>5. Built(p)
    BY <1>1, <1>2 DEF PortStates, Sound, Built, Alive, Workers
  <1>6. Alive(p)
    BY <1>1, <1>2 DEF PortStates, Sound, Built, Alive, Workers
  <1>7. Legal(p)
    BY <1>1, <1>2 DEF PortStates, Sound, Legal, Workers
  <1>8. port' = [port EXCEPT ![n] = p]
    BY Zenon DEF IframeWorker
  <1>9. /\ UNCHANGED <<instance, registry, ioctls>> /\ early' = {} /\ late' \subseteq Ports \X (Workers \cup Others)
        /\ \A use \in late' : use[2] \in Workers
    <2>1. Use(n, "iframe_worker", Locks, {port[n].istream}) /\ UNCHANGED <<instance, registry, ioctls>>
      BY DEF IframeWorker, CallbackUnchanged
    <2>2. port[n].made = 10
      BY <1>1, <1>2 DEF PortStates, Sound, Built, Alive
    <2>3. Locks \subseteq StepNames
      BY AllSteps DEF Locks
    <2>4. early' = {} /\ late' = IF "freed" \in {port[n].istream} THEN {<<n, "iframe_worker">>} ELSE {}
      BY <2>1, <2>2, <2>3, AllMade DEF Use
    <2> QED BY <2>1, <2>4 DEF Workers, Others
  <1> HIDE DEF p
  <1> QED BY <1>1, <1>3, <1>4, <1>5, <1>6, <1>7, <1>8, <1>9, OnePort, SameRegistry DEF DeviceInv

LEMMA ProcessReadStep ==
    ASSUME DeviceInv, NEW n \in Ports, SynccomProcessRead(n)
    PROVE  DeviceInv'
  <1> DEFINE p == [port[n] EXCEPT !.dpcs = port[n].dpcs \ {"SynccomProcessRead"}]
  <1>1. "SynccomProcessRead" \in port[n].dpcs
    BY DEF SynccomProcessRead
  <1>2. port[n] \in PortStates /\ Sound(port[n])
    BY ThisPort
  <1>3. p \in PortStates /\ p.number = port[n].number
    BY <1>1, <1>2 DEF PortStates, Workers
  <1>4. port[n].phase # "none" /\ p.phase # "none"
    BY <1>1, <1>2 DEF PortStates, Sound, Built, Alive, Workers
  <1>5. Built(p)
    BY <1>1, <1>2 DEF PortStates, Sound, Built, Alive, Workers
  <1>6. Alive(p)
    BY <1>1, <1>2 DEF PortStates, Sound, Built, Alive, Workers
  <1>7. Legal(p)
    BY <1>1, <1>2 DEF PortStates, Sound, Legal, Workers
  <1>8. port' = [port EXCEPT ![n] = p]
    BY Zenon DEF SynccomProcessRead
  <1>9. /\ UNCHANGED <<instance, registry, ioctls>> /\ early' = {} /\ late' \subseteq Ports \X (Workers \cup Others)
        /\ \A use \in late' : use[2] \in Workers
    <2>1. Use(n, "SynccomProcessRead", Locks \cup {"queues"}, {port[n].istream}) /\ UNCHANGED <<instance, registry, ioctls>>
      BY DEF SynccomProcessRead, CallbackUnchanged
    <2>2. port[n].made = 10
      BY <1>1, <1>2 DEF PortStates, Sound, Built, Alive
    <2>3. Locks \cup {"queues"} \subseteq StepNames
      BY AllSteps DEF Locks
    <2>4. early' = {} /\ late' = IF "freed" \in {port[n].istream} THEN {<<n, "SynccomProcessRead">>} ELSE {}
      BY <2>1, <2>2, <2>3, AllMade DEF Use
    <2> QED BY <2>1, <2>4 DEF Workers, Others
  <1> HIDE DEF p
  <1> QED BY <1>1, <1>3, <1>4, <1>5, <1>6, <1>7, <1>8, <1>9, OnePort, SameRegistry DEF DeviceInv

LEMMA OframeWorkerStep ==
    ASSUME DeviceInv, NEW n \in Ports, OframeWorker(n)
    PROVE  DeviceInv'
  <1>a. PICK left \in IF port[n].pending_oframe = "freed" THEN {"freed", "null"} ELSE {"null", "frame"} : port' = [port EXCEPT ![n].dpcs = port[n].dpcs \ {"oframe_worker"}, ![n].pending_oframe = left]
    BY DEF OframeWorker
  <1> DEFINE p == [port[n] EXCEPT !.dpcs = port[n].dpcs \ {"oframe_worker"}, !.pending_oframe = left]
  <1>1. "oframe_worker" \in port[n].dpcs
    BY DEF OframeWorker
  <1>2. port[n] \in PortStates /\ Sound(port[n])
    BY ThisPort
  <1>3. p \in PortStates /\ p.number = port[n].number
    BY <1>1, <1>2, <1>a DEF PortStates, Workers, Pointers
  <1>4. port[n].phase # "none" /\ p.phase # "none"
    BY <1>1, <1>2, <1>a DEF PortStates, Sound, Built, Alive, Workers, Pointers
  <1>5. Built(p)
    BY <1>1, <1>2, <1>a DEF PortStates, Sound, Built, Alive, Workers, Pointers
  <1>6. Alive(p)
    BY <1>1, <1>2, <1>a DEF PortStates, Sound, Built, Alive, Workers, Pointers
  <1>7. Legal(p)
    BY <1>1, <1>2, <1>a DEF PortStates, Sound, Legal, Workers, Pointers
  <1>8. port' = [port EXCEPT ![n] = p]
    BY <1>a, Zenon DEF OframeWorker
  <1>9. /\ UNCHANGED <<instance, registry, ioctls>> /\ early' = {} /\ late' \subseteq Ports \X (Workers \cup Others)
        /\ \A use \in late' : use[2] \in Workers
    <2>1. Use(n, "oframe_worker", Locks \cup {"usb"}, {port[n].pending_oframe}) /\ UNCHANGED <<instance, registry, ioctls>>
      BY DEF OframeWorker, CallbackUnchanged
    <2>2. port[n].made = 10
      BY <1>1, <1>2 DEF PortStates, Sound, Built, Alive
    <2>3. Locks \cup {"usb"} \subseteq StepNames
      BY AllSteps DEF Locks
    <2>4. early' = {} /\ late' = IF "freed" \in {port[n].pending_oframe} THEN {<<n, "oframe_worker">>} ELSE {}
      BY <2>1, <2>2, <2>3, AllMade DEF Use
    <2> QED BY <2>1, <2>4 DEF Workers, Others
  <1> HIDE DEF p
  <1> QED BY <1>1, <1>3, <1>4, <1>5, <1>6, <1>7, <1>8, <1>9, OnePort, SameRegistry DEF DeviceInv

LEMMA SyncComEvtIoStep ==
    ASSUME DeviceInv, NEW n \in Ports, SyncComEvtIo(n)
    PROVE  DeviceInv'
  <1>a. PICK worker \in {"oframe_worker", "SynccomProcessRead"} : port' = [port EXCEPT ![n].dpcs = port[n].dpcs \cup {worker}]
    BY DEF SyncComEvtIo
  <1> DEFINE p == [port[n] EXCEPT !.dpcs = port[n].dpcs \cup {worker}]
  <1>1. port[n].phase = "started"
    BY DEF SyncComEvtIo
  <1>2. port[n] \in PortStates /\ Sound(port[n])
    BY ThisPort
  <1>3. p \in PortStates /\ p.number = port[n].number
    BY <1>1, <1>2, <1>a DEF PortStates, Workers
  <1>4. port[n].phase # "none" /\ p.phase # "none"
    BY <1>1, <1>2, <1>a DEF PortStates, Sound, Built, Alive, Workers
  <1>5. Built(p)
    BY <1>1, <1>2, <1>a DEF PortStates, Sound, Built, Alive, Workers
  <1>6. Alive(p)
    BY <1>1, <1>2, <1>a DEF PortStates, Sound, Built, Alive, Workers
  <1>7. Legal(p)
    BY <1>1, <1>2, <1>a DEF PortStates, Sound, Legal, Workers
  <1>8. port' = [port EXCEPT ![n] = p]
    BY <1>a, Zenon DEF SyncComEvtIo
  <1>9. /\ UNCHANGED <<instance, registry, ioctls>> /\ early' = {} /\ late' \subseteq Ports \X (Workers \cup Others)
        /\ \A use \in late' : use[1] = n /\ p.starts > 1
    <2>1. Use(n, "EvtIo", Locks \cup {"queues"}, {port[n].istream, port[n].pending_oframe}) /\ UNCHANGED <<instance, registry, ioctls>>
      BY DEF SyncComEvtIo, CallbackUnchanged
    <2>2. port[n].made = 10
      BY <1>1, <1>2 DEF PortStates, Sound, Built, Alive
    <2>3. Locks \cup {"queues"} \subseteq StepNames
      BY AllSteps DEF Locks
    <2>4. early' = {} /\ late' = IF "freed" \in {port[n].istream, port[n].pending_oframe} THEN {<<n, "EvtIo">>} ELSE {}
      BY <2>1, <2>2, <2>3, AllMade DEF Use
    <2>5. "freed" \in {port[n].istream, port[n].pending_oframe} => p.starts > 1
      BY <1>1, <1>2 DEF PortStates, Sound, Alive
    <2> HIDE DEF p
    <2> QED BY <2>1, <2>4, <2>5 DEF Others
  <1> HIDE DEF p
  <1> QED BY <1>1, <1>3, <1>4, <1>5, <1>6, <1>7, <1>8, <1>9, OnePort, SameRegistry DEF DeviceInv

LEMMA D0EntryStep ==
    ASSUME DeviceInv, NEW n \in Ports, D0Entry(n)
    PROVE  DeviceInv'
  <1>a. PICK phase \in {"started", "stopped"} : port' = [port EXCEPT ![n].phase = phase, ![n].reader = (phase = "started")]
    BY DEF D0Entry
  <1> DEFINE p == [port[n] EXCEPT !.phase = phase, !.reader = (phase = "started")]
  <1>1. port[n].phase \in {"prepared", "asleep"}
    BY DEF D0Entry
  <1>2. port[n] \in PortStates /\ Sound(port[n])
    BY ThisPort
  <1>3. p \in PortStates /\ p.number = port[n].number
    BY <1>1, <1>2, <1>a DEF PortStates
  <1>4. port[n].phase # "none" /\ p.phase # "none"
    BY <1>1, <1>2, <1>a DEF PortStates, Sound, Built, Alive
  <1>5. Built(p)
    BY <1>1, <1>2, <1>a DEF PortStates, Sound, Built, Alive
  <1>6. Alive(p)
    BY <1>1, <1>2, <1>a DEF PortStates, Sound, Built, Alive
  <1>7. Legal(p)
    BY <1>1, <1>2, <1>a DEF PortStates, Sound, Legal
  <1>8. port' = [port EXCEPT ![n] = p]
    BY <1>a, Zenon DEF D0Entry
  <1>9. /\ UNCHANGED <<instance, registry, ioctls>> /\ early' = {} /\ late' \subseteq Ports \X (Workers \cup Others)
        /\ late' = {}
    <2>1. Use(n, "D0Entry", {"usb"}, {}) /\ UNCHANGED <<instance, registry, ioctls>>
      BY DEF D0Entry, CallbackUnchanged
    <2>2. port[n].made = 10
      BY <1>1, <1>2 DEF PortStates, Sound, Built, Alive
    <2>3. {"usb"} \subseteq StepNames
      BY AllSteps DEF Locks
    <2>4. early' = {} /\ late' = IF "freed" \in {} THEN {<<n, "D0Entry">>} ELSE {}
      BY <2>1, <2>2, <2>3, AllMade DEF Use
    <2> QED BY <2>1, <2>4
  <1> HIDE DEF p
  <1> QED BY <1>1, <1>3, <1>4, <1>5, <1>6, <1>7, <1>8, <1>9, OnePort, SameRegistry DEF DeviceInv

LEMMA D0ExitStep ==
    ASSUME DeviceInv, NEW n \in Ports, D0Exit(n)
    PROVE  DeviceInv'
  <1>a. PICK phase \in {"asleep", "stopped"} : port' = [port EXCEPT ![n].phase = phase, ![n].reader = FALSE]
    BY DEF D0Exit
  <1> DEFINE p == [port[n] EXCEPT !.phase = phase, !.reader = FALSE]
  <1>1. port[n].phase = "started"
    BY DEF D0Exit
  <1>2. port[n] \in PortStates /\ Sound(port[n])
    BY ThisPort
  <1>3. p \in PortStates /\ p.number = port[n].number
    BY <1>1, <1>2, <1>a DEF PortStates
  <1>4. port[n].phase # "none" /\ p.phase # "none"
    BY <1>1, <1>2, <1>a DEF PortStates, Sound, Built, Alive
  <1>5. Built(p)
    BY <1>1, <1>2, <1>a DEF PortStates, Sound, Built, Alive
  <1>6. Alive(p)
    BY <1>1, <1>2, <1>a DEF PortStates, Sound, Built, Alive
  <1>7. Legal(p)
    BY <1>1, <1>2, <1>a DEF PortStates, Sound, Legal
  <1>8. port' = [port EXCEPT ![n] = p]
    BY <1>a, Zenon DEF D0Exit
  <1>9. /\ UNCHANGED <<instance, registry, ioctls>> /\ early' = {} /\ late' \subseteq Ports \X (Workers \cup Others)
        /\ late' = {}
    <2>1. Use(n, "D0Exit", {"usb"}, {}) /\ UNCHANGED <<instance, registry, ioctls>>
      BY DEF D0Exit, CallbackUnchanged
    <2>2. port[n].made = 10
      BY <1>1, <1>2 DEF PortStates, Sound, Built, Alive
    <2>3. {"usb"} \subseteq StepNames
      BY AllSteps DEF Locks
    <2>4. early' = {} /\ late' = IF "freed" \in {} THEN {<<n, "D0Exit">>} ELSE {}
      BY <2>1, <2>2, <2>3, AllMade DEF Use
    <2> QED BY <2>1, <2>4
  <1> HIDE DEF p
  <1> QED BY <1>1, <1>3, <1>4, <1>5, <1>6, <1>7, <1>8, <1>9, OnePort, SameRegistry DEF DeviceInv

LEMMA RegisterCompletionStep ==
    ASSUME DeviceInv, NEW n \in Ports, RegisterCompletion(n)
    PROVE  DeviceInv'
  <1>a. PICK read \in port[n].asked :
            /\ Use(n, "register_completion", AnswerNeeds(read), {})
            /\ port' = [port EXCEPT ![n].asked = port[n].asked \ {read}, ![n].dpcs = IF read = "register" THEN port[n].dpcs \cup {"iframe_worker"} ELSE port[n].dpcs]
    BY DEF RegisterCompletion
  <1> DEFINE p == [port[n] EXCEPT !.asked = port[n].asked \ {read}, !.dpcs = IF read = "register" THEN port[n].dpcs \cup {"iframe_worker"} ELSE port[n].dpcs]
  <1>1. read \in port[n].asked /\ read \in {"fx2", "register"}
    BY <1>a, ThisPort DEF PortStates
  <1>2. port[n] \in PortStates /\ Sound(port[n])
    BY ThisPort
  <1>3. p \in PortStates /\ p.number = port[n].number
    BY <1>1, <1>2, <1>a DEF PortStates, Workers
  <1>4. port[n].phase # "none" /\ p.phase # "none"
    BY <1>1, <1>2, <1>a DEF PortStates, Sound, Built, Alive, Workers
  <1>5. Built(p)
    BY <1>1, <1>2, <1>a DEF PortStates, Sound, Built, Alive, Workers
  <1>6. Alive(p)
    BY <1>1, <1>2, <1>a DEF PortStates, Sound, Built, Alive, Workers
  <1>7. Legal(p)
    BY <1>1, <1>2, <1>a DEF PortStates, Sound, Legal, Workers
  <1>8. port' = [port EXCEPT ![n] = p]
    BY <1>a, Zenon DEF RegisterCompletion
  <1>9. /\ UNCHANGED <<instance, registry, ioctls>> /\ early' = {} /\ late' \subseteq Ports \X (Workers \cup Others)
        /\ late' = {}
    <2>1. Use(n, "register_completion", AnswerNeeds(read), {}) /\ UNCHANGED <<instance, registry, ioctls>>
      BY <1>a DEF RegisterCompletion, CallbackUnchanged
    <2>2. AnswerNeeds(read) = {} \/ (AnswerNeeds(read) \subseteq StepNames /\ port[n].made = 10)
      BY <1>1, <1>2, AllSteps DEF AnswerNeeds, Locks, PortStates, Sound, Built
    <2>3. AnswerNeeds(read) \ Made(n) = {}
      BY <2>2, AllMade
    <2>4. early' = {} /\ late' = {}
      BY <2>1, <2>3 DEF Use
    <2> QED BY <2>1, <2>4
  <1> HIDE DEF p
  <1> QED BY <1>1, <1>3, <1>4, <1>5, <1>6, <1>7, <1>8, <1>9, OnePort, SameRegistry DEF DeviceInv

----------------------------------------------------------------------------
(* Settings. *)

LEMMA SetSettingStep ==
    ASSUME DeviceInv, NEW n \in Ports, SetSetting(n)
    PROVE  DeviceInv'
  <1>a. PICK s \in Settings, v \in {x % WORD : x \in IoctlValues} :
            port' = [port EXCEPT ![n].setting[s] = Taken(s, port[n].setting[s], v)]
    BY DEF SetSetting
  <1> DEFINE p == [port[n] EXCEPT !.setting = [port[n].setting EXCEPT ![s] = Taken(s, port[n].setting[s], v)]]
  <1>1. port[n].phase = "started" /\ ioctls' \in Nat /\ UNCHANGED <<instance, registry>> /\ early' = {} /\ late' = {}
    BY DEF SetSetting, Ioctl, NoUse, DeviceInv
  <1>2. port[n] \in PortStates /\ Sound(port[n])
    BY ThisPort
  <1>0. /\ [port[n].setting EXCEPT ![s] = Taken(s, port[n].setting[s], v)] \in [Settings -> Int]
        /\ [port[n].setting EXCEPT ![s] = Taken(s, port[n].setting[s], v)]["TX_MODIFIERS"] \in Modifiers
    <2>1. v \in Nat /\ port[n].setting \in [Settings -> Int] /\ port[n].setting["TX_MODIFIERS"] \in Modifiers
      BY <1>2 DEF PortStates, Sound, Legal
    <2>2. Taken(s, port[n].setting[s], v) \in Int
      BY <2>1, SettingsTaken
    <2>3. s = "TX_MODIFIERS" => Taken(s, port[n].setting[s], v) \in Modifiers
      BY <2>1, SettingsTaken
    <2>4. "TX_MODIFIERS" \in Settings
      BY DEF Settings
    <2> QED BY <2>1, <2>2, <2>3, <2>4
  <1>3. p \in PortStates /\ p.number = port[n].number
    BY <1>0, <1>1, <1>2 DEF PortStates
  <1>4. port[n].phase # "none" /\ p.phase # "none"
    BY <1>0, <1>1, <1>2 DEF PortStates, Sound, Built, Alive
  <1>5. Built(p)
    BY <1>0, <1>1, <1>2 DEF PortStates, Sound, Built, Alive
  <1>6. Alive(p)
    BY <1>0, <1>1, <1>2 DEF PortStates, Sound, Built, Alive
  <1>7. Legal(p)
    BY <1>0, <1>1, <1>2 DEF PortStates, Sound, Legal
  <1>8. port' = [port EXCEPT ![n] = p]
    BY <1>a, Zenon DEF SetSetting
  <1> HIDE DEF p
  <1> QED BY <1>1, <1>3, <1>4, <1>5, <1>6, <1>7, <1>8, OnePort, SameRegistry DEF DeviceInv

LEMMA SetMemoryCapStep ==
    ASSUME DeviceInv, NEW n \in Ports, SetMemoryCap(n)
    PROVE  DeviceInv'
  <1>a. PICK input, output \in IoctlValues :
            port' = [port EXCEPT ![n].cap = [input |-> CapTaken(port[n].cap.input, input),
                                             output |-> CapTaken(port[n].cap.output, output)]]
    BY DEF SetMemoryCap
  <1> DEFINE p == [port[n] EXCEPT !.cap = [input |-> CapTaken(port[n].cap.input, input),
                                     output |-> CapTaken(port[n].cap.output, output)]]
  <1>1. port[n].phase = "started" /\ ioctls' \in Nat /\ UNCHANGED <<instance, registry>> /\ early' = {} /\ late' = {}
    BY DEF SetMemoryCap, Ioctl, NoUse, DeviceInv
  <1>2. port[n] \in PortStates /\ Sound(port[n])
    BY ThisPort
  <1>0. CapTaken(port[n].cap.input, input) \in Nat /\ CapTaken(port[n].cap.output, output) \in Nat
    <2>1. port[n].cap.input \in Nat /\ port[n].cap.output \in Nat
      BY <1>2 DEF PortStates
    <2>2. input \in Int /\ output \in Int
      OBVIOUS
    <2> QED BY <2>1, <2>2 DEF CapTaken
  <1>3. p \in PortStates /\ p.number = port[n].number
    BY <1>0, <1>1, <1>2 DEF PortStates
  <1>4. port[n].phase # "none" /\ p.phase # "none"
    BY <1>0, <1>1, <1>2 DEF PortStates, Sound, Built, Alive
  <1>5. Built(p)
    BY <1>0, <1>1, <1>2 DEF PortStates, Sound, Built, Alive
  <1>6. Alive(p)
    BY <1>0, <1>1, <1>2 DEF PortStates, Sound, Built, Alive
  <1>7. Legal(p)
    BY <1>0, <1>1, <1>2 DEF PortStates, Sound, Legal
  <1>8. port' = [port EXCEPT ![n] = p]
    BY <1>a, Zenon DEF SetMemoryCap
  <1> HIDE DEF p
  <1> QED BY <1>1, <1>3, <1>4, <1>5, <1>6, <1>7, <1>8, OnePort, SameRegistry DEF DeviceInv

----------------------------------------------------------------------------
(* Start. *)

\* What the registry holds after a start, and the settings that follow.
LEMMA SettingsFollow ==
    ASSUME DeviceInv, NEW n \in Ports
    PROVE  /\ Stored(port[n].adapter) \in [Settings \cup {"PortNumber"} -> Int]
           /\ \A s \in Settings : Stored(port[n].adapter)[s] \in Nat
           /\ DefaultSettings(n) \in [Settings -> Int]
           /\ DefaultSettings(n)["TX_MODIFIERS"] \in Modifiers
  <1> DEFINE a == port[n].adapter
  <1>1. a \in Adapters /\ port[n].setting \in [Settings -> Int] /\ port[n].setting["TX_MODIFIERS"] \in Modifiers
    BY ThisPort DEF PortStates, Sound, Legal
  <1>2. "TX_MODIFIERS" \in Settings /\ "PortNumber" \notin Settings
    BY DEF Settings
  <1>3. /\ registry[a] \in [Settings \cup {"PortNumber"} -> Int]
        /\ \A s \in Settings : registry[a][s] # Missing => registry[a][s] \in Nat
    BY <1>1 DEF DeviceInv, RegistrySound
  <1> HIDE DEF a
  <1>4. Stored(a) \in [Settings \cup {"PortNumber"} -> Int]
    BY <1>3 DEF Stored, Default
  <1>5. \A s \in Settings : Stored(a)[s] \in Nat
    BY <1>2, <1>3 DEF Stored, Default
  <1>6. \A s \in Settings : /\ Taken(s, port[n].setting[s], Stored(a)[s]) \in Int
                            /\ s = "TX_MODIFIERS" => Taken(s, port[n].setting[s], Stored(a)[s]) \in Modifiers
    BY <1>1, <1>5, SettingsTaken
  <1>7. /\ DefaultSettings(n) \in [Settings -> Int]
        /\ DefaultSettings(n)["TX_MODIFIERS"] \in Modifiers
    BY <1>2, <1>6 DEF DefaultSettings, a
  <1> QED BY <1>4, <1>5, <1>7 DEF a

\* (Each value of the flag by itself: the SMT solver has no Boolean variables.)
LEMMA ConfiguredType ==
    ASSUME NEW r \in PortStates, NEW opens \in BOOLEAN, NEW setting \in [Settings -> Int],
           NEW cap \in [input : Nat, output : Nat]
    PROVE  [r EXCEPT !.opened = opens, !.cap = cap, !.setting = setting] \in PortStates
  <1>1. [r EXCEPT !.opened = TRUE, !.cap = cap, !.setting = setting] \in PortStates
    BY DEF PortStates
  <1>2. [r EXCEPT !.opened = FALSE, !.cap = cap, !.setting = setting] \in PortStates
    BY DEF PortStates
  <1>3. CASE opens = TRUE
    BY <1>1, <1>3, Zenon
  <1>4. CASE opens = FALSE
    BY <1>2, <1>4, Zenon
  <1> QED BY <1>3, <1>4, Zenon

LEMMA PreparedType ==
    ASSUME NEW r \in PortStates, NEW phase \in {"prepared", "stopped"}, NEW starts \in Nat,
           NEW asked \in SUBSET {"fx2", "register"}
    PROVE  [r EXCEPT !.phase = phase, !.starts = starts, !.pending_oframe = "null",
                     !.asked = asked, !.timer = TRUE] \in PortStates
  BY DEF PortStates, Pointers

LEMMA PrepareHardwareStep ==
    ASSUME DeviceInv, NEW n \in Ports, PrepareHardware(n)
    PROVE  DeviceInv'
  <1>a. PICK opens \in BOOLEAN, phase \in {"prepared", "stopped"} :
          /\ registry' = IF opens THEN [registry EXCEPT ![port[n].adapter] = Stored(port[n].adapter)] ELSE registry
          /\ port' = [port EXCEPT ![n] = Prepared(n, opens, phase)]
    BY DEF PrepareHardware
  <1> DEFINE setting == IF opens THEN DefaultSettings(n)
                                 ELSE [port[n].setting EXCEPT !["MAX_WRITES"] = Default("MAX_WRITES")]
  <1> DEFINE p == Prepared(n, opens, phase)
  <1>1. port[n].phase \in {"added", "released"}
    BY DEF PrepareHardware
  <1>2. port[n] \in PortStates /\ Sound(port[n])
    BY ThisPort
  <1>0. setting \in [Settings -> Int] /\ setting["TX_MODIFIERS"] \in Modifiers
    <2>1. port[n].setting \in [Settings -> Int] /\ port[n].setting["TX_MODIFIERS"] \in Modifiers
      BY <1>2 DEF PortStates, Sound, Legal
    <2> QED BY <2>1, SettingsFollow DEF Default, Settings
  <1> HIDE DEF setting
  <1> DEFINE q == Configured(n, opens)
  <1>q. q = [port[n] EXCEPT !.opened = opens, !.cap = [input |-> 1000000, output |-> 1000000],
                            !.setting = setting]
    BY DEF Configured, setting
  <1> HIDE DEF q
  <1>b. q \in PortStates
    <2> DEFINE cap == [input |-> 1000000, output |-> 1000000]
    <2>1. cap \in [input : Nat, output : Nat]
      OBVIOUS
    <2>2. q = [port[n] EXCEPT !.opened = opens, !.cap = cap, !.setting = setting]
      BY <1>q, SMT
    <2> HIDE DEF cap
    <2> QED BY <1>0, <1>2, <2>1, <2>2, ConfiguredType, Zenon
  <1>c. /\ q.setting = setting /\ q.number = port[n].number /\ q.phase = port[n].phase
        /\ q.made = port[n].made /\ q.starts = port[n].starts /\ q.reader = port[n].reader
        /\ q.dpcs = port[n].dpcs /\ q.asked = port[n].asked /\ q.istream = port[n].istream
    BY <1>2, <1>q DEF PortStates
  <1>p. p = [q EXCEPT !.phase = phase, !.starts = q.starts + 1, !.pending_oframe = "null",
                      !.asked = q.asked \cup {"register"}, !.timer = TRUE]
    BY Zenon DEF Prepared, q
  <1> HIDE DEF p
  <1>3. p \in PortStates /\ p.number = port[n].number
    <2>1. q.starts + 1 \in Nat /\ q.asked \cup {"register"} \in SUBSET {"fx2", "register"}
      BY <1>b DEF PortStates
    <2>2. p \in PortStates
      BY <1>b, <1>p, <2>1, PreparedType, Zenon
    <2>3. p.number = q.number
      BY <1>b, <1>p DEF PortStates
    <2> QED BY <1>c, <2>2, <2>3
  <1>d. /\ port[n].made = 10 /\ port[n].starts \in Nat /\ ~port[n].reader
        /\ port[n].istream = "freed" => port[n].phase = "released" /\ port[n].starts > 0
    BY <1>1, <1>2 DEF PortStates, Sound, Built, Alive
  <1>e. p.made = 10 /\ p.starts = port[n].starts + 1 /\ p.phase = phase /\ p.istream = port[n].istream
        /\ p.pending_oframe = "null" /\ ~p.reader
    BY <1>b, <1>c, <1>d, <1>p DEF PortStates
  <1>4. port[n].phase # "none" /\ p.phase # "none"
    BY <1>1, <1>e
  <1>5. Built(p)
    BY <1>e DEF Built
  <1>6. Alive(p)
    BY <1>d, <1>e DEF Alive
  <1>7. Legal(p)
    BY <1>0, <1>1, <1>2, <1>b, <1>c, <1>p DEF PortStates, Sound, Legal, Pointers
  <1>8. port' = [port EXCEPT ![n] = p]
    BY <1>a DEF p
  <1>r. RegistrySound'
    <2>1. port[n].adapter \in Adapters
      BY <1>2 DEF PortStates
    <2>2. /\ registry' \in [Adapters -> [Settings \cup {"PortNumber"} -> Int]]
          /\ \A b \in Adapters, s \in Settings :
                registry'[b][s] = IF opens /\ b = port[n].adapter THEN Stored(b)[s] ELSE registry[b][s]
      BY <2>1, <1>a, SettingsFollow DEF DeviceInv, RegistrySound
    <2>3. ASSUME NEW b \in Adapters, NEW s \in Settings, registry'[b][s] # Missing
          PROVE  registry'[b][s] \in Nat
      <3>1. CASE opens /\ b = port[n].adapter
        <4>1. Stored(b)[s] \in Nat
          BY <3>1, SettingsFollow
        <4> QED BY <2>2, <3>1, <4>1, Zenon
      <3>2. CASE ~(opens /\ b = port[n].adapter)
        <4>1. registry'[b][s] = registry[b][s]
          BY <2>2, <3>2, Zenon
        <4>2. RegistrySound
          BY DEF DeviceInv
        <4> QED BY <2>3, <4>1, <4>2, Zenon DEF RegistrySound
      <3> QED BY <3>1, <3>2
    <2> QED BY <2>2, <2>3 DEF RegistrySound
  <1>9. /\ UNCHANGED <<instance, ioctls>> /\ early' = {} /\ late' \subseteq Ports \X (Workers \cup Others)
        /\ \A use \in late' : use[1] = n /\ p.starts > 1
    <2>1. Use(n, "PrepareHardware", Locks \cup {"usb", "queues", "timer"}, {port[n].istream}) /\ UNCHANGED <<instance, ioctls>>
      BY DEF PrepareHardware, CallbackUnchanged
    <2>2. port[n].made = 10
      BY <1>1, <1>2 DEF PortStates, Sound, Built, Alive
    <2>3. Locks \cup {"usb", "queues", "timer"} \subseteq StepNames
      BY AllSteps DEF Locks
    <2>4. early' = {} /\ late' = IF "freed" \in {port[n].istream} THEN {<<n, "PrepareHardware">>} ELSE {}
      BY <2>1, <2>2, <2>3, AllMade DEF Use
    <2>5. "freed" \in {port[n].istream} => p.starts > 1
      BY <1>1, <1>2, <1>b, <1>c, <1>p, SMTT(30) DEF PortStates, Sound, Alive
    <2> QED BY <2>1, <2>4, <2>5 DEF Others
  <1> QED BY <1>1, <1>3, <1>4, <1>5, <1>6, <1>7, <1>8, <1>9, <1>r, OnePort DEF DeviceInv

----------------------------------------------------------------------------
(* The settings of a start. *)

\* StartsAsStored for one port: setting agrees with what the registry holds.
Agrees(s, value, stored) ==
    /\ stored # Missing
    /\ s = "MAX_WRITES" /\ stored < WORD \div 2 => value = stored
    /\ s = "TX_MODIFIERS" /\ stored \in Modifiers => value = stored
    /\ s \in Flags => (value = 1 <=> stored % BYTE # 0)

LEMMA AgreesWhere ==
    StartsAsStored <=> \A n \in Ports : port[n].phase = "prepared" /\ port[n].opened =>
        \A s \in Settings : Agrees(s, port[n].setting[s], registry[port[n].adapter][s])
  BY DEF StartsAsStored, Agrees

\* A setting that is taken from what the registry holds agrees with it.
LEMMA TakenAgrees ==
    ASSUME NEW s \in Settings, NEW old \in Int, NEW v \in Nat
    PROVE  Agrees(s, Taken(s, old, v), v)
  <1>1. v # Missing
    BY DEF Missing
  <1>2. s = "MAX_WRITES" /\ v < WORD \div 2 => Taken(s, old, v) = v
    BY DEF Taken, AsInt
  <1>3. s = "TX_MODIFIERS" /\ v \in Modifiers => Taken(s, old, v) = v
    BY DEF Taken
  <1>4. s \in Flags => (Taken(s, old, v) = 1 <=> v % BYTE # 0)
    <2> SUFFICES ASSUME s \in Flags PROVE Taken(s, old, v) = 1 <=> v % BYTE # 0
      OBVIOUS
    <2>1. s # "MAX_WRITES" /\ s # "TX_MODIFIERS"
      OBVIOUS
    <2> QED BY <2>1 DEF Taken, AsFlag
  <1> QED BY <1>1, <1>2, <1>3, <1>4 DEF Agrees

\* A port that waits for its D0Entry was there before the step, as it is.
Waiting(n) ==
    port'[n].phase = "prepared" /\ port'[n].opened =>
        /\ port[n].phase = "prepared" /\ port[n].opened
        /\ port'[n].adapter = port[n].adapter /\ port'[n].setting = port[n].setting

\* What the registry holds of a setting stays.
RegistryKept == \A a \in Adapters, s \in Settings :
                   registry[a][s] # Missing => registry'[a][s] = registry[a][s]

LEMMA Kept ==
    ASSUME DeviceInv, StartsAsStored, RegistryKept, NEW n \in Ports, Waiting(n)
    PROVE  port'[n].phase = "prepared" /\ port'[n].opened =>
               \A s \in Settings : Agrees(s, port'[n].setting[s], registry'[port'[n].adapter][s])
  <1> SUFFICES ASSUME port'[n].phase = "prepared" /\ port'[n].opened, NEW s \in Settings
               PROVE  Agrees(s, port'[n].setting[s], registry'[port'[n].adapter][s])
    OBVIOUS
  <1>1. port[n].adapter \in Adapters /\ port'[n].adapter = port[n].adapter /\ port'[n].setting = port[n].setting
    BY ThisPort DEF PortStates, Waiting
  <1>2. Agrees(s, port[n].setting[s], registry[port[n].adapter][s])
    BY AgreesWhere DEF Waiting
  <1>3. registry'[port[n].adapter][s] = registry[port[n].adapter][s]
    BY <1>1, <1>2 DEF RegistryKept, Agrees
  <1> QED BY <1>1, <1>2, <1>3

LEMMA PrepareAgrees ==
    ASSUME DeviceInv, StartsAsStored, NEW n \in Ports, PrepareHardware(n)
    PROVE  StartsAsStored'
  <1>1. PICK opens \in BOOLEAN, phase \in {"prepared", "stopped"} :
          /\ registry' = IF opens THEN [registry EXCEPT ![port[n].adapter] = Stored(port[n].adapter)] ELSE registry
          /\ port' = [port EXCEPT ![n] = Prepared(n, opens, phase)]
    BY DEF PrepareHardware
  <1>2. port[n] \in PortStates /\ port[n].adapter \in Adapters /\ "PortNumber" \notin Settings
    BY ThisPort DEF PortStates, Settings
  <1>3. RegistryKept
    <2> SUFFICES ASSUME NEW a \in Adapters, NEW s \in Settings, registry[a][s] # Missing
                 PROVE  registry'[a][s] = registry[a][s]
      BY DEF RegistryKept
    <2>1. registry \in [Adapters -> [Settings \cup {"PortNumber"} -> Int]]
      BY DEF DeviceInv, RegistrySound
    <2>2. Stored(a)[s] = registry[a][s]
      BY <2>1 DEF Stored
    <2> QED BY <1>1, <1>2, <2>1, <2>2
  <1>4. ASSUME NEW m \in Ports, m # n PROVE Waiting(m)
    BY <1>1, <1>4 DEF Waiting, DeviceInv
  <1>5. ASSUME port'[n].opened, NEW s \in Settings
        PROVE  Agrees(s, port'[n].setting[s], registry'[port'[n].adapter][s])
    <2> DEFINE p == Prepared(n, opens, phase)
    <2>1. port'[n] = p
      BY <1>1 DEF DeviceInv
    <2>2. p.opened = opens /\ p.adapter = port[n].adapter
          /\ (opens => p.setting = DefaultSettings(n))
      BY <1>2 DEF Prepared, Configured, PortStates
    <2> HIDE DEF p
    <2>3. opens /\ p.setting[s] = Taken(s, port[n].setting[s], Stored(port[n].adapter)[s])
      BY <1>5, <2>1, <2>2 DEF DefaultSettings
    <2>4. registry'[port[n].adapter] = Stored(port[n].adapter)
      BY <1>1, <1>2, <2>3 DEF DeviceInv, RegistrySound
    <2>5. Stored(port[n].adapter)[s] \in Nat /\ port[n].setting[s] \in Int
      BY <1>2, SettingsFollow DEF PortStates
    <2> QED BY <2>1, <2>2, <2>3, <2>4, <2>5, TakenAgrees
  <1>6. ASSUME NEW m \in Ports
        PROVE  port'[m].phase = "prepared" /\ port'[m].opened =>
                  \A s \in Settings : Agrees(s, port'[m].setting[s], registry'[port'[m].adapter][s])
    <2>1. CASE m = n
      BY <2>1, <1>5
    <2>2. CASE m # n
      BY <2>2, <1>3, <1>4, Kept
    <2> QED BY <2>1, <2>2
  <1> QED BY <1>6 DEF StartsAsStored, Agrees

\* Every other step leaves the ports that wait, and what is stored, alone.
LEMMA OthersWait ==
    ASSUME DeviceInv, NEW n \in Ports, NEW m \in Ports,
           \/ \E a \in Adapters : DeviceAdd(n, a)
           \/ PortNew(n)
           \/ D0Entry(n) \/ D0Exit(n) \/ ReleaseStream(n) \/ ReleaseOframe(n) \/ Delete(n)
           \/ Callback(n) \/ SetSetting(n) \/ SetMemoryCap(n)
    PROVE  Waiting(m) /\ RegistryKept
  <1>0. port \in [Ports -> PortStates]
    BY DEF DeviceInv
  <1>1. CASE \E a \in Adapters : DeviceAdd(n, a)
    <2>1. PICK a \in Adapters : DeviceAdd(n, a)
      BY <1>1
    <2>2. port' = [port EXCEPT ![n] = [port[n] EXCEPT !.phase = "adding", !.adapter = a, !.number = instance]]
      BY <2>1, Zenon DEF DeviceAdd
    <2>3. Waiting(m)
      BY <1>0, <2>2 DEF Waiting, PortStates
    <2>4. RegistryKept
      BY <2>1 DEF DeviceAdd, RegistryKept
    <2> QED BY <2>3, <2>4
  <1>2. CASE PortNew(n)
    <2>1. CASE SetPortNum(n)
      <3>1. Waiting(m)
        BY <1>0, <2>1, SMTT(30) DEF SetPortNum, Making, Waiting, PortStates
      <3>2. /\ registry' = [registry EXCEPT ![port[n].adapter]["PortNumber"] = port[n].number]
            /\ "PortNumber" \notin Settings /\ registry \in [Adapters -> [Settings \cup {"PortNumber"} -> Int]]
        BY <2>1 DEF SetPortNum, Settings, DeviceInv, RegistrySound
      <3>3. RegistryKept
        BY <3>2 DEF RegistryKept
      <3> QED BY <3>1, <3>3
    <2>2. CASE \E step : Make(n, step)
      BY <1>0, <2>2, SMTT(30) DEF Make, Making, Waiting, RegistryKept, PortStates
    <2>3. CASE CreateDevice(n)
      BY <1>0, <2>3, SMTT(30) DEF CreateDevice, Making, Waiting, RegistryKept, PortStates
    <2>4. CASE SetupUsb(n)
      BY <1>0, <2>4, SMTT(30) DEF SetupUsb, Making, Waiting, RegistryKept, PortStates
    <2>5. CASE InitLists(n)
      BY <1>0, <2>5, SMTT(30) DEF InitLists, Making, Waiting, RegistryKept, PortStates
    <2>6. CASE PortNewFails(n)
      BY <1>0, <2>6 DEF PortNewFails, Deleted, Waiting, RegistryKept, PortStates
    <2> QED BY <1>2, <2>1, <2>2, <2>3, <2>4, <2>5, <2>6
            DEF PortNew, CreateQueues, CreateLink, SetupSpinlocks, SetupRequest, SetupDpc, SetupTimer
  <1>3. CASE D0Entry(n)
    BY <1>0, <1>3, SMTT(30) DEF D0Entry, Waiting, RegistryKept, PortStates
  <1>4. CASE D0Exit(n)
    BY <1>0, <1>4, SMTT(30) DEF D0Exit, Waiting, RegistryKept, PortStates
  <1>5. CASE ReleaseStream(n)
    BY <1>0, <1>5, SMTT(30) DEF ReleaseStream, Waiting, RegistryKept, PortStates
  <1>6. CASE ReleaseOframe(n)
    BY <1>0, <1>6, SMTT(30) DEF ReleaseOframe, Waiting, RegistryKept, PortStates
  <1>7. CASE Delete(n)
    BY <1>0, <1>7 DEF Delete, Deleted, Waiting, RegistryKept, PortStates
  <1>8. CASE RegisterCompletion(n)
    BY <1>0, <1>8, SMTT(30) DEF RegisterCompletion, CallbackUnchanged, Waiting, RegistryKept, PortStates
  <1>9. CASE PortReceivedData(n)
    BY <1>0, <1>9, SMTT(30) DEF PortReceivedData, CallbackUnchanged, Waiting, RegistryKept, PortStates
  <1>10. CASE SyncComEvtIo(n)
    BY <1>0, <1>10, SMTT(30) DEF SyncComEvtIo, CallbackUnchanged, Waiting, RegistryKept, PortStates
  <1>11. CASE TimerHandler(n)
    BY <1>0, <1>11, SMTT(30) DEF TimerHandler, CallbackUnchanged, Waiting, RegistryKept, PortStates
  <1>12. CASE IframeWorker(n)
    BY <1>0, <1>12, SMTT(30) DEF IframeWorker, CallbackUnchanged, Waiting, RegistryKept, PortStates
  <1>13. CASE OframeWorker(n)
    BY <1>0, <1>13, SMTT(30) DEF OframeWorker, CallbackUnchanged, Waiting, RegistryKept, PortStates
  <1>14. CASE SynccomProcessRead(n)
    BY <1>0, <1>14, SMTT(30) DEF SynccomProcessRead, CallbackUnchanged, Waiting, RegistryKept, PortStates
  <1>15. CASE SetSetting(n)
    <2>1. PICK s \in Settings, v \in {x % WORD : x \in IoctlValues} :
              port' = [port EXCEPT ![n].setting[s] = Taken(s, port[n].setting[s], v)]
      BY <1>15 DEF SetSetting
    <2>2. port' = [port EXCEPT ![n] = [port[n] EXCEPT !.setting =
                      [port[n].setting EXCEPT ![s] = Taken(s, port[n].setting[s], v)]]]
      BY <2>1, Zenon
    <2>3. port[n].phase = "started"
      BY <1>15 DEF SetSetting, Ioctl
    <2>4. Waiting(m)
      BY <1>0, <2>2, <2>3, SMTT(30) DEF Waiting, PortStates
    <2>5. RegistryKept
      BY <1>15 DEF SetSetting, Ioctl, RegistryKept
    <2> QED BY <2>4, <2>5
  <1>16. CASE SetMemoryCap(n)
    BY <1>0, <1>16, SMTT(30) DEF SetMemoryCap, Ioctl, Waiting, RegistryKept, PortStates
  <1> QED BY <1>1, <1>2, <1>3, <1>4, <1>5, <1>6, <1>7, <1>8, <1>9, <1>10, <1>11, <1>12, <1>13, <1>14, <1>15, <1>16 DEF Callback

LEMMA NextAgrees == DeviceInv /\ StartsAsStored /\ [Next]_vars => StartsAsStored'
  <1> SUFFICES ASSUME DeviceInv, StartsAsStored, [Next]_vars PROVE StartsAsStored'
    OBVIOUS
  <1>1. CASE UNCHANGED vars
    BY <1>1 DEF vars, StartsAsStored
  <1>2. CASE Next
    <2>1. PICK n \in Ports : \/ \E a \in Adapters : DeviceAdd(n, a)
                             \/ PortNew(n) \/ StartStop(n) \/ Callback(n)
                             \/ SetSetting(n) \/ SetMemoryCap(n)
      BY <1>2 DEF Next
    <2>2. CASE PrepareHardware(n)
      BY <2>2, PrepareAgrees
    <2>3. CASE ~PrepareHardware(n)
      <3>1. ASSUME NEW m \in Ports PROVE Waiting(m) /\ RegistryKept
        BY <2>1, <2>3, OthersWait DEF StartStop
      <3>2. \A m \in Ports : port'[m].phase = "prepared" /\ port'[m].opened =>
                \A s \in Settings : Agrees(s, port'[m].setting[s], registry'[port'[m].adapter][s])
        BY <3>1, Kept
      <3> QED BY <3>2 DEF StartsAsStored, Agrees
    <2> QED BY <2>2, <2>3
  <1> QED BY <1>1, <1>2

----------------------------------------------------------------------------
(* The theorems. *)

LEMMA NextInv == DeviceInv /\ [Next]_vars => DeviceInv'
  <1> SUFFICES ASSUME DeviceInv, [Next]_vars PROVE DeviceInv'
    OBVIOUS
  <1>1. CASE UNCHANGED vars
    <2>1. RegistrySound'
      BY <1>1, SameRegistry DEF vars
    <2>2. \A m \in Ports : Sound(port[m])'
      BY <1>1 DEF vars, DeviceInv, Sound, Built, Alive, Legal
    <2>3. Counted' /\ OnlyWorkersLate'
      BY <1>1 DEF vars, DeviceInv, Counted, OnlyWorkersLate
    <2> QED BY <1>1, <2>1, <2>2, <2>3 DEF vars, DeviceInv
  <1>2. CASE Next
    <2>1. PICK n \in Ports : \/ \E a \in Adapters : DeviceAdd(n, a)
                             \/ PortNew(n) \/ StartStop(n) \/ Callback(n)
                             \/ SetSetting(n) \/ SetMemoryCap(n)
      BY <1>2 DEF Next
    <2>2. CASE \E a \in Adapters : DeviceAdd(n, a)
      BY <2>2, NewPort
    <2>3. CASE PortNew(n)
      <3>1. \A step : Make(n, step) /\ step # "lists" => DeviceInv'
        BY MakeStep
      <3> QED BY <2>3, <3>1, CreateDeviceStep, SetupUsbStep, SetPortNumStep, InitListsStep, PortNewFailsStep
              DEF PortNew, CreateQueues, CreateLink, SetupSpinlocks, SetupRequest, SetupDpc, SetupTimer
    <2>4. CASE StartStop(n)
      BY <2>4, PrepareHardwareStep, D0EntryStep, D0ExitStep, ReleaseStreamStep, ReleaseOframeStep, DeleteStep
         DEF StartStop
    <2>5. CASE Callback(n)
      BY <2>5, RegisterCompletionStep, PortReceivedDataStep, SyncComEvtIoStep, TimerHandlerStep,
         IframeWorkerStep, OframeWorkerStep, ProcessReadStep DEF Callback
    <2>6. CASE SetSetting(n) \/ SetMemoryCap(n)
      BY <2>6, SetSettingStep, SetMemoryCapStep
    <2> QED BY <2>1, <2>2, <2>3, <2>4, <2>5, <2>6
  <1> QED BY <1>1, <1>2

LEMMA Invariance == Spec => []DeviceInv
  BY InitInv, NextInv, PTL DEF Spec

\* The state has its types.
THEOREM TypeCorrect == Spec => []TypeOK
  <1>1. DeviceInv => TypeOK
    <2>1. ASSUME DeviceInv PROVE early \subseteq StepNames
      BY <2>1 DEF DeviceInv
    <2> QED BY <2>1 DEF DeviceInv, RegistrySound, TypeOK, PortStates
  <1> QED BY <1>1, Invariance, PTL

\* However many devices are added at a time, fail half-way, go and come back,
\* no two device objects have the same name (synccom_port_new).
THEOREM NamesStayDistinct == Spec => []NamesDistinct
  <1>1. DeviceInv => NamesDistinct
    BY DEF DeviceInv, Counted, NamesDistinct, Exists
  <1> QED BY <1>1, Invariance, PTL

\* No callback uses what synccom_port_new has not made yet: the only one that
\* may run before needs nothing (register_completion with the FX2 revision).
THEOREM NothingUsedBeforeMade == Spec => []MadeBeforeUse
  <1>1. DeviceInv => MadeBeforeUse
    BY DEF DeviceInv, MadeBeforeUse
  <1> QED BY <1>1, Invariance, PTL

\* In the first life of a device object only the workers may use a frame that
\* ReleaseHardware freed.
THEOREM FirstLifeSafe == Spec => []OnlyWorkersLate
  <1>1. DeviceInv => OnlyWorkersLate
    BY DEF DeviceInv
  <1> QED BY <1>1, Invariance, PTL

\* What a start puts in force is what the registry holds when the device starts,
\* whatever an earlier life, its ioctls or another device of the same adapter
\* did (synccom_port_setget_default_settings).
THEOREM EachStartAsStored == Spec => []StartsAsStored
  <1>1. Init => StartsAsStored
    <2>1. Init => \A n \in Ports : port[n].phase = "none"
      BY DEF Init, NoPort
    <2> QED BY <2>1 DEF StartsAsStored
  <1> QED BY <1>1, NextAgrees, Invariance, PTL DEF Spec

=============================================================================
