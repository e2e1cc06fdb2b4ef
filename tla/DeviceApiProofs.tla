-------------------------- MODULE DeviceApiProofs --------------------------
(***************************************************************************)
(* Theorems about DeviceApi, for any devices, staff and handlers, any life *)
(* of a token and any number of restarts and failing statements.           *)
(***************************************************************************)
EXTENDS DeviceApi, TLAPS

LEMMA ConstantsTyped ==
    /\ Idle \in Call /\ NoTouch \in Touch
    /\ NoToken \in Token \cup {NoToken} /\ Unknown \in DeviceRegistry \cup {Unknown}
    /\ 1 \in Times
  BY TimeAssumption DEF Idle, Call, NoTouch, Touch, Times

LEMMA TypeInit == Init => TypeOK
  BY ConstantsTyped, TimeAssumption DEF Init, TypeOK, Null

\* What a request past the token check carries.
LEMMA AdmittedTyped ==
    ASSUME TypeOK, NEW h \in Handlers, call[h] # Idle
    PROVE  /\ call[h].staff \in Staff /\ call[h].live \in BOOLEAN
           /\ call[h].request \in Request /\ call[h].request.device \in Devices
<1>1. call[h] \in [pc : {"admitted"}, staff : Staff, live : BOOLEAN, request : Request]
  BY DEF TypeOK, Call
<1>2. \A r \in Request : r.device \in Devices
  BY DEF Request
<1> QED
  BY <1>1, <1>2

LEMMA TouchTyped ==
    ASSUME TypeOK, NEW h \in Handlers, touch[h] # NoTouch
    PROVE  /\ touch[h].device \in Devices
           /\ touch[h].pc \in {"spawned", "begun"}
           /\ touch[h].pc = "begun" => touch[h].at \in Times
  BY DEF TypeOK, Touch

LEMMA StampedTyped ==
    ASSUME NEW row \in DeviceRegistry, NEW t \in Times
    PROVE  Stamped(row, t) \in DeviceRegistry
  BY DEF Stamped, DeviceRegistry

LEMMA RegisteredTyped ==
    ASSUME TypeOK, NEW row \in DeviceRegistry \cup {Unknown}, NEW s \in Employed
    PROVE  Registered(row, s) \in DeviceRegistry
  BY DEF Registered, DeviceRegistry, TypeOK

LEMMA TypeNext == TypeOK /\ [Next]_vars => TypeOK'
<1> SUFFICES ASSUME TypeOK, [Next]_vars PROVE TypeOK'
  OBVIOUS
<1> USE TimeAssumption, ConstantsTyped
<1>1. CASE Tick
  BY <1>1 DEF Tick, TypeOK, Times
<1>2. CASE ServerRestart
  BY <1>2 DEF ServerRestart, TypeOK
<1>3. ASSUME NEW d \in Devices, NEW s \in Staff, GenerateToken(d, s) PROVE TypeOK'
  <2>1. [staff |-> s, exp |-> clock + TokenLife] \in Token
    BY DEF Token, TypeOK, Times
  <2> QED
    BY <1>3, <2>1 DEF GenerateToken, TypeOK
<1>4. ASSUME NEW h \in Handlers, NEW d \in Devices, JWTAuth(h, d) PROVE TypeOK'
  <2>1. token[d] \in Token
    BY <1>4 DEF JWTAuth, Valid, TypeOK
  <2>2. PICK r \in Request :
           call' = [call EXCEPT ![h] = [pc |-> "admitted", staff |-> token[d].staff,
                                        live |-> clock < token[d].exp, request |-> r]]
    BY <1>4 DEF JWTAuth
  <2>3. token[d].staff \in Staff /\ (clock < token[d].exp) \in BOOLEAN
    BY <2>1 DEF Token
  <2>4. [pc |-> "admitted", staff |-> token[d].staff,
         live |-> clock < token[d].exp, request |-> r] \in Call
    BY <2>3 DEF Call
  <2> QED
    BY <1>4, <2>2, <2>4 DEF JWTAuth, TypeOK
<1>5. ASSUME NEW h \in Handlers, Push(h) PROVE TypeOK'
  <2> DEFINE d == call[h].request.device
  <2>1. d \in Devices
    BY <1>5, AdmittedTyped DEF Push, Serves
  <2>2. [pc |-> "spawned", device |-> d] \in Touch
    BY <2>1 DEF Touch
  <2>3. touch' \in [Handlers -> Touch]
    BY <1>5, <2>2 DEF Push, TypeOK
  <2>4. contact' \in [Devices -> Times \cup {Null}]
    BY <1>5, <2>1 DEF Push, TypeOK
  <2> QED
    BY <1>5, <2>3, <2>4 DEF Push, TypeOK
<1>6. ASSUME NEW h \in Handlers, RegisterDevice(h) PROVE TypeOK'
  <2> DEFINE d == call[h].request.device
             s == call[h].staff
  <2>1. d \in Devices
    BY <1>6, AdmittedTyped DEF RegisterDevice, Serves
  <2>2. ASSUME Accepted(s) PROVE Registered(registry[d], s) \in DeviceRegistry
    BY <2>1, <2>2, RegisteredTyped DEF Accepted, TypeOK
  <2>3. registry' \in [Devices -> DeviceRegistry \cup {Unknown}]
    BY <1>6, <2>1, <2>2 DEF RegisterDevice, TypeOK
  <2> QED
    BY <1>6, <2>3 DEF RegisterDevice, TypeOK
<1>7. ASSUME NEW h \in Handlers, BeginTouch(h) PROVE TypeOK'
  <2>1. touch[h] # NoTouch
    BY <1>7 DEF BeginTouch, NoTouch
  <2>2. [pc |-> "begun", device |-> touch[h].device, at |-> clock] \in Touch
    BY <2>1, TouchTyped DEF Touch, TypeOK
  <2> QED
    BY <1>7, <2>2 DEF BeginTouch, TypeOK
<1>8. ASSUME NEW h \in Handlers, WriteTouch(h) PROVE TypeOK'
  <2>1. touch[h] # NoTouch /\ touch[h].at \in Times
    BY <1>8, TouchTyped DEF WriteTouch, NoTouch
  <2>2. \A d \in Devices : Known(d) => Stamped(registry[d], touch[h].at) \in DeviceRegistry
    BY <2>1, StampedTyped DEF Known, TypeOK
  <2>3. registry' \in [Devices -> DeviceRegistry \cup {Unknown}]
    BY <1>8, <2>2 DEF WriteTouch, TypeOK
  <2> QED
    BY <1>8, <2>3 DEF WriteTouch, TypeOK
<1>9. ASSUME NEW h \in Handlers, TouchFails(h) PROVE TypeOK'
  BY <1>9 DEF TouchFails, TypeOK
<1>10. CASE UNCHANGED vars
  BY <1>10 DEF vars, TypeOK
<1> QED
  BY <1>1, <1>2, <1>3, <1>4, <1>5, <1>6, <1>7, <1>8, <1>9, <1>10 DEF Next

(* The tables and the requests of the server keep their shape: a registered  *)
(* device always has a member of staff with a row, and its times are clock   *)
(* times (the foreign key of RegisterDevice, GenerateToken, JWTAuth).        *)
THEOREM TypeCorrect == Spec => []TypeOK
<1> QED
  BY TypeInit, TypeNext, PTL DEF Spec

-----------------------------------------------------------------------------
(* The time of a goroutine goes from the push over the start of its          *)
(* statement to the row, and the invariant follows it.                       *)

Contacted(d, t) == contact[d] # Null /\ contact[d] <= t

\* Every request past the token check came on a token that had not run out.
CallsLive == \A h \in Handlers : call[h] # Idle => call[h].live

\* A goroutine at work notes a batch that was taken before.
TouchesBacked ==
    \A h \in Handlers :
       /\ touch[h].pc = "spawned" => Contacted(touch[h].device, clock)
       /\ touch[h].pc = "begun" => Contacted(touch[h].device, touch[h].at)

ContactsPast == \A d \in Devices : contact[d] <= clock

Inv == TypeOK /\ LastSyncBacked /\ CallsLive /\ TouchesBacked /\ ContactsPast

LEMMA InvInit == Init => Inv
<1> SUFFICES ASSUME Init PROVE Inv
  OBVIOUS
<1>1. LastSyncBacked
  BY DEF Init, LastSyncBacked, Unknown
<1>2. CallsLive /\ TouchesBacked /\ ContactsPast
  BY DEF Init, CallsLive, TouchesBacked, ContactsPast, NoTouch, Null
<1> QED
  BY <1>1, <1>2, TypeInit DEF Inv

\* The time of contact is set once and the clock goes on.
LEMMA ContactKept ==
    ASSUME TypeOK, [Next]_vars
    PROVE  /\ clock <= clock'
           /\ \A d \in Devices : contact[d] # Null => contact'[d] = contact[d]
<1>1. CASE Tick
  BY <1>1 DEF Tick, TypeOK, Times
<1>2. ASSUME NEW h \in Handlers, Push(h) PROVE \A d \in Devices : contact[d] # Null => contact'[d] = contact[d]
  BY <1>2 DEF Push, TypeOK
<1>3. clock \in Int
  BY DEF TypeOK, Times
<1>4. ASSUME NEW h \in Handlers, Push(h) PROVE clock' = clock
  BY <1>4 DEF Push
<1>5. ASSUME UNCHANGED <<clock, contact>> PROVE clock <= clock' /\ contact' = contact
  BY <1>3, <1>5
<1>6. CASE ServerRestart \/ UNCHANGED vars
  BY <1>5, <1>6 DEF ServerRestart, vars
<1>7. ASSUME NEW d \in Devices, NEW s \in Staff, GenerateToken(d, s) PROVE UNCHANGED <<clock, contact>>
  BY <1>7 DEF GenerateToken
<1>8. ASSUME NEW h \in Handlers,
             \/ \E d \in Devices : JWTAuth(h, d)
             \/ RegisterDevice(h) \/ BeginTouch(h) \/ WriteTouch(h) \/ TouchFails(h)
      PROVE  UNCHANGED <<clock, contact>>
  BY <1>8 DEF JWTAuth, RegisterDevice, BeginTouch, WriteTouch, TouchFails
<1> QED
  BY <1>1, <1>2, <1>3, <1>4, <1>5, <1>6, <1>7, <1>8 DEF Next

LEMMA InvNext == Inv /\ [Next]_vars => Inv'
<1> SUFFICES ASSUME Inv, [Next]_vars PROVE Inv'
  OBVIOUS
<1> DEFINE After(d, t) == contact'[d] # Null /\ contact'[d] <= t
<1>0. TypeOK /\ TypeOK'
  BY TypeNext DEF Inv
<1>a. /\ clock \in Int /\ clock' \in Int /\ clock <= clock'
      /\ contact \in [Devices -> Int]
  BY <1>0, ContactKept DEF TypeOK, Times, Null
<1>1. ContactsPast'
  <2>1. ASSUME NEW h \in Handlers, Push(h) PROVE \A d \in Devices : contact'[d] \in {contact[d], clock}
    BY <1>0, <2>1 DEF Push, TypeOK
  <2>2. \A d \in Devices : contact'[d] \in {contact[d], clock}
    BY <2>1 DEF Next, vars, Tick, ServerRestart, GenerateToken, JWTAuth, RegisterDevice,
                BeginTouch, WriteTouch, TouchFails
  <2> QED
    BY <1>a, <2>2 DEF Inv, ContactsPast
\* Goroutines that only wait while the step is taken stay backed.
<1>2. ASSUME NEW h \in Handlers, touch[h] # NoTouch, touch'[h] = touch[h]
      PROVE  /\ touch[h].pc = "spawned" => After(touch[h].device, clock')
             /\ touch[h].pc = "begun" => After(touch[h].device, touch[h].at)
  <2>1. /\ touch[h].device \in Devices
        /\ touch[h].pc = "begun" => touch[h].at \in Int
    BY <1>0, <1>2, TouchTyped DEF Times
  <2>2. /\ contact[touch[h].device] # Null
        /\ contact'[touch[h].device] = contact[touch[h].device]
    BY <1>0, <1>2, <2>1, ContactKept, TouchTyped DEF Inv, TouchesBacked, Contacted
  <2> QED
    BY <1>a, <1>2, <2>1, <2>2 DEF Inv, TouchesBacked, Contacted
<1>3. TouchesBacked'
  <2> SUFFICES ASSUME NEW g \in Handlers
               PROVE  /\ touch'[g].pc = "spawned" => After(touch'[g].device, clock')
                      /\ touch'[g].pc = "begun" => After(touch'[g].device, touch'[g].at)
    BY DEF TouchesBacked, Contacted
  <2>1. CASE touch'[g] = NoTouch
    BY <2>1 DEF NoTouch
  <2>2. CASE touch'[g] # NoTouch /\ touch'[g] = touch[g]
    BY <1>2, <2>2
  <2>3. ASSUME Push(g), touch'[g] # touch[g]
        PROVE  /\ touch'[g] = [pc |-> "spawned", device |-> call[g].request.device]
               /\ After(call[g].request.device, clock')
    <3>1. call[g] # Idle /\ call[g].live /\ call[g].request.device \in Devices
      BY <1>0, <2>3, AdmittedTyped DEF Push, Serves, Inv, CallsLive
    <3>2. call[g].request.size = "within"
      BY <2>3 DEF Push, Noted
    <3>3. touch'[g] = [pc |-> "spawned", device |-> call[g].request.device]
      BY <1>0, <2>3, <3>2 DEF Push, Noted, TypeOK
    <3>4. contact'[call[g].request.device] # Null
      BY <1>0, <2>3, <3>1, <3>2 DEF Push, TypeOK, Times, Null
    <3> QED
      BY <1>1, <3>1, <3>3, <3>4 DEF ContactsPast
  <2>4. ASSUME BeginTouch(g)
        PROVE  /\ touch'[g] = [pc |-> "begun", device |-> touch[g].device, at |-> clock]
               /\ Contacted(touch[g].device, clock) /\ touch[g].device \in Devices
    BY <1>0, <2>4, TouchTyped DEF BeginTouch, NoTouch, TypeOK, Inv, TouchesBacked
  <2>5. CASE touch'[g] # NoTouch /\ touch'[g] # touch[g]
    <3>1. Push(g) \/ BeginTouch(g)
      BY <1>0, <2>5
      DEF Next, vars, Tick, ServerRestart, GenerateToken, JWTAuth, Push, RegisterDevice,
          BeginTouch, WriteTouch, TouchFails, TypeOK
    <3>2. CASE Push(g)
      BY <2>3, <2>5, <3>2
    <3>3. CASE BeginTouch(g)
      <4>1. contact'[touch[g].device] = contact[touch[g].device]
        BY <3>3 DEF BeginTouch
      <4> QED
        BY <2>4, <3>3, <4>1 DEF Contacted
    <3> QED
      BY <3>1, <3>2, <3>3
  <2> QED
    BY <2>1, <2>2, <2>5
<1>4. CallsLive'
  <2>1. ASSUME NEW g \in Handlers, NEW d \in Devices, JWTAuth(g, d)
        PROVE  \A h \in Handlers : call'[h] = call[h] \/ call'[h].live
    <3>1. PICK r : call' = [call EXCEPT ![g] = [pc |-> "admitted", staff |-> token[d].staff,
                                                live |-> clock < token[d].exp, request |-> r]]
      BY <2>1 DEF JWTAuth
    <3>2. call'[g].live
      BY <1>0, <2>1, <3>1 DEF JWTAuth, Valid, TypeOK
    <3> QED
      BY <1>0, <3>1, <3>2 DEF TypeOK
  <2>2. \A h \in Handlers : call'[h] = call[h] \/ call'[h] = Idle \/ call'[h].live
    BY <1>0, <2>1
    DEF Next, vars, Tick, ServerRestart, GenerateToken, Push, RegisterDevice,
        BeginTouch, WriteTouch, TouchFails, TypeOK
  <2> QED
    BY <2>2 DEF Inv, CallsLive
<1>5. LastSyncBacked'
  <2> SUFFICES ASSUME NEW d \in Devices, registry'[d].lastSync # Null
               PROVE  contact'[d] # Null /\ contact'[d] <= registry'[d].lastSync
    BY DEF LastSyncBacked
  <2>1. CASE registry'[d].lastSync = registry[d].lastSync
    BY <1>0, <2>1, ContactKept DEF Inv, LastSyncBacked
  <2>2. ASSUME NEW h \in Handlers, WriteTouch(h), registry'[d] # registry[d]
        PROVE  Contacted(d, registry'[d].lastSync)
    <3>1. d = touch[h].device /\ touch[h].pc = "begun"
      BY <1>0, <2>2 DEF WriteTouch, TypeOK
    <3>2. Known(d) /\ registry'[d] = Stamped(registry[d], touch[h].at)
      BY <1>0, <2>2, <3>1 DEF WriteTouch, TypeOK
    <3>3. registry'[d].lastSync = touch[h].at
      BY <1>0, <3>2 DEF Stamped, Known, TypeOK, DeviceRegistry
    <3> QED
      BY <3>1, <3>3 DEF Inv, TouchesBacked
  <2>3. ASSUME NEW h \in Handlers, RegisterDevice(h)
        PROVE  registry'[d].lastSync \in {registry[d].lastSync, Null}
    BY <1>0, <2>3 DEF RegisterDevice, Registered, TypeOK, DeviceRegistry, Unknown
  <2>4. CASE registry'[d].lastSync # registry[d].lastSync
    <3>1. PICK h \in Handlers : WriteTouch(h)
      BY <2>3, <2>4
      DEF Next, vars, Tick, ServerRestart, GenerateToken, JWTAuth, Push,
          BeginTouch, TouchFails
    <3>2. contact' = contact
      BY <3>1 DEF WriteTouch
    <3> QED
      BY <2>2, <2>4, <3>1, <3>2 DEF Contacted
  <2> QED
    BY <2>1, <2>4
<1> QED
  BY <1>0, <1>1, <1>3, <1>4, <1>5 DEF Inv

(* last_sync_at is set by a batch naming that device, admitted on a token    *)
(* that had not run out, and by nothing else, however late the goroutine,    *)
(* and however often devices register (Push, updateDeviceLastSync).          *)
THEOREM LastSyncAlwaysBacked == Spec => []LastSyncBacked
<1>1. Inv => LastSyncBacked
  BY DEF Inv
<1> QED
  BY InvInit, InvNext, <1>1, PTL DEF Spec

-----------------------------------------------------------------------------
\* What a step may do to the row of a known device.
LEMMA HistoryKept ==
    ASSUME TypeOK, [Next]_vars, NEW d \in Devices, Known(d)
    PROVE  /\ registry'[d].registeredAt = registry[d].registeredAt
           /\ registry[d].lastSync # Null => registry'[d].lastSync # Null
           /\ registry'[d].staff # registry[d].staff => registry'[d].lastSync = registry[d].lastSync
<1> DEFINE Kept ==
       /\ registry'[d].registeredAt = registry[d].registeredAt
       /\ registry[d].lastSync # Null => registry'[d].lastSync # Null
       /\ registry'[d].staff # registry[d].staff => registry'[d].lastSync = registry[d].lastSync
<1>1. ASSUME NEW h \in Handlers, WriteTouch(h) PROVE Kept
  <2>1. touch[h] # NoTouch /\ touch[h].at # Null
    BY <1>1, TouchTyped DEF WriteTouch, NoTouch, Times, Null
  <2>2. registry'[d] \in {registry[d], Stamped(registry[d], touch[h].at)}
    BY <1>1 DEF WriteTouch
  <2> QED
    BY <2>1, <2>2 DEF Stamped, Known, TypeOK, DeviceRegistry
<1>2. ASSUME NEW h \in Handlers, RegisterDevice(h) PROVE Kept
  <2>1. registry'[d] \in {registry[d], Registered(registry[d], call[h].staff)}
    BY <1>2 DEF RegisterDevice, TypeOK
  <2> QED
    BY <2>1 DEF Registered, Known, TypeOK, DeviceRegistry
<1>3. CASE registry' = registry
  BY <1>3
<1> QED
  BY <1>1, <1>2, <1>3
  DEF Next, vars, Tick, ServerRestart, GenerateToken, JWTAuth, Push, BeginTouch, TouchFails

(* No step takes a registered device's first registration or the fact of its *)
(* contact away, or changes its staff and its time at once (RegisterDevice). *)
THEOREM HistoryAlwaysKept == Spec => RegistrationKeepsHistory
<1> DEFINE Kept ==
       \A d \in Devices : Known(d) =>
          /\ registry'[d].registeredAt = registry[d].registeredAt
          /\ registry[d].lastSync # Null => registry'[d].lastSync # Null
          /\ registry'[d].staff # registry[d].staff => registry'[d].lastSync = registry[d].lastSync
<1>1. TypeOK /\ [Next]_vars => [Kept]_vars
  BY HistoryKept
<1> QED
  BY TypeCorrect, <1>1, PTL DEF Spec, RegistrationKeepsHistory
=============================================================================
