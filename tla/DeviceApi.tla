----------------------------- MODULE DeviceApi -----------------------------
(***************************************************************************)
(* The way of a request into the server: the token check in front of every *)
(* route (auth.go), registration of a device, the bounds Push puts on a    *)
(* batch, and the goroutine that notes the time of the push without        *)
(* anybody waiting for it (sync_handler.go:77).  What Push does with the   *)
(* rows of the batch is in SyncServer and Replication.                     *)
(*                                                                         *)
(* The server keeps no session: a token is good until it expires.  The     *)
(* routes that read (GetStatus, GetSyncHealth) answer with a row of        *)
(* `registry' and change nothing.  Nothing reads the claims' device, the   *)
(* columns last_sync_seq and is_active, or Role.HasPermission.             *)
(***************************************************************************)
EXTENDS Integers, FiniteSets

CONSTANTS
    Devices,     \* device ids
    Staff,       \* staff ids a token may name
    Employed,    \* those of them with a row in `staff'
    LogsIn,      \* by device, the staff whose tokens it may store
    Handlers,    \* bound: requests (with what they leave running) at a time
    TokenLife,   \* GenerateToken: 24 hours
    MaxTime,     \* bound on the clock
    MaxFaults    \* bound on restarts and failing statements

ASSUME DevicesAssumption == Employed \subseteq Staff /\ LogsIn \in [Devices -> SUBSET Staff]
ASSUME TimeAssumption == TokenLife \in Nat \ {0} /\ MaxTime \in Nat \ {0} /\ MaxFaults \in Nat

VARIABLES
    clock,
    token,       \* by device, the token it has stored, if any
    call,        \* by handler, the request past the token check
    touch,       \* by handler, the goroutine of its push
    registry,    \* device_registry
    faults,
    contact      \* history: when a batch naming the device was first taken

vars == <<clock, token, call, touch, registry, faults, contact>>

Null == 0                    \* no time; the clock starts at 1
Times == 1..MaxTime

NoToken == [staff |-> "nobody", exp |-> Null]
Token == [staff : Staff, exp : 1..(MaxTime + TokenLife)]

\* A batch of 1 to 500 items, or an empty, an oversized or an unreadable one.
Sizes == {"within", "outside"}
Request == [route : {"push"}, device : Devices, size : Sizes]
              \cup [route : {"register"}, device : Devices]

Idle == [pc |-> "idle"]
\* `live' is history: the token had not run out when it was checked.
Call == {Idle} \cup [pc : {"admitted"}, staff : Staff, live : BOOLEAN, request : Request]

NoTouch == [pc |-> "none"]
Touch == {NoTouch}
            \cup [pc : {"spawned"}, device : Devices]
            \cup [pc : {"begun"}, device : Devices, at : Times]

Unknown == [staff |-> "nobody", registeredAt |-> Null, lastSync |-> Null]
DeviceRegistry == [staff : Employed, registeredAt : Times, lastSync : Times \cup {Null}]

Known(d) == registry[d] # Unknown

Init ==
    /\ clock = 1
    /\ token = [d \in Devices |-> NoToken]
    /\ call = [h \in Handlers |-> Idle]
    /\ touch = [h \in Handlers |-> NoTouch]
    /\ registry = [d \in Devices |-> Unknown]
    /\ faults = 0
    /\ contact = [d \in Devices |-> Null]

Tick ==
    /\ clock < MaxTime
    /\ clock' = clock + 1
    /\ UNCHANGED <<token, call, touch, registry, faults, contact>>

-----------------------------------------------------------------------------
\* A login, for which this commit has no route, stores a token.
GenerateToken(d, s) ==
    /\ s \in LogsIn[d]
    /\ token' = [token EXCEPT ![d] = [staff |-> s, exp |-> clock + TokenLife]]
    /\ UNCHANGED <<clock, call, touch, registry, faults, contact>>

Valid(t) == t # NoToken /\ clock < t.exp

\* JWTAuth.  A request without a valid token is answered 401 and goes no further.
\* The device a request is about is the one its body names, whichever device's
\* token came with it.
JWTAuth(h, d) ==
    /\ call[h] = Idle /\ touch[h] = NoTouch
    /\ Valid(token[d])
    /\ \E r \in Request :
          call' = [call EXCEPT ![h] = [pc |-> "admitted", staff |-> token[d].staff,
                                       live |-> clock < token[d].exp, request |-> r]]
    /\ UNCHANGED <<clock, token, touch, registry, faults, contact>>

Serves(h, route) == call[h] # Idle /\ call[h].request.route = route

-----------------------------------------------------------------------------
(* Push *)

\* Slip of Noted: the goroutine is started before the bounds are looked at.
NotedFirst(size) == TRUE

\* An empty batch is answered 200, an oversized or unreadable one 400, at once.
Noted(size) == size = "within"

Push(h) ==
    /\ Serves(h, "push")
    /\ LET r == call[h].request
           taken == r.size = "within" IN
       /\ touch' = IF Noted(r.size)
                   THEN [touch EXCEPT ![h] = [pc |-> "spawned", device |-> r.device]]
                   ELSE touch
       /\ contact' = IF taken /\ call[h].live /\ contact[r.device] = Null
                     THEN [contact EXCEPT ![r.device] = clock]
                     ELSE contact
    /\ call' = [call EXCEPT ![h] = Idle]
    /\ UNCHANGED <<clock, token, registry, faults>>

\* updateDeviceLastSync: the statement's NOW() is that of its start, the row
\* is written when its lock is free.
BeginTouch(h) ==
    /\ touch[h].pc = "spawned"
    /\ touch' = [touch EXCEPT ![h] = [pc |-> "begun", device |-> @.device, at |-> clock]]
    /\ UNCHANGED <<clock, token, call, registry, faults, contact>>

\* Slip of Stamped: AND last_sync_at < NOW(), which no NULL satisfies.
StampedForward(row, now) ==
    IF row.lastSync # Null /\ row.lastSync < now THEN [row EXCEPT !.lastSync = now] ELSE row

Stamped(row, now) == [row EXCEPT !.lastSync = now]

\* A device that is not registered has no row to write.
WriteTouch(h) ==
    /\ touch[h].pc = "begun"
    /\ registry' = [d \in Devices |-> IF d = touch[h].device /\ Known(d)
                                      THEN Stamped(registry[d], touch[h].at)
                                      ELSE registry[d]]
    /\ touch' = [touch EXCEPT ![h] = NoTouch]
    /\ UNCHANGED <<clock, token, call, faults, contact>>

\* The result of Exec is thrown away.
TouchFails(h) ==
    /\ touch[h] # NoTouch
    /\ faults < MaxFaults
    /\ touch' = [touch EXCEPT ![h] = NoTouch]
    /\ faults' = faults + 1
    /\ UNCHANGED <<clock, token, call, registry, contact>>

-----------------------------------------------------------------------------
(* RegisterDevice *)

\* Slip of Registered: the row is replaced, as by INSERT OR REPLACE.
RegisteredAnew(row, s) == [staff |-> s, registeredAt |-> clock, lastSync |-> Null]

\* ON CONFLICT DO UPDATE leaves registered_at and last_sync_at alone.
Registered(row, s) ==
    IF row = Unknown THEN [staff |-> s, registeredAt |-> clock, lastSync |-> Null]
                     ELSE [row EXCEPT !.staff = s]

\* Slip of Accepted: no foreign key.
AcceptedAny(s) == TRUE

\* The foreign key refuses a token's staff that is in no row of `staff'.
Accepted(s) == s \in Employed

RegisterDevice(h) ==
    /\ Serves(h, "register")
    /\ LET d == call[h].request.device
           s == call[h].staff IN
       \/ /\ Accepted(s)
          /\ registry' = [registry EXCEPT ![d] = Registered(@, s)]
          /\ UNCHANGED faults
       \/ /\ ~Accepted(s)
          /\ UNCHANGED <<registry, faults>>
       \/ /\ faults < MaxFaults
          /\ faults' = faults + 1
          /\ UNCHANGED registry
    /\ call' = [call EXCEPT ![h] = Idle]
    /\ UNCHANGED <<clock, token, touch, contact>>

\* Shutdown waits for the requests, not for the goroutines they started; a
\* kill waits for neither.
ServerRestart ==
    /\ faults < MaxFaults
    /\ faults' = faults + 1
    /\ call' = [h \in Handlers |-> Idle]
    /\ touch' = [h \in Handlers |-> NoTouch]
    /\ UNCHANGED <<clock, token, registry, contact>>

-----------------------------------------------------------------------------
Next ==
    \/ Tick \/ ServerRestart
    \/ \E d \in Devices, s \in Staff : GenerateToken(d, s)
    \/ \E h \in Handlers :
          \/ \E d \in Devices : JWTAuth(h, d)
          \/ Push(h) \/ RegisterDevice(h)
          \/ BeginTouch(h) \/ WriteTouch(h) \/ TouchFails(h)

Spec == Init /\ [][Next]_vars

\* The runtime schedules a goroutine that was started; nobody has to log in,
\* register or push.
FairSpec == Spec /\ \A h \in Handlers : WF_vars(BeginTouch(h)) /\ WF_vars(WriteTouch(h))

-----------------------------------------------------------------------------
TypeOK ==
    /\ clock \in Times
    /\ token \in [Devices -> Token \cup {NoToken}]
    /\ call \in [Handlers -> Call]
    /\ touch \in [Handlers -> Touch]
    /\ registry \in [Devices -> DeviceRegistry \cup {Unknown}]
    /\ faults \in 0..MaxFaults
    /\ contact \in [Devices -> Times \cup {Null}]

\* last_sync_at is the time of contact and nothing else: whenever it is set, a
\* batch naming that device was taken no later, admitted on some token that had
\* not run out; a registration, an empty or oversized batch or the goroutine of
\* a batch that names another device, late as it may be, never sets it (Push,
\* updateDeviceLastSync).
LastSyncBacked ==
    \A d \in Devices : registry[d].lastSync # Null =>
       contact[d] # Null /\ contact[d] <= registry[d].lastSync

\* Registering again, also while a goroutine is about to write the row, may
\* change who answers for the device, never when it came and what is known of
\* its last contact (RegisterDevice's ON CONFLICT).
RegistrationKeepsHistory ==
    [][\A d \in Devices : Known(d) =>
          /\ registry'[d].registeredAt = registry[d].registeredAt
          /\ registry[d].lastSync # Null => registry'[d].lastSync # Null
          /\ registry'[d].staff # registry[d].staff => registry'[d].lastSync = registry[d].lastSync]_vars

\* A batch naming a registered device is noted at some time, although nobody waits
\* for the goroutine and others write the same row, unless the server restarts
\* or a statement fails.  (A goroutine that began earlier and writes later then
\* takes the column back to its own time.)
PushNoted ==
    \A d \in Devices, t \in Times :
       (Known(d) /\ clock = t /\ \E h \in Handlers : touch[h] = [pc |-> "spawned", device |-> d])
          ~> (registry[d].lastSync >= t \/ faults > 0)
=============================================================================
