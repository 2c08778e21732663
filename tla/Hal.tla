-------------------------------- MODULE Hal --------------------------------
(***************************************************************************)
(* Handles and drivers of the hardware.                                    *)
(*                                                                         *)
(* The handles of src/akira/hal/hal.c: GPIO pins with their interrupt      *)
(* callbacks, SPI and I2C devices.  A handle is a block of the heap; the   *)
(* callback node of a GPIO handle lies inside it and is linked into the    *)
(* port's list, which akira_hal_gpio_close() does not take it out of.      *)
(*                                                                         *)
(* One thread calls the layer, interrupts come between any two of its      *)
(* steps.  Zephyr's drivers are external: adding a callback that is in the *)
(* list moves it to the front, an interrupt of a pin calls the handler of  *)
(* that pin's nodes, disconnecting a pin may or may not end its            *)
(* interrupts, and the speed is one for the whole I2C bus.  After a block  *)
(* that is in the list was freed whoever follows the list may do anything  *)
(* (dangling), and the model has nobody follow it any more.                *)
(*                                                                         *)
(* The n-th akira_hal_gpio_set_interrupt() brings callback n, or NULL (0), *)
(* with user data n.  History: again has the handles whose callback was    *)
(* set anew while their pin could interrupt.                               *)
(*                                                                         *)
(* The driver registry, src/drivers/driver_registry.c: every operation     *)
(* works under registry.mutex, so it is one step; but what a search        *)
(* returns is the address of an entry of the table, which its caller uses  *)
(* after the unlock, and driver_registry_unregister() moves the entries    *)
(* after the one it takes out.  Nothing sets desc->initialized, so         *)
(* unregistering calls no deinit().  History: held has of each caller the  *)
(* driver it asked for and whether an entry up to the one it was given was *)
(* taken out since.                                                        *)
(***************************************************************************)
EXTENDS Integers, FiniteSets, Sequences, SequencesExt

CONSTANTS
  Blocks,   \* what the heap has room for
  NoBlock,  \* NULL
  Pins,     \* pins of one port
  Speeds,   \* of an I2C bus
  MaxSets, MaxFaults, \* bounds: interrupts set; calls of a driver that fail
  Callers,  \* of the driver registry
  Names, Types, NoName, \* of drivers
  MaxDrivers \* MAX_DRIVERS

VARIABLES
  heap,     \* what each block is used for
  list,     \* callbacks of the port
  enabled,  \* pins that interrupt
  speed,    \* of the I2C bus
  call,     \* the call under way
  called,   \* what the last interrupt called: handle, callback and data
  sets, faults,
  dangling, again, \* history
  ready,    \* registry.initialized
  drivers,  \* registry.drivers[0 .. registry.count - 1]
  held      \* what each caller was given: an index, 0 for NULL

handleVars == <<heap, list, enabled, speed, call, called, sets, faults, dangling, again>>
driverVars == <<ready, drivers, held>>
vars == <<handleVars, driverVars>>
gpios == <<list, enabled, called, sets, dangling, again>>

Free == [kind |-> "free", pin |-> 0, cb |-> 0, data |-> 0, speed |-> 0]
Idle == [at |-> "idle", h |-> NoBlock]
At(at) == call.at = at
Goes(at) == call' = [call EXCEPT !.at = at]
Open(h, kind) == h \in Blocks /\ heap[h].kind = kind
Allocated(h, rec) == heap[h] = Free /\ heap' = [heap EXCEPT ![h] = rec]
Freed(h) == heap' = [heap EXCEPT ![h] = Free]

-----------------------------------------------------------------------------
(* GPIO.                                                                   *)

GpioOpen(h, p) ==
  /\ At("idle") /\ Allocated(h, [Free EXCEPT !.kind = "gpio", !.pin = p])
  /\ call' = [at |-> "configure", h |-> h]
  /\ UNCHANGED <<gpios, speed, faults>>

GpioConfigure ==
  /\ At("configure") /\ call' = Idle
  /\ \/ UNCHANGED <<heap, faults>>
     \/ faults < MaxFaults /\ faults' = faults + 1 /\ Freed(call.h)
  /\ UNCHANGED <<gpios, speed>>

\* The pin is disconnected; the node in the port's list stays.
GpioClose(h) ==
  /\ At("idle") /\ Open(h, "gpio") /\ Freed(h)
  /\ enabled' \in {enabled, enabled \ {heap[h].pin}}
  /\ dangling' = (dangling \/ Contains(list, h)) /\ again' = again \ {h}
  /\ UNCHANGED <<list, speed, call, called, sets, faults>>

\* akira_hal_gpio_set_interrupt(): callback, data, node and pin, in this order.
SetInterrupt(h) ==
  /\ At("idle") /\ Open(h, "gpio") /\ sets < MaxSets /\ sets' = sets + 1
  /\ \E cb \in {0, sets + 1} : heap' = [heap EXCEPT ![h].cb = cb]
  /\ call' = [at |-> "data", h |-> h]
  /\ again' = IF Contains(list, h) /\ heap[h].pin \in enabled THEN again \union {h} ELSE again
  /\ UNCHANGED <<list, enabled, speed, called, faults, dangling>>
SetData ==
  /\ At("data") /\ heap' = [heap EXCEPT ![call.h].data = sets]
  /\ call' \in {Idle} \union [at : {"add", "disable"}, h : {call.h}] \* Idle: no such trigger
  /\ UNCHANGED <<gpios, speed, faults>>
DisableInterrupt ==
  /\ At("disable") /\ call' = Idle
  /\ \/ enabled' = enabled \ {heap[call.h].pin} /\ UNCHANGED faults
     \/ faults < MaxFaults /\ faults' = faults + 1 /\ UNCHANGED enabled
  /\ UNCHANGED <<heap, list, speed, called, sets, dangling, again>>

Added(h) == <<h>> \o RemoveFirst(list, h)
AddCallback ==
  /\ At("add") /\ Goes("enable")
  /\ list' = IF dangling THEN list ELSE Added(call.h)
  /\ UNCHANGED <<heap, enabled, speed, called, sets, faults, dangling, again>>
EnableInterrupt ==
  /\ At("enable") /\ call' = Idle
  /\ \/ enabled' = enabled \union {heap[call.h].pin} /\ UNCHANGED faults
     \/ faults < MaxFaults /\ faults' = faults + 1 /\ UNCHANGED enabled
  /\ UNCHANGED <<heap, list, speed, called, sets, dangling, again>>

\* gpio_interrupt_handler(), for each node of the pin with a callback.
Interrupt(p) ==
  /\ p \in enabled /\ ~dangling
  /\ called' = {[h |-> h, cb |-> heap[h].cb, data |-> heap[h].data] :
                  h \in {b \in ToSet(list) : heap[b].pin = p /\ heap[b].cb # 0}}
  /\ UNCHANGED <<heap, list, enabled, speed, call, sets, faults, dangling, again>>

-----------------------------------------------------------------------------
(* SPI and I2C.                                                            *)

SpiOpen(h) ==
  /\ At("idle") /\ Allocated(h, [Free EXCEPT !.kind = "spi"])
  /\ UNCHANGED <<gpios, speed, call, faults>>
SpiClose(h) ==
  /\ At("idle") /\ Open(h, "spi") /\ Freed(h) /\ UNCHANGED <<gpios, speed, call, faults>>

\* The bus takes the speed of whoever was opened last, or keeps its own: what
\* i2c_configure() answers is not looked at.
I2cOpen(h, s) ==
  /\ At("idle") /\ Allocated(h, [Free EXCEPT !.kind = "i2c", !.speed = s])
  /\ \/ speed' = s /\ UNCHANGED faults
     \/ faults < MaxFaults /\ faults' = faults + 1 /\ UNCHANGED speed
  /\ UNCHANGED <<gpios, call>>
I2cClose(h) ==
  /\ At("idle") /\ Open(h, "i2c") /\ Freed(h) /\ UNCHANGED <<gpios, speed, call, faults>>

\* akira_hal_i2c_write_reg() has a buffer of its own, whatever the bus answers.
I2cWriteReg(h, b) ==
  /\ At("idle") /\ Open(h, "i2c") /\ Allocated(b, [Free EXCEPT !.kind = "buffer"])
  /\ call' = [at |-> "write", h |-> b] /\ UNCHANGED <<gpios, speed, faults>>
I2cWritten ==
  /\ At("write") /\ Freed(call.h) /\ call' = Idle /\ UNCHANGED <<gpios, speed, faults>>

-----------------------------------------------------------------------------
(* The driver registry.  Every call but the first waits for                *)
(* driver_registry_init(), and a second one of that does nothing.          *)

Nothing == [at |-> 0, name |-> NoName, moved |-> FALSE]
Entry(name) == SelectInSeq(drivers, LAMBDA d : d.name = name)
ByType(type) == SelectInSeq(drivers, LAMBDA d : d.type = type)

InitRegistry ==
  /\ ~ready /\ ready' = TRUE /\ drivers' = <<>> /\ UNCHANGED held

FullBug == Len(drivers) > MaxDrivers  \* mutation: one too many
Full == Len(drivers) >= MaxDrivers

Registered(name) == Entry(name) # 0
Register(name, type) ==
  /\ ready /\ ~Registered(name) /\ ~Full
  /\ drivers' = Append(drivers, [name |-> name, type |-> type])
  /\ UNCHANGED <<ready, held>>

Unregister(name) ==
  /\ ready /\ Entry(name) # 0
  /\ drivers' = RemoveAt(drivers, Entry(name)) /\ UNCHANGED ready
  /\ held' = [c \in Callers |-> [held[c] EXCEPT !.moved = @ \/ Entry(name) <= held[c].at]]

Given(c, i) ==
  /\ held' = [held EXCEPT ![c] =
       IF ~ready \/ i = 0 THEN Nothing
       ELSE [at |-> i, name |-> drivers[i].name, moved |-> FALSE]]
  /\ UNCHANGED <<ready, drivers>>
Get(c, name) == Given(c, Entry(name))
GetByType(c, type) == Given(c, ByType(type))

\* driver_registry_list(), the entries whose names it fills in: those of the
\* type, of any when <<>>, that fewer than max come before.
OfType(types) == {i \in 1 .. Len(drivers) : types = <<>> \/ types = <<drivers[i].type>>}
Listed(types, max) ==
  {i \in OfType(types) : Cardinality({j \in OfType(types) : j < i}) < max}

-----------------------------------------------------------------------------
HandlesInit ==
  /\ heap = [b \in Blocks |-> Free] /\ list = <<>> /\ enabled = {} /\ speed \in Speeds
  /\ call = Idle /\ called = {} /\ sets = 0 /\ faults = 0 /\ dangling = FALSE /\ again = {}
DriversInit == ready = FALSE /\ drivers = <<>> /\ held = [c \in Callers |-> Nothing]
Init == HandlesInit /\ DriversInit

HandlesNext ==
  /\ \/ \E h \in Blocks :
          \/ \E p \in Pins : GpioOpen(h, p)
          \/ GpioClose(h) \/ SetInterrupt(h) \/ SpiOpen(h) \/ SpiClose(h)
          \/ \E s \in Speeds : I2cOpen(h, s)
          \/ I2cClose(h) \/ \E b \in Blocks : I2cWriteReg(h, b)
     \/ GpioConfigure \/ SetData \/ DisableInterrupt
     \/ AddCallback \/ EnableInterrupt \/ I2cWritten
     \/ \E p \in Pins : Interrupt(p)
  /\ UNCHANGED driverVars

DriversNext ==
  /\ \/ InitRegistry
     \/ \E n \in Names : Unregister(n) \/ \E ty \in Types : Register(n, ty)
     \/ \E c \in Callers : (\E n \in Names : Get(c, n)) \/ \E ty \in Types : GetByType(c, ty)
  /\ UNCHANGED handleVars

Next == HandlesNext \/ DriversNext

Spec == Init /\ [][Next]_vars

-----------------------------------------------------------------------------
(* Properties.                                                             *)

\* The variables keep their types.
TypeOK ==
  /\ enabled \subseteq Pins /\ ToSet(list) \subseteq Blocks /\ speed \in Speeds
  /\ \A b \in Blocks : heap[b].kind \in {"free", "gpio", "spi", "i2c", "buffer"}
  /\ drivers \in SeqOf([name : Names, type : Types], MaxDrivers)

\* As long as no handle with a node in the port's list was closed: the list
\* has each node once, and only of GPIO handles that are open; whoever an
\* interrupt called was called with a callback and the data set with it,
\* unless that handle's callback was set anew while its pin interrupted; and
\* no buffer is left behind.
HandlesSound ==
  /\ ~dangling =>
       /\ IsInjective(list) /\ \A h \in ToSet(list) : Open(h, "gpio")
       /\ \A c \in called : (Open(c.h, "gpio") /\ c.h \notin again) => c.cb = c.data
  /\ At("idle") => \A b \in Blocks : heap[b].kind # "buffer"

\* A caller's address leads to the driver it asked for until one registered
\* no later than that is unregistered, a name is registered once, and every
\* driver is in the list of its type and in that of all.
DriversSound ==
  /\ \A i, j \in 1 .. Len(drivers) : drivers[i].name = drivers[j].name => i = j
  /\ \A c \in Callers : (held[c].at # 0 /\ ~held[c].moved) =>
       held[c].at <= Len(drivers) /\ drivers[held[c].at].name = held[c].name
  /\ \A i \in 1 .. Len(drivers) :
       i \in Listed(<<drivers[i].type>>, MaxDrivers) /\ i \in Listed(<<>>, MaxDrivers)
=============================================================================
