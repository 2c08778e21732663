---------------------------- MODULE OtaRegistry ----------------------------
(***************************************************************************)
(* The registry of OTA transports (src/OTA/ota_transport.c).  Registering  *)
(* and unregistering take the mutex; looking a transport up and collecting *)
(* the available ones do not, and read the table while it is changed.      *)
(*                                                                         *)
(* transports[count++] = ops leaves the order of its two writes to the     *)
(* compiler.  A lookup reads an entry twice: to compare its source and to  *)
(* answer it.  The first registration, which makes the mutex, is done by   *)
(* Main before any other thread calls.                                     *)
(*                                                                         *)
(* History: registered is what was accepted and not removed since; each    *)
(* call remembers whether its source was there from the start (known) and  *)
(* whether anything was removed meanwhile (shifted).                       *)
(***************************************************************************)
EXTENDS Integers, FiniteSets

CONSTANTS
  Threads,       \* threads that use the registry
  Main,          \* the one that registers first
  Sources,       \* OTA sources of the transports
  Nothing,       \* NULL
  MaxTransports, \* MAX_OTA_TRANSPORTS
  MaxRegistered  \* bound: transports registered, ever

VARIABLES
  initialized,
  transports, count, \* transport_registry
  holder,            \* who has its mutex
  call,              \* what each thread is in the middle of
  registered, total  \* history

table == <<transports, count>>
vars == <<initialized, table, holder, call, registered, total>>

Entries == 0 .. MaxTransports - 1
Idle == [op |-> "none", src |-> Nothing, at |-> "idle", i |-> 0,
         ans |-> Nothing, known |-> FALSE, shifted |-> FALSE]

Enter(t, op, s, at) ==
  /\ call[t].at \in {"idle", "back"}
  /\ call' = [call EXCEPT ![t] = [Idle EXCEPT !.op = op, !.src = s, !.at = at,
                         !.known = s \in registered,
                         !.shifted = holder # Nothing /\ call[holder].op = "unregister"]]
At(t, op, at) == call[t].op = op /\ call[t].at = at
Goes(t, at) == call' = [call EXCEPT ![t].at = at]
Answers(t, a) == call' = [call EXCEPT ![t].at = "back", ![t].ans = a]
Returns(t) == call' = [call EXCEPT ![t] = Idle]
Index(s) == {i \in Entries : i < count /\ transports[i] = s}

-----------------------------------------------------------------------------
(* ota_transport_register().                                               *)

Register(t, s) ==
  /\ initialized \/ t = Main
  /\ total + Cardinality({u \in Threads \ {t} : call[u].op = "register"}) < MaxRegistered
  /\ Enter(t, "register", s, IF initialized THEN "lock" ELSE "init")
  /\ UNCHANGED <<initialized, table, holder, registered, total>>

InitRegistry(t) ==
  /\ At(t, "register", "init") /\ Goes(t, "lock")
  /\ initialized' = TRUE /\ transports' = [i \in Entries |-> Nothing] /\ count' = 0
  /\ UNCHANGED <<holder, registered, total>>

\* A source that is there, or a full table, is refused.
Known(s) == Index(s) # {}
RegisterCheck(t) ==
  /\ At(t, "register", "lock") /\ holder = Nothing
  /\ IF Known(call[t].src) \/ count >= MaxTransports
     THEN Returns(t) /\ UNCHANGED holder
     ELSE /\ holder' = t
          /\ \E first \in {"store", "count"} : Goes(t, first)
  /\ UNCHANGED <<initialized, table, registered, total>>

\* The entry before the count, or the count before the entry.
Registered(t) ==
  /\ holder' = Nothing /\ Returns(t)
  /\ registered' = registered \union {call[t].src} /\ total' = total + 1
Store(t) ==
  /\ \/ /\ At(t, "register", "store") /\ Goes(t, "count after")
        /\ transports' = [transports EXCEPT ![count] = call[t].src]
        /\ UNCHANGED <<holder, registered, total>>
     \/ /\ At(t, "register", "store after") /\ Registered(t)
        /\ transports' = [transports EXCEPT ![count - 1] = call[t].src]
  /\ UNCHANGED <<initialized, count>>
Count(t) ==
  /\ \/ /\ At(t, "register", "count") /\ Goes(t, "store after")
        /\ UNCHANGED <<holder, registered, total>>
     \/ At(t, "register", "count after") /\ Registered(t)
  /\ count' = count + 1 /\ UNCHANGED <<initialized, transports>>

-----------------------------------------------------------------------------
(* ota_transport_unregister(): the entries after it move down one by one.  *)

Unregister(t, s) ==
  /\ initialized /\ Enter(t, "unregister", s, "lock")
  /\ UNCHANGED <<initialized, table, holder, registered, total>>

UnregisterFind(t) ==
  /\ At(t, "unregister", "lock") /\ holder = Nothing
  /\ IF Index(call[t].src) = {}
     THEN Returns(t) /\ UNCHANGED <<holder, registered>>
     ELSE /\ holder' = t /\ registered' = registered \ {call[t].src}
          /\ call' = [u \in Threads |->
               IF u # t THEN [call[u] EXCEPT !.shifted = TRUE]
               ELSE [call[t] EXCEPT !.at = "shift",
                       !.i = CHOOSE i \in Index(call[t].src) : TRUE]]
  /\ UNCHANGED <<initialized, table, total>>

Shift(t) ==
  /\ At(t, "unregister", "shift")
  /\ IF call[t].i < count - 1
     THEN /\ transports' = [transports EXCEPT ![call[t].i] = transports[call[t].i + 1]]
          /\ call' = [call EXCEPT ![t].i = @ + 1] /\ UNCHANGED <<count, holder>>
     ELSE /\ count' = count - 1 /\ holder' = Nothing /\ Returns(t)
          /\ UNCHANGED transports
  /\ UNCHANGED <<initialized, registered, total>>

-----------------------------------------------------------------------------
(* ota_transport_get(), ota_transport_get_available(): no mutex.           *)

Get(t, s) ==
  /\ initialized /\ Enter(t, "get", s, "compare")
  /\ UNCHANGED <<initialized, table, holder, registered, total>>

\* An entry that is counted and not stored yet is read through NULL.
LastSeen(i) == i >= count
GetCompare(t) ==
  LET i == call[t].i
  IN /\ At(t, "get", "compare")
     /\ IF LastSeen(i) THEN Answers(t, Nothing)
        ELSE IF transports[i] = Nothing THEN Goes(t, "fault")
        ELSE IF transports[i] = call[t].src THEN Goes(t, "take")
        ELSE call' = [call EXCEPT ![t].i = @ + 1]
     /\ UNCHANGED <<initialized, table, holder, registered, total>>
GetTake(t) ==
  /\ At(t, "get", "take") /\ Answers(t, transports[call[t].i])
  /\ UNCHANGED <<initialized, table, holder, registered, total>>

\* Collecting: NULL is looked for here.  src is the transport that has its
\* device there, ans whether it was asked.
GetAvailable(t, s) ==
  /\ initialized /\ Enter(t, "available", s, "collect")
  /\ UNCHANGED <<initialized, table, holder, registered, total>>
Collect(t) ==
  LET i == call[t].i
  IN /\ At(t, "available", "collect")
     /\ IF i >= count THEN Goes(t, "back")
        ELSE call' = [call EXCEPT ![t].i = @ + 1,
               ![t].ans = IF transports[i] = call[t].src THEN call[t].src ELSE @]
     /\ UNCHANGED <<initialized, table, holder, registered, total>>

-----------------------------------------------------------------------------
Init ==
  /\ initialized = FALSE /\ holder = Nothing
  /\ transports = [i \in Entries |-> Nothing] /\ count = 0
  /\ call = [t \in Threads |-> Idle] /\ registered = {} /\ total = 0

Next ==
  \E t \in Threads :
    \/ \E s \in Sources : Register(t, s) \/ Unregister(t, s) \/ Get(t, s) \/ GetAvailable(t, s)
    \/ InitRegistry(t) \/ RegisterCheck(t) \/ Store(t) \/ Count(t)
    \/ UnregisterFind(t) \/ Shift(t) \/ GetCompare(t) \/ GetTake(t) \/ Collect(t)

Spec == Init /\ [][Next]_vars

-----------------------------------------------------------------------------
(* Properties.                                                             *)

\* The variables keep their types.
TypeOK ==
  /\ transports \in [Entries -> Sources \union {Nothing}] /\ count \in 0 .. MaxTransports
  /\ holder \in Threads \union {Nothing} /\ registered \subseteq Sources

\* Whenever the mutex is free the table holds each transport that was
\* accepted and not removed since, once; and a lookup, or a collection, that
\* came back and during which nothing was removed has found the transport it
\* was after if that was there when it began, whatever was registered beside.
RegistrySound ==
  /\ holder = Nothing =>
       /\ {transports[i] : i \in {j \in Entries : j < count}} = registered
       /\ Cardinality(registered) = count
  /\ \A t \in Threads : LET c == call[t] IN
       (c.op \in {"get", "available"} /\ c.at = "back" /\ ~c.shifted /\ c.known) => c.ans = c.src
=============================================================================
