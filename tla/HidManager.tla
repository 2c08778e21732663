----------------------------- MODULE HidManager -----------------------------
(***************************************************************************)
(* The HID manager (src/connectivity/hid/hid_manager.c) and its transports *)
(* (bluetooth/bt_hid.c, usb/usb_hid.c, hid/hid_sim.c).                     *)
(*                                                                         *)
(* Every call works under hid_mgr.mutex and sends the whole report, so it  *)
(* is one step, except hid_keyboard_type_string(), which makes four calls  *)
(* for a character and sleeps between them.  A transport sends only while  *)
(* its link is up and, but for the simulated one, it is enabled.  The link *)
(* comes and goes with the host.  hid_manager_deinit() has no caller: the  *)
(* manager stays initialized.                                              *)
(*                                                                         *)
(* A keyboard report is the sequence of its keys other than HID_KEY_NONE:  *)
(* raw reports are taken to have no holes and no key twice.  The gamepad   *)
(* is one value, 0 when neutral.                                           *)
(*                                                                         *)
(* History: seen is the last report of each device if it reached the host  *)
(* of the active transport, <<>> if not; down and shifting are the keys    *)
(* and modifiers each thread holds.                                        *)
(***************************************************************************)
EXTENDS Integers, Sequences, SequencesExt, SequenceTheorems, WellFoundedInduction, TLAPS

CONSTANTS
  Threads,
  Transports,    \* names; "sim" is the simulated one
  Preferred,     \* config.preferred_transport
  Keys,
  Chars,         \* what is typed: keys with 1 for shift
  MaxKeys,       \* HID_MAX_KEYS
  MaxTransports  \* MAX_HID_TRANSPORTS

CharsOK == Chars \subseteq Keys \X (0 .. 1) /\ MaxKeys \in Nat /\ MaxTransports \in Nat

VARIABLES
  enabled,     \* hid_mgr.state.enabled
  registered,  \* hid_mgr.transports
  active,      \* hid_mgr.active_transport, <<>> for none
  trans,       \* each transport's initialized, enabled and link
  keyboard,    \* hid_mgr.state.keyboard
  pad,         \* hid_mgr.state.gamepad
  typing,      \* hid_keyboard_type_string() of each thread
  seen, down, shifting

vars == <<enabled, registered, active, trans, keyboard, pad, typing,
          seen, down, shifting>>
manager == <<enabled, registered, active, trans>>

NoKeys == [keys |-> <<>>, mods |-> 0]
Unseen == [keyboard |-> <<>>, gamepad |-> <<>>]
NotTyping == [key |-> 0, shift |-> 0, step |-> 0]
Reports == {s \in SeqOf(Keys, MaxKeys) : IsInjective(s)}

-----------------------------------------------------------------------------
(* Sending.                                                                *)

BleSends(t) == t = "ble" /\ trans[t].enabled /\ trans[t].link
UsbSends(t) == t = "usb" /\ trans[t].enabled /\ trans[t].link
SimSends(t) == t = "sim" /\ trans[t].link
Sends(t) == BleSends(t) \/ UsbSends(t) \/ SimSends(t)

\* send_keyboard_report() and send_gamepad_report(): the whole report, or an error.
Send(device, report) ==
  \/ /\ active # <<>> /\ Sends(active[1])
     /\ seen' = [seen EXCEPT ![device] = <<report>>]
  \/ seen' = [seen EXCEPT ![device] = <<>>]
SendKeyboard(report) == keyboard' = report /\ Send("keyboard", report)

-----------------------------------------------------------------------------
(* The keyboard.                                                           *)

\* A key that finds no room is left out of the report, which is sent.
Press(t, k) ==
  /\ down' = [down EXCEPT ![t] = @ \cup {k}]
  /\ IF Contains(keyboard.keys, k) THEN UNCHANGED <<keyboard, seen>>
     ELSE SendKeyboard(IF Len(keyboard.keys) = MaxKeys THEN keyboard
                       ELSE [keyboard EXCEPT !.keys = Append(@, k)])

WithoutBug(keys, k) ==  \* mutation: the last key stays where it was
  [i \in 1 .. Len(keys) |->
    IF keys[i] = k /\ i < Len(keys) THEN keys[i + 1] ELSE keys[i]]
Without(keys, k) == RemoveFirst(keys, k)
Release(t, k) ==
  /\ down' = [down EXCEPT ![t] = @ \ {k}]
  /\ SendKeyboard([keyboard EXCEPT !.keys = Without(@, k)])

Shifts(t, m) == shifting' = IF m = 0 THEN shifting \ {t} ELSE shifting \cup {t}
SetModifiers(t, m) ==
  /\ Shifts(t, m)
  /\ SendKeyboard([keyboard EXCEPT !.mods = m])

Idle(t) == typing[t] = NotTyping
PressCall(t, k) == Idle(t) /\ Press(t, k) /\ UNCHANGED <<manager, pad, typing, shifting>>
ReleaseCall(t, k) == Idle(t) /\ Release(t, k) /\ UNCHANGED <<manager, pad, typing,
                                                             shifting>>
SetModifiersCall(t, m) ==
  Idle(t) /\ SetModifiers(t, m) /\ UNCHANGED <<manager, pad, typing, down>>
ReleaseAll(t) ==
  /\ Idle(t) /\ SendKeyboard(NoKeys)
  /\ UNCHANGED <<manager, pad, typing, down, shifting>>
SendReport(t, keys, m) ==
  /\ Idle(t) /\ SendKeyboard([keys |-> keys, mods |-> m])
  /\ down' = [down EXCEPT ![t] = ToSet(keys)] /\ Shifts(t, m)
  /\ UNCHANGED <<manager, pad, typing>>

\* hid_keyboard_type_string(), a character: modifier, press, release, no modifier.
TypeChar(t, c) ==
  /\ Idle(t) /\ typing' = [typing EXCEPT ![t] = [key |-> c[1], shift |-> c[2], step |-> 2 - c[2]]]
  /\ UNCHANGED <<manager, pad, keyboard, seen, down, shifting>>
TypeStep(t) ==
  LET c == typing[t]
      last == c.step = 3 + c.shift IN
  /\ c.step # 0
  /\ typing' = [typing EXCEPT ![t] = IF last THEN NotTyping ELSE [c EXCEPT !.step = @ + 1]]
  /\ \/ c.step = 1 /\ SetModifiers(t, 1) /\ UNCHANGED down
     \/ c.step = 2 /\ Press(t, c.key) /\ UNCHANGED shifting
     \/ c.step = 3 /\ Release(t, c.key) /\ UNCHANGED shifting
     \/ c.step = 4 /\ SetModifiers(t, 0) /\ UNCHANGED down
  /\ UNCHANGED <<manager, pad>>

\* The gamepad's press, release, axis, pad, report and reset: a value, and a send.
SetPad(t, v) ==
  /\ Idle(t) /\ pad' = v /\ Send("gamepad", v)
  /\ UNCHANGED <<manager, typing, keyboard, down, shifting>>

-----------------------------------------------------------------------------
(* Transports.                                                             *)

\* disable(): the simulated transport drops its link.
Disabled(t) == [trans EXCEPT ![t].enabled = FALSE, ![t].link = @ /\ t # "sim"]
ActiveDisabled == IF active # <<>> THEN Disabled(active[1]) ELSE trans

\* init(): the simulated transport starts anew.
Initialized(t) ==
  [trans EXCEPT ![t] = [initialized |-> TRUE, enabled |-> @.enabled /\ t # "sim",
                        link |-> @.link /\ t # "sim"]]

\* enable() of a transport: refused before init(); Bluetooth may then fail to advertise.
Enabled(tr, t) ==
  IF tr[t].initialized THEN [tr EXCEPT ![t].enabled = TRUE, ![t].link = @ \/ t = "sim"] ELSE tr

Choice ==
  IF Contains(registered, Preferred) THEN <<Preferred>>
  ELSE IF registered = <<>> THEN <<>> ELSE <<Head(registered)>>

\* hid_manager_enable(): init() may fail, and enable() of Bluetooth after it.
Enable(init_ok, enable_ok) ==
  /\ active' = Choice
  /\ seen' = Unseen
  /\ IF Choice = <<>>
     THEN UNCHANGED <<enabled, trans>>
     ELSE LET t == Choice[1] IN
          /\ t = "sim" => init_ok /\ enable_ok
          /\ trans' = IF init_ok THEN Enabled(Initialized(t), t) ELSE trans
          /\ enabled' = (enabled \/ (init_ok /\ enable_ok))
  /\ UNCHANGED <<registered, keyboard, pad, typing, down, shifting>>

Disable ==
  /\ trans' = ActiveDisabled /\ seen' = Unseen /\ enabled' = FALSE
  /\ UNCHANGED <<registered, active, keyboard, pad, typing, down, shifting>>

\* Whether the new transport could be enabled is not looked at.
SetTransport(t) ==
  /\ Contains(registered, t)
  /\ trans' = IF enabled THEN Enabled(ActiveDisabled, t) ELSE ActiveDisabled
  /\ active' = <<t>> /\ seen' = Unseen
  /\ UNCHANGED <<enabled, registered, keyboard, pad, typing, down, shifting>>

\* A transport's init function registers it, once.
Register(t) ==
  /\ Len(registered) < MaxTransports /\ ~Contains(registered, t)
  /\ registered' = Append(registered, t)
  /\ UNCHANGED <<enabled, active, trans, keyboard, pad, typing, seen, down, shifting>>

Forgotten(t) == IF active = <<t>> THEN <<>> ELSE active
Unregister(t) ==
  /\ Contains(registered, t) /\ registered' = RemoveFirst(registered, t)
  /\ active' = Forgotten(t) /\ seen' = IF active = <<t>> THEN Unseen ELSE seen
  /\ UNCHANGED <<enabled, trans, keyboard, pad, typing, down, shifting>>

-----------------------------------------------------------------------------
\* The link of a transport comes up, or goes down: its host releases all keys.
Linked(t, up) ==
  /\ trans' = [trans EXCEPT ![t].link = up]
  /\ seen' = IF active = <<t>> THEN Unseen ELSE seen
  /\ UNCHANGED <<enabled, registered, active, keyboard, pad, typing, down, shifting>>
HostLink(t) == t # "sim" /\ Linked(t, ~trans[t].link)
SimConnect(t) == t = "sim" /\ trans[t].enabled /\ Linked(t, TRUE)
SimDisconnect(t) == t = "sim" /\ Linked(t, FALSE)

Init ==
  /\ enabled = FALSE /\ registered = <<>> /\ active = <<>>
  /\ trans = [t \in Transports |-> [initialized |-> FALSE, enabled |-> FALSE, link |-> FALSE]]
  /\ keyboard = NoKeys /\ pad = 0
  /\ typing = [t \in Threads |-> NotTyping]
  /\ seen = Unseen
  /\ down = [t \in Threads |-> {}] /\ shifting = {}

Next ==
  \/ \E t \in Threads :
       \/ \E k \in Keys : PressCall(t, k) \/ ReleaseCall(t, k)
       \/ \E c \in Chars : TypeChar(t, c)
       \/ \E m \in 0 .. 1 : SetModifiersCall(t, m) \/ SetPad(t, m)
       \/ ReleaseAll(t) \/ TypeStep(t)
       \/ \E keys \in Reports, m \in 0 .. 1 : SendReport(t, keys, m)
  \/ \E a, b \in BOOLEAN : Enable(a, b)
  \/ Disable
  \/ \E t \in Transports : SetTransport(t) \/ Register(t) \/ Unregister(t)
                            \/ HostLink(t) \/ SimConnect(t) \/ SimDisconnect(t)

Spec == Init /\ [][Next]_vars

-----------------------------------------------------------------------------
(* Properties.                                                             *)

\* The reports and transports have their types, and a report its limit.
TypeOK ==
  /\ keyboard.keys \in Seq(Keys) /\ Len(keyboard.keys) <= MaxKeys
  /\ IsInjective(keyboard.keys) /\ keyboard.mods \in 0 .. 1 /\ pad \in 0 .. 1
  /\ registered \in Seq(Transports) /\ Len(registered) <= MaxTransports /\ Len(active) <= 1
  /\ \A t \in Threads : typing[t].step \in 0 .. 4

\* No key and no modifier stays in the report that nobody holds any more,
\* however press, release and typed characters of several threads mix.
NoStuckKeys ==
  /\ ToSet(keyboard.keys) \subseteq UNION {down[t] : t \in Threads}
  /\ keyboard.mods # 0 => shifting # {}

\* The active transport's host has the report the manager has, unless its last
\* report was lost, its link came up or it became active since.
HostInStep ==
  active # <<>> =>
    seen.keyboard \in {<<>>, <<keyboard>>} /\ seen.gamepad \in {<<>>, <<pad>>}

\* The active transport is registered: unregistering it leaves none active.
ActiveIsRegistered == active # <<>> => Contains(registered, active[1])

\* All three.
HidSound == NoStuckKeys /\ HostInStep /\ ActiveIsRegistered
-----------------------------------------------------------------------------
(* What is proved.                                                         *)

Report == [keys: {s \in Seq(Keys) : Len(s) <= MaxKeys /\ IsInjective(s)}, mods: 0 .. 1]
Maybe(S) == {<<>>} \cup {<<x>> : x \in S}
Typing == {c \in [key: Keys \cup {0}, shift: 0 .. 1, step: 0 .. 4] :
             /\ c.step # 0 => c.key \in Keys
             /\ c.step <= 3 + c.shift}

\* The inductive invariant: HidSound with what the variables may be.
Typed ==
  /\ keyboard \in Report /\ pad \in 0 .. 1
  /\ registered \in {s \in Seq(Transports) : Len(s) <= MaxTransports}
  /\ active \in Maybe(Transports)
  /\ typing \in [Threads -> Typing]
  /\ seen \in [keyboard: Maybe(Report), gamepad: Maybe(0 .. 1)]
  /\ down \in [Threads -> SUBSET Keys] /\ shifting \subseteq Threads
HidInv == Typed /\ HidSound

LessThan == {p \in Nat \X Nat : p[1] < p[2]}

\* The order on the naturals, without an operator parameter.
LEMMA LessThanWellFounded == IsWellFoundedOn(LessThan, Nat)
BY NatLessThanWellFounded DEF LessThan, OpToRel

\* RemoveFirst takes an occurrence out of a sequence that has one.
LEMMA RemovesOne ==
  ASSUME NEW S, NEW s \in Seq(S), NEW e, Contains(s, e)
  PROVE  \E i \in 1 .. Len(s) : s[i] = e /\ RemoveFirst(s, e) = RemoveAt(s, i)
<1> DEFINE I == {i \in 1 .. Len(s) : s[i] = e}
<1>1. I \subseteq Nat /\ I # {}
  BY DEF Contains
<1>2. PICK x \in I : \A y \in I : ~(<<y, x>> \in LessThan)
  BY <1>1, LessThanWellFounded, WFMin
<1>3. \A y \in I : x <= y
  <2> SUFFICES ASSUME NEW y \in I PROVE x <= y
    OBVIOUS
  <2>1. x \in Nat /\ y \in Nat /\ ~(y < x)
    BY <1>1, <1>2 DEF LessThan
  <2> QED
    BY <2>1
<1>4. Min(I) \in I
  BY <1>2, <1>3 DEF Min
<1>5. RemoveFirst(s, e) = RemoveAt(s, Min(I))
  BY <1>1 DEF RemoveFirst, SelectInSeq, Contains
<1> QED
  BY <1>4, <1>5

\* What is left of a sequence when the entry at i is taken out.
LEMMA RemovedAt ==
  ASSUME NEW S, NEW s \in Seq(S), NEW i \in 1 .. Len(s)
  PROVE  /\ RemoveAt(s, i) \in Seq(S) /\ Len(RemoveAt(s, i)) = Len(s) - 1
         /\ \A k \in 1 .. Len(s) - 1 :
              RemoveAt(s, i)[k] = IF k < i THEN s[k] ELSE s[k + 1]
<1> DEFINE a == SubSeq(s, 1, i - 1)
           b == SubSeq(s, i + 1, Len(s))
<1>1. Len(s) \in Nat /\ \A k \in 1 .. Len(s) : s[k] \in S
  OBVIOUS
<1>2. /\ a \in Seq(S) /\ Len(a) = i - 1
      /\ \A k \in 1 .. i - 1 : a[k] = s[k]
  <2>1. \A k \in 1 .. i - 1 : s[k] \in S
    BY <1>1
  <2> QED
    BY <1>1, <2>1, SubSeqProperties
<1>3. /\ b \in Seq(S) /\ Len(b) = Len(s) - i
      /\ \A k \in 1 .. Len(s) - i : b[k] = s[i + k]
  <2>1. \A k \in i + 1 .. Len(s) : s[k] \in S
    BY <1>1
  <2>2. /\ b \in Seq(S) /\ Len(b) = IF i + 1 <= Len(s) THEN Len(s) - (i + 1) + 1 ELSE 0
        /\ \A k \in 1 .. Len(s) - (i + 1) + 1 : b[k] = s[i + 1 + k - 1]
    BY <1>1, <2>1, SubSeqProperties
  <2> HIDE DEF b
  <2> QED
    BY <1>1, <2>2
<1> HIDE DEF a, b
<1>4. /\ a \o b \in Seq(S) /\ Len(a \o b) = Len(s) - 1
      /\ \A k \in 1 .. Len(s) - 1 :
           (a \o b)[k] = IF k <= i - 1 THEN a[k] ELSE b[k - (i - 1)]
  <2>1. /\ a \o b \in Seq(S) /\ Len(a \o b) = Len(a) + Len(b)
        /\ \A k \in 1 .. Len(a) + Len(b) :
             (a \o b)[k] = IF k <= Len(a) THEN a[k] ELSE b[k - Len(a)]
    BY <1>2, <1>3, ConcatProperties
  <2>2. Len(a) + Len(b) = Len(s) - 1
    BY <1>1, <1>2, <1>3
  <2> QED
    BY <1>2, <2>1, <2>2
<1>5. \A k \in 1 .. Len(s) - 1 : (a \o b)[k] = IF k < i THEN s[k] ELSE s[k + 1]
  <2> SUFFICES ASSUME NEW k \in 1 .. Len(s) - 1
               PROVE  (a \o b)[k] = IF k < i THEN s[k] ELSE s[k + 1]
    OBVIOUS
  <2>1. CASE k < i
    BY <1>2, <1>4, <2>1
  <2>2. CASE ~(k < i)
    <3>1. k - (i - 1) \in 1 .. Len(s) - i /\ i + (k - (i - 1)) = k + 1
      BY <1>1, <2>2
    <3>2. (a \o b)[k] = b[k - (i - 1)]
      BY <1>4, <2>2
    <3> QED
      BY <1>3, <2>2, <3>1, <3>2
  <2> QED
    BY <2>1, <2>2
<1>6. RemoveAt(s, i) = a \o b
  BY DEF RemoveAt, a, b
<1> QED
  BY <1>4, <1>5, <1>6

\* A report without a key still has each of its other keys once.
LEMMA WithoutFacts ==
  ASSUME NEW s \in Seq(Keys), IsInjective(s), Len(s) <= MaxKeys, CharsOK, NEW k
  PROVE  /\ Without(s, k) \in Seq(Keys) /\ IsInjective(Without(s, k))
         /\ Len(Without(s, k)) <= MaxKeys
         /\ ToSet(Without(s, k)) \subseteq ToSet(s) \ {k}
<1>0. /\ Len(s) \in Nat /\ MaxKeys \in Nat /\ DOMAIN s = 1 .. Len(s)
      /\ \A a, b \in 1 .. Len(s) : s[a] = s[b] => a = b
  BY DEF CharsOK, IsInjective
<1>1. CASE ~Contains(s, k)
  <2>1. Without(s, k) = s
    BY <1>1 DEF Without, RemoveFirst, Contains
  <2>2. k \notin ToSet(s)
    BY <1>0, <1>1 DEF ToSet, Contains
  <2> QED
    BY <2>1, <2>2
<1>2. CASE Contains(s, k)
  <2>1. PICK i \in 1 .. Len(s) : s[i] = k /\ RemoveFirst(s, k) = RemoveAt(s, i)
    BY <1>2, RemovesOne
  <2> DEFINE r == RemoveAt(s, i)
  <2>2. /\ r \in Seq(Keys) /\ Len(r) = Len(s) - 1
        /\ \A j \in 1 .. Len(s) - 1 : r[j] = IF j < i THEN s[j] ELSE s[j + 1]
    BY RemovedAt
  <2>3. Without(s, k) = r
    BY <2>1 DEF Without
  <2> HIDE DEF r
  <2>4. DOMAIN r = 1 .. Len(s) - 1
    BY <2>2
  <2>5. ASSUME NEW j \in 1 .. Len(s) - 1
        PROVE  \E m \in 1 .. Len(s) : m # i /\ r[j] = s[m] /\ (j < i => m = j) /\ (j >= i => m = j + 1)
    <3>1. CASE j < i
      BY <1>0, <2>2, <3>1
    <3>2. CASE ~(j < i)
      BY <1>0, <2>2, <3>2
    <3> QED
      BY <3>1, <3>2
  <2>6. ASSUME NEW a \in 1 .. Len(s) - 1, NEW b \in 1 .. Len(s) - 1, r[a] = r[b] PROVE a = b
    <3>1. PICK m \in 1 .. Len(s) : r[a] = s[m] /\ (a < i => m = a) /\ (a >= i => m = a + 1)
      BY <2>5
    <3>2. PICK n \in 1 .. Len(s) : r[b] = s[n] /\ (b < i => n = b) /\ (b >= i => n = b + 1)
      BY <2>5
    <3>3. m = n
      BY <1>0, <2>6, <3>1, <3>2
    <3> QED
      BY <1>0, <3>1, <3>2, <3>3
  <2>7. IsInjective(r)
    BY <2>4, <2>6 DEF IsInjective
  <2>8. ToSet(r) \subseteq ToSet(s) \ {k}
    <3> SUFFICES ASSUME NEW j \in 1 .. Len(s) - 1 PROVE r[j] \in ToSet(s) \ {k}
      BY <2>4 DEF ToSet
    <3>1. PICK m \in 1 .. Len(s) : m # i /\ r[j] = s[m]
      BY <2>5
    <3> QED
      BY <1>0, <2>1, <3>1 DEF ToSet
  <2>9. Len(r) <= MaxKeys
    BY <1>0, <2>2
  <2> QED
    BY <2>2, <2>3, <2>7, <2>8, <2>9
<1> QED
  BY <1>1, <1>2

\* A report with a key more.
LEMMA AppendFacts ==
  ASSUME NEW s \in Seq(Keys), IsInjective(s), Len(s) < MaxKeys, CharsOK, NEW k \in Keys,
         ~Contains(s, k)
  PROVE  /\ Append(s, k) \in Seq(Keys) /\ IsInjective(Append(s, k))
         /\ Len(Append(s, k)) <= MaxKeys
         /\ ToSet(Append(s, k)) = ToSet(s) \cup {k}
<1> DEFINE r == Append(s, k)
<1>0. /\ Len(s) \in Nat /\ MaxKeys \in Nat /\ DOMAIN s = 1 .. Len(s)
      /\ \A a, b \in 1 .. Len(s) : s[a] = s[b] => a = b
      /\ \A a \in 1 .. Len(s) : s[a] # k
  BY DEF CharsOK, IsInjective, Contains
<1>1. /\ r \in Seq(Keys) /\ Len(r) = Len(s) + 1 /\ DOMAIN r = 1 .. Len(s) + 1
      /\ \A j \in 1 .. Len(s) : r[j] = s[j]
      /\ r[Len(s) + 1] = k
  BY AppendProperties
<1> HIDE DEF r
<1>2. IsInjective(r)
  <2> SUFFICES ASSUME NEW a \in 1 .. Len(s) + 1, NEW b \in 1 .. Len(s) + 1, r[a] = r[b]
               PROVE  a = b
    BY <1>1 DEF IsInjective
  <2>1. CASE a \in 1 .. Len(s) /\ b \in 1 .. Len(s)
    BY <1>0, <1>1, <2>1
  <2>2. CASE a = Len(s) + 1 /\ b # Len(s) + 1
    BY <1>0, <1>1, <2>2
  <2>3. CASE b = Len(s) + 1 /\ a # Len(s) + 1
    BY <1>0, <1>1, <2>3
  <2>4. CASE a = Len(s) + 1 /\ b = Len(s) + 1
    BY <2>4
  <2> QED
    BY <1>0, <2>1, <2>2, <2>3, <2>4
<1>3. ToSet(r) = ToSet(s) \cup {k}
  <2>1. \A j \in 1 .. Len(s) + 1 : r[j] \in ToSet(s) \cup {k}
    BY <1>0, <1>1 DEF ToSet
  <2>2. \A j \in 1 .. Len(s) : s[j] \in ToSet(r)
    BY <1>0, <1>1 DEF ToSet
  <2>3. k \in ToSet(r)
    <3>1. Len(s) + 1 \in DOMAIN r
      BY <1>0, <1>1
    <3> QED
      BY <1>1, <3>1 DEF ToSet
  <2> QED
    BY <1>0, <1>1, <2>1, <2>2, <2>3 DEF ToSet
<1> QED
  BY <1>0, <1>1, <1>2, <1>3 DEF r

-----------------------------------------------------------------------------
(* Steps.                                                                  *)

\* What all threads hold.
Held == UNION {down[t] : t \in Threads}

\* A report that is sent, of keys and modifiers that somebody holds.
LEMMA SentKeyboard ==
  ASSUME HidInv, NEW report \in Report, SendKeyboard(report),
         ToSet(report.keys) \subseteq Held', report.mods # 0 => shifting' # {},
         UNCHANGED <<manager, pad>>, typing' \in [Threads -> Typing],
         down' \in [Threads -> SUBSET Keys], shifting' \subseteq Threads
  PROVE  HidInv'
<1>1. keyboard' = report /\ pad' = pad /\ active' = active /\ registered' = registered
  BY DEF SendKeyboard, manager
<1>2. /\ seen' \in [keyboard: Maybe(Report), gamepad: Maybe(0 .. 1)]
      /\ seen'.keyboard \in {<<>>, <<report>>} /\ seen'.gamepad = seen.gamepad
  BY DEF SendKeyboard, Send, HidInv, Typed, Maybe
<1>3. Typed'
  BY <1>1, <1>2 DEF HidInv, Typed
<1>4. NoStuckKeys'
  BY <1>1 DEF NoStuckKeys, Held
<1>5. HostInStep'
  BY <1>1, <1>2 DEF HidInv, HidSound, HostInStep
<1>6. ActiveIsRegistered'
  BY <1>1 DEF HidInv, HidSound, ActiveIsRegistered
<1> QED
  BY <1>3, <1>4, <1>5, <1>6 DEF HidInv, HidSound

\* Nothing is sent, and what is held stays held.
LEMMA NothingSent ==
  ASSUME HidInv, UNCHANGED <<registered, active, keyboard, pad, seen>>,
         Held \subseteq Held', shifting \subseteq shifting',
         typing' \in [Threads -> Typing],
         down' \in [Threads -> SUBSET Keys], shifting' \subseteq Threads
  PROVE  HidInv'
<1>1. Typed'
  BY DEF HidInv, Typed
<1>2. NoStuckKeys'
  BY DEF HidInv, HidSound, NoStuckKeys, Held
<1>3. HostInStep' /\ ActiveIsRegistered'
  BY DEF HidInv, HidSound, HostInStep, ActiveIsRegistered
<1> QED
  BY <1>1, <1>2, <1>3 DEF HidInv, HidSound

LEMMA PressKeeps ==
  ASSUME CharsOK, HidInv, NEW t \in Threads, NEW k \in Keys, Press(t, k),
         UNCHANGED <<manager, pad, shifting>>, typing' \in [Threads -> Typing]
  PROVE  HidInv'
<1>0. /\ keyboard \in Report /\ down \in [Threads -> SUBSET Keys] /\ shifting \subseteq Threads
      /\ NoStuckKeys
  BY DEF HidInv, Typed, HidSound
<1>1. /\ down' \in [Threads -> SUBSET Keys] /\ k \in down'[t]
      /\ \A u \in Threads : down[u] \subseteq down'[u]
  BY <1>0 DEF Press
<1>2. Held \subseteq Held' /\ k \in Held'
  BY <1>1 DEF Held
<1>3. CASE Contains(keyboard.keys, k)
  <2>1. UNCHANGED <<keyboard, seen>>
    BY <1>3 DEF Press
  <2> QED
    BY <1>0, <1>1, <1>2, <2>1, NothingSent DEF manager
<1>4. CASE ~Contains(keyboard.keys, k) /\ Len(keyboard.keys) = MaxKeys
  <2>1. SendKeyboard(keyboard)
    BY <1>4 DEF Press
  <2>2. ToSet(keyboard.keys) \subseteq Held' /\ (keyboard.mods # 0 => shifting' # {})
    BY <1>0, <1>2 DEF NoStuckKeys, Held
  <2> QED
    BY <1>0, <1>1, <2>1, <2>2, SentKeyboard
<1>5. CASE ~Contains(keyboard.keys, k) /\ Len(keyboard.keys) # MaxKeys
  <2> DEFINE s == Append(keyboard.keys, k)
             r == [keyboard EXCEPT !.keys = s]
  <2>1. SendKeyboard(r)
    BY <1>5 DEF Press
  <2>2. /\ keyboard.keys \in Seq(Keys) /\ IsInjective(keyboard.keys)
        /\ Len(keyboard.keys) < MaxKeys
    <3>1. keyboard.keys \in Seq(Keys) /\ IsInjective(keyboard.keys) /\ Len(keyboard.keys) <= MaxKeys
      BY <1>0 DEF Report
    <3>2. Len(keyboard.keys) \in Nat /\ MaxKeys \in Nat
      BY <3>1 DEF CharsOK
    <3> QED
      BY <1>5, <3>1, <3>2
  <2>3. /\ s \in Seq(Keys) /\ IsInjective(s) /\ Len(s) <= MaxKeys
        /\ ToSet(s) = ToSet(keyboard.keys) \cup {k}
    BY <1>5, <2>2, AppendFacts
  <2> HIDE DEF s
  <2>4. r \in Report /\ r.keys = s /\ r.mods = keyboard.mods
    <3>1. s \in Seq(Keys) /\ Len(s) <= MaxKeys /\ IsInjective(s)
      BY <2>3
    <3> QED
      BY <1>0, <3>1 DEF Report
  <2> HIDE DEF r
  <2>5. ToSet(r.keys) \subseteq Held' /\ (r.mods # 0 => shifting' # {})
    BY <1>0, <1>2, <2>3, <2>4 DEF NoStuckKeys, Held
  <2> QED
    BY <1>0, <1>1, <2>1, <2>4, <2>5, SentKeyboard
<1> QED
  BY <1>3, <1>4, <1>5

LEMMA ReleaseKeeps ==
  ASSUME CharsOK, HidInv, NEW t \in Threads, NEW k \in Keys, Release(t, k),
         UNCHANGED <<manager, pad, shifting>>, typing' \in [Threads -> Typing]
  PROVE  HidInv'
<1> DEFINE s == Without(keyboard.keys, k)
           r == [keyboard EXCEPT !.keys = s]
<1>0. /\ keyboard \in Report /\ down \in [Threads -> SUBSET Keys] /\ shifting \subseteq Threads
      /\ NoStuckKeys
  BY DEF HidInv, Typed, HidSound
<1>1. /\ down' \in [Threads -> SUBSET Keys]
      /\ \A u \in Threads : down[u] \ {k} \subseteq down'[u]
  BY <1>0 DEF Release
<1>2. Held \ {k} \subseteq Held'
  BY <1>1 DEF Held
<1>3. SendKeyboard(r)
  BY DEF Release
<1>4. /\ s \in Seq(Keys) /\ IsInjective(s) /\ Len(s) <= MaxKeys
      /\ ToSet(s) \subseteq ToSet(keyboard.keys) \ {k}
  BY <1>0, WithoutFacts DEF Report
<1> HIDE DEF s
<1>5. r \in Report /\ r.keys = s /\ r.mods = keyboard.mods
  <2>1. s \in Seq(Keys) /\ Len(s) <= MaxKeys /\ IsInjective(s)
    BY <1>4
  <2> QED
    BY <1>0, <2>1 DEF Report
<1> HIDE DEF r
<1>6. ToSet(r.keys) \subseteq Held' /\ (r.mods # 0 => shifting' # {})
  BY <1>0, <1>2, <1>4, <1>5 DEF NoStuckKeys, Held
<1> QED
  BY <1>0, <1>1, <1>3, <1>5, <1>6, SentKeyboard

LEMMA ModifiersKeep ==
  ASSUME CharsOK, HidInv, NEW t \in Threads, NEW m \in 0 .. 1, SetModifiers(t, m),
         UNCHANGED <<manager, pad, down>>, typing' \in [Threads -> Typing]
  PROVE  HidInv'
<1> DEFINE r == [keyboard EXCEPT !.mods = m]
<1>0. /\ keyboard \in Report /\ down \in [Threads -> SUBSET Keys] /\ shifting \subseteq Threads
      /\ NoStuckKeys
  BY DEF HidInv, Typed, HidSound
<1>1. SendKeyboard(r)
  BY DEF SetModifiers
<1>2. r \in Report /\ r.keys = keyboard.keys /\ r.mods = m
  BY <1>0 DEF Report
<1>3. shifting' \subseteq Threads /\ (m # 0 => shifting' # {})
  BY <1>0 DEF SetModifiers, Shifts
<1> HIDE DEF r
<1>4. ToSet(r.keys) \subseteq Held' /\ (r.mods # 0 => shifting' # {})
  BY <1>0, <1>2, <1>3 DEF NoStuckKeys, Held
<1> QED
  BY <1>0, <1>1, <1>2, <1>3, <1>4, SentKeyboard

LEMMA NoKeysFacts ==
  ASSUME CharsOK
  PROVE  NoKeys \in Report /\ ToSet(NoKeys.keys) = {} /\ NoKeys.mods = 0
<1>1. <<>> \in Seq(Keys) /\ Len(<<>>) <= MaxKeys
  BY DEF CharsOK
<1>2. IsInjective(<<>>)
  BY DEF IsInjective
<1>3. ToSet(<<>>) = {}
  BY DEF ToSet
<1> QED
  BY <1>1, <1>2, <1>3 DEF NoKeys, Report

LEMMA ReleaseAllKeeps ==
  ASSUME CharsOK, HidInv, NEW t \in Threads, ReleaseAll(t) PROVE HidInv'
<1>1. SendKeyboard(NoKeys) /\ UNCHANGED <<manager, pad, typing, down, shifting>>
  BY DEF ReleaseAll
<1>2. /\ typing' \in [Threads -> Typing] /\ down' \in [Threads -> SUBSET Keys]
      /\ shifting' \subseteq Threads
  BY <1>1 DEF HidInv, Typed
<1> QED
  BY <1>1, <1>2, NoKeysFacts, SentKeyboard

LEMMA SendReportKeeps ==
  ASSUME CharsOK, HidInv, NEW t \in Threads, NEW keys \in Reports, NEW m \in 0 .. 1,
         SendReport(t, keys, m)
  PROVE  HidInv'
<1> DEFINE r == [keys |-> keys, mods |-> m]
<1>1. SendKeyboard(r) /\ UNCHANGED <<manager, pad, typing>>
  BY DEF SendReport
<1>2. keys \in Seq(Keys) /\ Len(keys) <= MaxKeys /\ IsInjective(keys)
  <2>1. PICK n \in 0 .. MaxKeys : keys \in [1 .. n -> Keys]
    BY DEF Reports, SeqOf
  <2>2. Len(keys) = n /\ keys \in Seq(Keys)
    BY <2>1 DEF CharsOK
  <2> QED
    BY <2>1, <2>2 DEF Reports, CharsOK
<1>3. r \in Report
  BY <1>2 DEF Report
<1>4. /\ down' \in [Threads -> SUBSET Keys] /\ down'[t] = ToSet(keys)
  <2>1. ToSet(keys) \subseteq Keys
    BY <1>2 DEF ToSet
  <2> QED
    BY <2>1 DEF SendReport, HidInv, Typed
<1>5. shifting' \subseteq Threads /\ (m # 0 => shifting' # {})
  BY DEF SendReport, Shifts, HidInv, Typed
<1>6. ToSet(r.keys) \subseteq Held' /\ (r.mods # 0 => shifting' # {})
  BY <1>4, <1>5 DEF Held
<1>7. typing' \in [Threads -> Typing]
  BY <1>1 DEF HidInv, Typed
<1> HIDE DEF r
<1> QED
  BY <1>1, <1>3, <1>4, <1>5, <1>6, <1>7, SentKeyboard

LEMMA TypeStepKeeps ==
  ASSUME CharsOK, HidInv, NEW t \in Threads, TypeStep(t) PROVE HidInv'
<1> DEFINE c == typing[t]
<1>1. c \in Typing /\ c.step # 0 /\ c.key \in Keys
  BY DEF HidInv, Typed, Typing, TypeStep
<1>2. NotTyping \in Typing /\ (c.step # 3 + c.shift => [c EXCEPT !.step = @ + 1] \in Typing)
  BY <1>1 DEF NotTyping, Typing
<1>3. typing' \in [Threads -> Typing]
  <2>1. CASE c.step = 3 + c.shift
    BY <1>2, <2>1 DEF TypeStep, HidInv, Typed
  <2>2. CASE c.step # 3 + c.shift
    BY <1>2, <2>2 DEF TypeStep, HidInv, Typed
  <2> QED
    BY <2>1, <2>2
<1>4. UNCHANGED <<manager, pad>>
  BY DEF TypeStep
<1> QED
  BY <1>1, <1>3, <1>4, PressKeeps, ReleaseKeeps, ModifiersKeep DEF TypeStep

LEMMA TypeCharKeeps ==
  ASSUME CharsOK, HidInv, NEW t \in Threads, NEW c \in Chars, TypeChar(t, c)
  PROVE  HidInv'
<1>1. c[1] \in Keys /\ c[2] \in 0 .. 1
  BY DEF CharsOK
<1>2. [key |-> c[1], shift |-> c[2], step |-> 2 - c[2]] \in Typing
  BY <1>1 DEF Typing
<1>3. typing' \in [Threads -> Typing]
  BY <1>2 DEF TypeChar, HidInv, Typed
<1>4. UNCHANGED <<registered, active, keyboard, pad, seen, down, shifting>>
  BY DEF TypeChar, manager
<1>5. down' \in [Threads -> SUBSET Keys] /\ shifting' \subseteq Threads /\ Held' = Held
  BY <1>4 DEF HidInv, Typed, Held
<1> QED
  BY <1>3, <1>4, <1>5, NothingSent

LEMMA SetPadKeeps ==
  ASSUME HidInv, NEW t \in Threads, NEW v \in 0 .. 1, SetPad(t, v) PROVE HidInv'
<1>1. /\ pad' = v /\ UNCHANGED <<registered, active, keyboard, typing, down, shifting>>
  BY DEF SetPad, manager
<1>2. /\ seen' \in [keyboard: Maybe(Report), gamepad: Maybe(0 .. 1)]
      /\ seen'.gamepad \in {<<>>, <<v>>} /\ seen'.keyboard = seen.keyboard
  BY DEF SetPad, Send, HidInv, Typed, Maybe
<1>3. Typed'
  BY <1>1, <1>2 DEF HidInv, Typed
<1>4. NoStuckKeys' /\ ActiveIsRegistered'
  BY <1>1 DEF HidInv, HidSound, NoStuckKeys, ActiveIsRegistered
<1>5. HostInStep'
  BY <1>1, <1>2 DEF HidInv, HidSound, HostInStep
<1> QED
  BY <1>3, <1>4, <1>5 DEF HidInv, HidSound

\* The transports change: what the host has seen of the active one is kept or
\* forgotten.
LEMMA TransportsChange ==
  ASSUME HidInv, UNCHANGED <<keyboard, pad, typing, down, shifting>>,
         seen' = Unseen \/ (seen' = seen /\ active' \in {<<>>, active}),
         active' \in Maybe(Transports), ActiveIsRegistered',
         registered' \in {s \in Seq(Transports) : Len(s) <= MaxTransports}
  PROVE  HidInv'
<1>1. Unseen \in [keyboard: Maybe(Report), gamepad: Maybe(0 .. 1)]
  BY DEF Unseen, Maybe
<1>2. Typed'
  BY <1>1 DEF HidInv, Typed
<1>3. NoStuckKeys'
  BY DEF HidInv, HidSound, NoStuckKeys
<1>4. HostInStep'
  BY DEF HidInv, HidSound, HostInStep, Unseen
<1> QED
  BY <1>2, <1>3, <1>4 DEF HidInv, HidSound

LEMMA EnableKeeps ==
  ASSUME HidInv, NEW a \in BOOLEAN, NEW b \in BOOLEAN, Enable(a, b) PROVE HidInv'
<1>0. registered \in Seq(Transports) /\ Len(registered) <= MaxTransports
  BY DEF HidInv, Typed
<1>1. Choice \in Maybe(Transports) /\ (Choice # <<>> => Contains(registered, Choice[1]))
  <2>1. CASE Contains(registered, Preferred)
    <3>1. Preferred \in Transports
      BY <1>0, <2>1 DEF Contains
    <3> QED
      BY <2>1, <3>1 DEF Choice, Maybe
  <2>2. CASE ~Contains(registered, Preferred) /\ registered = <<>>
    BY <2>2 DEF Choice, Maybe
  <2>3. CASE ~Contains(registered, Preferred) /\ registered # <<>>
    <3>1. Head(registered) = registered[1] /\ 1 \in 1 .. Len(registered)
      BY <1>0, <2>3
    <3>2. Choice = <<registered[1]>> /\ registered[1] \in Transports
      BY <1>0, <2>3, <3>1 DEF Choice
    <3> QED
      BY <3>1, <3>2 DEF Maybe, Contains
  <2> QED
    BY <2>1, <2>2, <2>3
<1>2. /\ active' = Choice /\ seen' = Unseen
      /\ UNCHANGED <<registered, keyboard, pad, typing, down, shifting>>
  BY DEF Enable
<1>3. ActiveIsRegistered'
  BY <1>1, <1>2 DEF ActiveIsRegistered
<1> QED
  BY <1>0, <1>1, <1>2, <1>3, TransportsChange

LEMMA TransportStepKeeps ==
  ASSUME CharsOK, HidInv,
         \/ Disable
         \/ \E t \in Transports : \/ SetTransport(t) \/ Register(t)
                                  \/ HostLink(t) \/ SimConnect(t) \/ SimDisconnect(t)
  PROVE  HidInv'
<1>0. /\ registered \in {s \in Seq(Transports) : Len(s) <= MaxTransports}
      /\ active \in Maybe(Transports) /\ ActiveIsRegistered
  BY DEF HidInv, Typed, HidSound
<1>1. CASE Disable
  <2>1. ActiveIsRegistered'
    BY <1>0, <1>1 DEF Disable, ActiveIsRegistered
  <2> QED
    BY <1>0, <1>1, <2>1, TransportsChange DEF Disable
<1>2. ASSUME NEW t \in Transports, SetTransport(t) PROVE HidInv'
  <2>1. ActiveIsRegistered' /\ active' \in Maybe(Transports)
    BY <1>2 DEF SetTransport, ActiveIsRegistered, Maybe
  <2> QED
    BY <1>0, <1>2, <2>1, TransportsChange DEF SetTransport
<1>3. ASSUME NEW t \in Transports, Register(t) PROVE HidInv'
  <2>1. /\ registered' \in Seq(Transports) /\ Len(registered') = Len(registered) + 1
        /\ \A i \in 1 .. Len(registered) : registered'[i] = registered[i]
    BY <1>0, <1>3, AppendProperties DEF Register
  <2>2. Len(registered') <= MaxTransports /\ Len(registered) \in Nat
    BY <1>0, <1>3, <2>1 DEF Register, CharsOK
  <2>3. ActiveIsRegistered'
    BY <1>0, <1>3, <2>1, <2>2 DEF Register, ActiveIsRegistered, Contains
  <2> QED
    BY <1>0, <1>3, <2>1, <2>2, <2>3, TransportsChange DEF Register
<1>4. ASSUME NEW t \in Transports, NEW up, Linked(t, up) PROVE HidInv'
  <2>1. ActiveIsRegistered'
    BY <1>0, <1>4 DEF Linked, ActiveIsRegistered
  <2> QED
    BY <1>0, <1>4, <2>1, TransportsChange DEF Linked
<1> QED
  BY <1>1, <1>2, <1>3, <1>4 DEF HostLink, SimConnect, SimDisconnect

LEMMA UnregisterKeeps ==
  ASSUME CharsOK, HidInv, NEW t \in Transports, Unregister(t) PROVE HidInv'
<1>0. /\ registered \in Seq(Transports) /\ Len(registered) <= MaxTransports
      /\ active \in Maybe(Transports) /\ ActiveIsRegistered
      /\ Len(registered) \in Nat /\ MaxTransports \in Nat
  BY DEF HidInv, Typed, HidSound, CharsOK
<1>1. PICK i \in 1 .. Len(registered) :
        registered[i] = t /\ RemoveFirst(registered, t) = RemoveAt(registered, i)
  BY <1>0, RemovesOne DEF Unregister
<1>2. /\ registered' \in Seq(Transports) /\ Len(registered') = Len(registered) - 1
      /\ \A k \in 1 .. Len(registered) - 1 :
           registered'[k] = IF k < i THEN registered[k] ELSE registered[k + 1]
  BY <1>0, <1>1, RemovedAt DEF Unregister
<1>3. ASSUME NEW k \in 1 .. Len(registered), registered[k] # t
      PROVE  Contains(registered', registered[k])
  <2>1. CASE k < i
    <3>1. k \in 1 .. Len(registered) - 1
      BY <1>0, <2>1
    <3> QED
      BY <1>0, <1>2, <2>1, <3>1 DEF Contains
  <2>2. CASE k > i
    <3>1. k - 1 \in 1 .. Len(registered) - 1 /\ ~(k - 1 < i) /\ k - 1 + 1 = k
      BY <1>0, <2>2
    <3>2. registered'[k - 1] = registered[k]
      BY <1>2, <3>1
    <3> QED
      BY <1>0, <1>2, <3>1, <3>2 DEF Contains
  <2> QED
    BY <1>0, <1>1, <1>3, <2>1, <2>2
<1>4. active' = IF active = <<t>> THEN <<>> ELSE active
  BY DEF Unregister, Forgotten
<1>5. ActiveIsRegistered'
  <2>1. CASE active = <<t>> \/ active = <<>>
    BY <1>4, <2>1 DEF ActiveIsRegistered
  <2>2. CASE active # <<t>> /\ active # <<>>
    <3>1. PICK u \in Transports : active = <<u>> /\ u # t
      BY <1>0, <2>2 DEF Maybe
    <3>2. PICK k \in 1 .. Len(registered) : registered[k] = u
      BY <1>0, <3>1 DEF ActiveIsRegistered, Contains
    <3>3. Contains(registered', u)
      BY <1>3, <3>1, <3>2
    <3> QED
      BY <1>4, <2>2, <3>1, <3>3 DEF ActiveIsRegistered
  <2> QED
    BY <2>1, <2>2
<1>6. /\ active' \in Maybe(Transports) /\ active' \in {<<>>, active}
      /\ seen' = Unseen \/ seen' = seen
  BY <1>0, <1>4 DEF Maybe, Unregister
<1>7. Len(registered') <= MaxTransports
  BY <1>0, <1>2
<1> QED
  BY <1>2, <1>5, <1>6, <1>7, TransportsChange DEF Unregister

-----------------------------------------------------------------------------

LEMMA HidInit == ASSUME CharsOK, Init PROVE HidInv
<1>1. Typed
  <2>1. NotTyping \in Typing
    BY DEF NotTyping, Typing
  <2>2. Unseen \in [keyboard: Maybe(Report), gamepad: Maybe(0 .. 1)]
    BY DEF Unseen, Maybe
  <2> QED
    BY <2>1, <2>2, NoKeysFacts DEF Init, Typed, Maybe, CharsOK
<1>2. NoStuckKeys
  BY NoKeysFacts DEF Init, NoStuckKeys
<1>3. HostInStep /\ ActiveIsRegistered
  BY DEF Init, HostInStep, ActiveIsRegistered
<1> QED
  BY <1>1, <1>2, <1>3 DEF HidInv, HidSound

LEMMA HidNext == ASSUME CharsOK, HidInv, [Next]_vars PROVE HidInv'
<1>1. CASE UNCHANGED vars
  <2>1. UNCHANGED <<enabled, registered, active, trans, keyboard, pad, typing, seen, down,
                    shifting>>
    BY <1>1 DEF vars
  <2> QED
    BY <2>1 DEF HidInv, HidSound, Typed, NoStuckKeys, HostInStep, ActiveIsRegistered
<1>2. ASSUME NEW t \in Threads, NEW k \in Keys, PressCall(t, k) \/ ReleaseCall(t, k)
      PROVE  HidInv'
  <2>1. typing' \in [Threads -> Typing]
    BY <1>2 DEF PressCall, ReleaseCall, HidInv, Typed
  <2> QED
    BY <1>2, <2>1, PressKeeps, ReleaseKeeps DEF PressCall, ReleaseCall
<1>3. ASSUME NEW t \in Threads, NEW m \in 0 .. 1, SetModifiersCall(t, m) PROVE HidInv'
  <2>1. typing' \in [Threads -> Typing]
    BY <1>3 DEF SetModifiersCall, HidInv, Typed
  <2> QED
    BY <1>3, <2>1, ModifiersKeep DEF SetModifiersCall
<1> QED
  BY <1>1, <1>2, <1>3, SetPadKeeps, TypeCharKeeps, TypeStepKeeps, ReleaseAllKeeps,
     SendReportKeeps, EnableKeeps, TransportStepKeeps, UnregisterKeeps DEF Next

\* No key and no modifier is stuck, the host of the active transport has the
\* reports the manager has, and that transport is registered, whatever threads
\* type and transports come and go (hid_manager.c).
THEOREM KeysAreReleased == ASSUME CharsOK PROVE Spec => []HidSound
<1>1. Init => HidInv
  BY HidInit
<1>2. HidInv /\ [Next]_vars => HidInv'
  BY HidNext
<1>3. HidInv => HidSound
  BY DEF HidInv
<1> QED
  BY <1>1, <1>2, <1>3, PTL DEF Spec
=============================================================================
