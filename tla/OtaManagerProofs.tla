-------------------------- MODULE OtaManagerProofs --------------------------
(* Theorems about OtaManager, for every slot, buffer, queue and client set. *)
EXTENDS OtaManager, SequenceTheorems, TLAPS

\* Counting what is copied.
LEMMA CopyCounts ==
  ASSUME NEW w \in Nat, NEW l \in Nat, NEW k \in Nat, NEW n \in Nat, n <= k
  PROVE  /\ (w + n) - (l + n) = w - l
         /\ w + n + (k - n) = w + k
         /\ w + n <= w + k
         /\ (w + n) - 0 = (w - l) + (l + n)
OBVIOUS

\* The units of two sequences in a row are those of both.
LEMMA UnitsOfConcat ==
  ASSUME NEW s \in Seq(Unit), NEW r \in Seq(Unit)
  PROVE  UnitsOf(s \o r) = UnitsOf(s) \cup UnitsOf(r)
<1> DEFINE q == s \o r
<1>1. /\ Len(s) \in Nat /\ Len(r) \in Nat /\ Len(q) = Len(s) + Len(r)
      /\ q \in Seq(Unit)
      /\ \A i \in 1 .. Len(s) + Len(r) : q[i] = IF i <= Len(s) THEN s[i] ELSE r[i - Len(s)]
  BY ConcatProperties
<1>2. DOMAIN s = 1 .. Len(s) /\ DOMAIN r = 1 .. Len(r) /\ DOMAIN q = 1 .. Len(s) + Len(r)
  BY <1>1, LenProperties
<1> HIDE DEF q
<1>3. ASSUME NEW i \in DOMAIN q PROVE q[i] \in UnitsOf(s) \cup UnitsOf(r)
  <2>1. CASE i <= Len(s)
    BY <1>1, <1>2, <1>3, <2>1 DEF UnitsOf
  <2>2. CASE ~(i <= Len(s))
    <3>1. i - Len(s) \in 1 .. Len(r)
      BY <1>1, <1>2, <1>3, <2>2
    <3> QED
      BY <1>1, <1>2, <1>3, <2>2, <3>1 DEF UnitsOf
  <2> QED
    BY <2>1, <2>2
<1>4. ASSUME NEW i \in DOMAIN s PROVE s[i] \in UnitsOf(q)
  <2>1. i \in DOMAIN q /\ q[i] = s[i]
    BY <1>1, <1>2, <1>4
  <2> QED
    BY <2>1 DEF UnitsOf
<1>5. ASSUME NEW i \in DOMAIN r PROVE r[i] \in UnitsOf(q)
  <2>1. Len(s) + i \in DOMAIN q /\ ~(Len(s) + i <= Len(s)) /\ Len(s) + i - Len(s) = i
    BY <1>1, <1>2, <1>5
  <2>2. q[Len(s) + i] = r[i]
    BY <1>1, <1>2, <2>1
  <2> QED
    BY <2>1, <2>2 DEF UnitsOf
<1>6. UnitsOf(q) = UnitsOf(s) \cup UnitsOf(r)
  BY <1>3, <1>4, <1>5 DEF UnitsOf
<1> QED
  BY <1>6 DEF q

\* What was appended to a sequence is what follows it.
LEMMA AppendedPart ==
  ASSUME NEW u \in Seq(Unit), NEW p \in Seq(Unit)
  PROVE  SubSeq(u \o p, Len(u) + 1, Len(u \o p)) = p
<1> DEFINE q == u \o p
           l == Len(u)
           n == Len(p)
           s == SubSeq(q, l + 1, Len(q))
<1>1. /\ q \in Seq(Unit) /\ Len(q) = l + n /\ l \in Nat /\ n \in Nat
      /\ \A i \in 1 .. l + n : q[i] = IF i <= l THEN u[i] ELSE p[i - l]
  BY ConcatProperties
<1> HIDE DEF q, l
<1>2. \A i \in l + 1 .. l + n : q[i] \in Unit
  BY <1>1, ElementOfSeq
<1>3. /\ s \in Seq(Unit)
      /\ Len(s) = IF l + 1 <= l + n THEN l + n - (l + 1) + 1 ELSE 0
      /\ \A i \in 1 .. l + n - (l + 1) + 1 : s[i] = q[l + 1 + i - 1]
  BY <1>1, <1>2, SubSeqProperties
<1> HIDE DEF n, s
<1>4. /\ Len(s) = n /\ l + n - (l + 1) + 1 = n
      /\ \A i \in 1 .. n : /\ l + 1 + i - 1 = l + i /\ ~(l + i <= l)
                           /\ l + i \in 1 .. l + n /\ (l + i) - l = i
  BY <1>1, <1>3
<1>5. \A i \in 1 .. n : s[i] = p[i]
  <2> TAKE i \in 1 .. n
  <2>1. s[i] = q[l + i]
    BY <1>3, <1>4
  <2>2. q[l + i] = p[i]
    BY <1>1, <1>4
  <2> QED
    BY <2>1, <2>2
<1>6. s = p
  BY <1>3, <1>4, <1>5, SeqEqual DEF n
<1> QED
  BY <1>6 DEF s, q, l

\* The part of a chunk that is copied and the part that is left are the chunk.
LEMMA ChunkSplit ==
  ASSUME NEW u \in Seq(Unit), NEW n \in 0 .. Len(u)
  PROVE  LET s == SubSeq(u, 1, n)
             r == SubSeq(u, n + 1, Len(u))
         IN  /\ s \in Seq(Unit) /\ r \in Seq(Unit)
             /\ Len(s) = n /\ Len(r) = Len(u) - n
             /\ UnitsOf(u) \subseteq UnitsOf(s) \cup UnitsOf(r)
<1> DEFINE s == SubSeq(u, 1, n)
           r == SubSeq(u, n + 1, Len(u))
<1>1. Len(u) \in Nat /\ n \in Nat /\ n <= Len(u) /\ DOMAIN u = 1 .. Len(u)
      /\ \A i \in 1 .. Len(u) : u[i] \in Unit
  BY LenProperties, ElementOfSeq
<1>2. s \in Seq(Unit) /\ Len(s) = n /\ \A i \in 1 .. n : s[i] = u[i]
  BY <1>1, SubSeqProperties
<1>3. /\ r \in Seq(Unit) /\ Len(r) = Len(u) - n
      /\ \A i \in 1 .. Len(u) - n : r[i] = u[n + i]
  <2>1. \A i \in n + 1 .. Len(u) : u[i] \in Unit
    BY <1>1
  <2>2. /\ r \in Seq(Unit)
        /\ Len(r) = IF n + 1 <= Len(u) THEN Len(u) - (n + 1) + 1 ELSE 0
        /\ \A i \in 1 .. Len(u) - (n + 1) + 1 : r[i] = u[n + 1 + i - 1]
    BY <1>1, <2>1, SubSeqProperties
  <2> HIDE DEF r
  <2>3. Len(u) - (n + 1) + 1 = Len(u) - n
    BY <1>1
  <2>4. \A i \in 1 .. Len(u) - n : n + 1 + i - 1 = n + i
    BY <1>1
  <2>5. Len(r) = Len(u) - n
    <3> DEFINE l == Len(u)
               m == Len(r)
    <3>1. l \in Nat /\ n \in Nat /\ n <= l
          /\ m = IF n + 1 <= l THEN l - (n + 1) + 1 ELSE 0
      BY <1>1, <2>2
    <3> HIDE DEF l, m
    <3>2. m = l - n
      BY <3>1
    <3> QED
      BY <3>2 DEF l, m
  <2>6. ASSUME NEW i \in 1 .. Len(u) - n PROVE r[i] = u[n + i]
    <3>1. r[i] = u[n + 1 + i - 1]
      BY <2>2, <2>3
    <3> QED
      BY <2>4, <3>1
  <2> QED
    BY <2>2, <2>5, <2>6
<1>4. DOMAIN s = 1 .. n /\ DOMAIN r = 1 .. Len(u) - n
  BY <1>2, <1>3, LenProperties
<1> HIDE DEF s, r
<1>5. ASSUME NEW i \in DOMAIN u PROVE u[i] \in UnitsOf(s) \cup UnitsOf(r)
  <2>1. CASE i <= n
    BY <1>1, <1>2, <1>4, <1>5, <2>1 DEF UnitsOf
  <2>2. CASE ~(i <= n)
    <3>1. i - n \in 1 .. Len(u) - n /\ n + (i - n) = i
      BY <1>1, <1>5, <2>2
    <3> QED
      BY <1>3, <1>4, <3>1 DEF UnitsOf
  <2> QED
    BY <2>1, <2>2
<1>6. UnitsOf(u) \subseteq UnitsOf(s) \cup UnitsOf(r)
  BY <1>5 DEF UnitsOf
<1> QED
  BY <1>2, <1>3, <1>6 DEF s, r

USE ClientsAssumption, FlashAssumption, QueueAssumption, InputsAssumption, BoundAssumption

-----------------------------------------------------------------------------
(* The write buffer's size is a multiple of the flash driver's alignment.   *)

LEMMA MultipleAligned ==
  ASSUME NEW k \in Int
  PROVE  (WriteAlign * k) % WriteAlign = 0
OBVIOUS

LEMMA AlignedMultiple ==
  ASSUME NEW x \in Nat, x % WriteAlign = 0
  PROVE  \E k \in Int : x = WriteAlign * k
OBVIOUS

\* A full buffer written to an aligned offset ends at an aligned one.
LEMMA SumAligned ==
  ASSUME NEW x \in Nat, x % WriteAlign = 0
  PROVE  x + BufferSize \in Nat /\ (x + BufferSize) % WriteAlign = 0
<1>1. PICK k \in Int : x = WriteAlign * k
  BY AlignedMultiple
<1>2. PICK m \in Int : BufferSize = WriteAlign * m
  BY AlignedMultiple
<1>3. x + BufferSize = WriteAlign * (k + m)
  BY <1>1, <1>2
<1>4. (x + BufferSize) % WriteAlign = 0
  BY <1>3, MultipleAligned
<1>5. x + BufferSize \in Nat
OBVIOUS
<1> QED
  BY <1>4, <1>5

LEMMA ZeroAligned == 0 % WriteAlign = 0
OBVIOUS

-----------------------------------------------------------------------------
(* The slot.                                                                *)

\* What flash f and write buffer b hold of the update u, of which n units
\* were taken over: the flushed part is on flash, the rest in the buffer, and
\* a flush that failed half way has programmed only what the next one will.
Good(f, b, u, n) ==
  LET flushed == n - Len(b) IN
  /\ f \in [Cells -> Unit] /\ b \in Seq(Unit) /\ u \in Seq(Unit)
  /\ n \in 0 .. FlashSize /\ Len(u) = n /\ Len(b) <= n
  /\ \A k \in 1 .. Len(b) : b[k] = u[flushed + k]
  /\ \A i \in Cells : i <= flushed => f[i] = u[i]
  /\ \A i \in Cells : i > flushed => f[i] = Erased \/ (i <= n /\ f[i] = u[i])

\* flush_write_buffer of a good buffer leaves a good slot, and a buffer that
\* is empty or, after a refused write, the one it was.
LEMMA FlushGood ==
  ASSUME NEW n, NEW b, NEW u, Good(flash, b, u, n), secondary_fa,
         NEW o \in FlushOutcomes(n, b)
  PROVE  /\ Good(o.flash, o.buffer, u, n)
         /\ o.ok \in BOOLEAN
         /\ o.buffer \in {b, <<>>}
         /\ o.ok => o.buffer = <<>>
         /\ ~o.ok => o.buffer = b
         /\ \/ o.faults = faults
            \/ Mishaps < MaxMishaps /\ o.faults = faults + 1
<1> DEFINE flushed == n - Len(b)
           part(m) == Written(flash, FlushOffset(n, b), SubSeq(b, 1, m))
<1>1. /\ flash \in [Cells -> Unit] /\ b \in Seq(Unit) /\ Len(b) \in Nat /\ n \in Nat
      /\ flushed \in Nat /\ flushed + Len(b) = n /\ Len(b) <= n
  BY DEF Good
<1>2. Erased \in Unit /\ Junk \in Unit
  BY DEF Erased, Junk, Unit
<1>3. ASSUME NEW m \in 0 .. Len(b), NEW i \in Cells
      PROVE  part(m)[i] = IF i > flushed /\ i <= flushed + m THEN u[i] ELSE flash[i]
  <2> DEFINE s == SubSeq(b, 1, m)
  <2>1. s \in Seq(Unit) /\ Len(s) = m /\ \A k \in 1 .. m : s[k] = b[k]
    <3>1. \A k \in 1 .. m : b[k] \in Unit
      BY <1>1, <1>3, ElementOfSeq
    <3> QED
      BY <3>1, <1>3, SubSeqProperties
  <2>2. DOMAIN s = 1 .. m
    BY <2>1, LenProperties
  <2> HIDE DEF s
  <2>3. part(m)[i] = IF i - flushed \in DOMAIN s THEN Program(flash[i], s[i - flushed])
                                                 ELSE flash[i]
    BY <1>3 DEF Written, FlushOffset, s
  <2>4. i \in Int /\ m \in Int
    BY <1>3 DEF Cells
  <2>5. CASE i > flushed /\ i <= flushed + m
    <3>1. i - flushed \in 1 .. m /\ i - flushed \in 1 .. Len(b) /\ i <= n
      BY <1>1, <1>3, <2>4, <2>5
    <3>2. s[i - flushed] = u[i]
      <4>1. s[i - flushed] = b[i - flushed]
        BY <2>1, <3>1
      <4>2. b[i - flushed] = u[flushed + (i - flushed)]
        BY <3>1 DEF Good
      <4>3. flushed + (i - flushed) = i
        BY <1>1, <2>4
      <4> QED
        BY <4>1, <4>2, <4>3
    <3>3. flash[i] = Erased \/ flash[i] = u[i]
      BY <1>3, <2>5 DEF Good
    <3>4. Program(flash[i], u[i]) = u[i]
      BY <3>3 DEF Program
    <3> QED
      BY <2>2, <2>3, <2>5, <3>1, <3>2, <3>4
  <2>6. CASE ~(i > flushed /\ i <= flushed + m)
    <3>1. i - flushed \notin 1 .. m
      BY <1>1, <1>3, <2>4, <2>6
    <3> QED
      BY <2>2, <2>3, <2>6, <3>1
  <2> QED
    BY <2>5, <2>6
<1>4. ASSUME NEW m \in 0 .. Len(b)
      PROVE  part(m) \in [Cells -> Unit] /\ Good(part(m), b, u, n)
  <2>1. part(m) = [i \in Cells |-> part(m)[i]]
    BY DEF Written
  <2>2. \A i \in Cells : part(m)[i] \in Unit
    <3> TAKE i \in Cells
    <3>1. i > flushed /\ i <= flushed + m => i \in 1 .. Len(u)
      BY <1>1, <1>4 DEF Good, Cells
    <3>2. i > flushed /\ i <= flushed + m => u[i] \in Unit
      BY <3>1, ElementOfSeq DEF Good
    <3> QED
      BY <1>1, <1>3, <1>4, <3>2
  <2>3. part(m) \in [Cells -> Unit]
    BY <2>1, <2>2
  <2> DEFINE f == part(m)
  <2>4. f \in [Cells -> Unit]
        /\ \A i \in Cells : f[i] = IF i > flushed /\ i <= flushed + m THEN u[i] ELSE flash[i]
    BY <1>3, <1>4, <2>3
  <2> HIDE DEF f, part
  <2>5. Good(f, b, u, n)
    BY <1>1, <1>4, <2>4 DEF Good, Cells
  <2> QED
    BY <2>4, <2>5 DEF f
<1>5. Good(part(Len(b)), <<>>, u, n)
  <2> DEFINE f == part(Len(b))
  <2>1. Len(b) \in 0 .. Len(b)
    BY <1>1
  <2>2. f \in [Cells -> Unit]
        /\ \A i \in Cells : f[i] = IF i > flushed /\ i <= flushed + Len(b) THEN u[i] ELSE flash[i]
    BY <1>3, <1>4, <2>1
  <2>3. <<>> \in Seq(Unit) /\ Len(<<>>) = 0
    BY EmptySeq
  <2> HIDE DEF f, part
  <2>4. Good(f, <<>>, u, n)
    BY <1>1, <2>2, <2>3 DEF Good, Cells
  <2> QED
    BY <2>4 DEF f
<1>6. CASE b = <<>>
  <2>1. o = [ok |-> TRUE, flash |-> flash, buffer |-> b, faults |-> faults]
    BY <1>6 DEF FlushOutcomes
  <2> QED
    BY <1>6, <2>1
<1>7. CASE b # <<>>
  <2>1. \/ o = [ok |-> TRUE, flash |-> part(Len(b)), buffer |-> <<>>, faults |-> faults]
        \/ /\ Mishaps < MaxMishaps
           /\ \E m \in 0 .. Len(b) :
                o = [ok |-> FALSE, flash |-> part(m), buffer |-> b, faults |-> faults + 1]
    BY <1>7 DEF FlushOutcomes
  <2> HIDE DEF part
  <2>2. CASE o = [ok |-> TRUE, flash |-> part(Len(b)), buffer |-> <<>>, faults |-> faults]
    BY <1>5, <2>2
  <2>3. ASSUME NEW m \in 0 .. Len(b), Mishaps < MaxMishaps,
               o = [ok |-> FALSE, flash |-> part(m), buffer |-> b, faults |-> faults + 1]
        PROVE  /\ Good(o.flash, o.buffer, u, n) /\ o.ok = FALSE /\ o.buffer = b
               /\ o.faults = faults + 1 /\ Mishaps < MaxMishaps
    <3>1. Good(part(m), b, u, n)
      BY <1>4, <2>3
    <3>2. o.flash = part(m) /\ o.buffer = b /\ o.ok = FALSE /\ o.faults = faults + 1
      BY <2>3
    <3> QED
      BY <2>3, <3>1, <3>2
  <2> QED
    BY <2>1, <2>2, <2>3
<1> QED
  BY <1>6, <1>7

\* A flush that is refused costs one of the mishaps that are left.
LEMMA FlushFaults ==
  ASSUME NEW n, NEW b, NEW o \in FlushOutcomes(n, b)
  PROVE  \/ o.faults = faults
         \/ ~o.ok /\ Mishaps < MaxMishaps /\ o.faults = faults + 1
BY DEF FlushOutcomes

-----------------------------------------------------------------------------
(* The invariant.                                                           *)

Ops == {"start", "write", "finalize", "abort", "confirm", "reboot"}
Msg == [op : Ops, from : Clients \cup {NoClient}, live : BOOLEAN, size : Sizes \cup {0},
        units : Seq(Unit), ok : BOOLEAN]
MsgOK(m) ==
  /\ m \in Msg
  /\ m.op = "reboot" <=> m.from = NoClient
  /\ m.op # "write" => m.units = <<>>

\* Who calls, and what is in the queue and in the OTA thread's hands.
QueueInv ==
  /\ phase \in Phases
  /\ ota_msgq \in Seq(Msg) /\ Len(ota_msgq) <= QueueSize
  /\ \A i \in 1 .. Len(ota_msgq) : MsgOK(ota_msgq[i])
  /\ MsgOK(current)
  /\ phase \in {"copy", "signal"} => current.op # "reboot"
  /\ client \in [Clients -> [busy : BOOLEAN, chunk : Seq(Unit), sent : Nat]]
  /\ \A c \in Clients : /\ client[c].sent + Len(client[c].chunk) <= FlashSize
                        /\ ~client[c].busy => client[c].chunk = <<>>

CountInv ==
  /\ faults \in Nat /\ timeouts \in Nat /\ boots \in Nat
  /\ Mishaps <= MaxMishaps

\* The slot, while an update is open and when it is complete.
SlotInv ==
  /\ ota_state \in States
  /\ total_size \in Nat /\ bytes_written \in 0 .. FlashSize
  /\ secondary_fa \in BOOLEAN /\ boot_pending \in BOOLEAN
  /\ write_buffer \in Seq(Unit) /\ received \in Seq(Unit)
  /\ flash \in [Cells -> Unit]
  /\ secondary_fa => /\ Good(flash, write_buffer, received, bytes_written)
                     /\ bytes_written <= total_size
                     /\ Len(write_buffer) <= BufferSize
  /\ ota_state = "RECEIVING" => secondary_fa
  /\ ota_state = "RECEIVING" \/ write_buffer # <<>> =>
       /\ bytes_written - Len(write_buffer) \in Nat
       /\ (bytes_written - Len(write_buffer)) % WriteAlign = 0
  /\ ota_state = "COMPLETE" =>
       /\ boot_pending /\ IsMagic(flash[1])
       /\ Len(received) <= FlashSize
       /\ \A i \in 1 .. Len(received) : flash[i] = received[i]

\* What is being copied fits.
CopyInv ==
  phase = "copy" =>
    /\ ota_state = "RECEIVING" /\ current.op = "write"
    /\ bytes_written + Len(current.units) <= FlashSize
    /\ bytes_written + Len(current.units) <= total_size

\* As long as no call has timed out, each message has its caller waiting, and
\* a caller has one message.
Waits(m) == m.live /\ client[m.from].busy
CallInv ==
  timeouts = 0 =>
    /\ \A i \in 1 .. Len(ota_msgq) : ota_msgq[i].op # "reboot" =>
         Waits(ota_msgq[i]) /\ client[ota_msgq[i].from].chunk = ota_msgq[i].units
    /\ \A i, j \in 1 .. Len(ota_msgq) : i # j /\ ota_msgq[i].op # "reboot" =>
         ota_msgq[i].from # ota_msgq[j].from
    /\ phase \in {"copy", "signal"} =>
         /\ Waits(current)
         /\ \A i \in 1 .. Len(ota_msgq) : ota_msgq[i].from # current.from
    /\ phase = "signal" /\ current.op # "write" => client[current.from].chunk = <<>>

AckInv ==
  timeouts = 0 =>
    /\ acked \subseteq UnitsOf(received)
    /\ phase = "copy" =>
         UnitsOf(client[current.from].chunk) \subseteq UnitsOf(received) \cup UnitsOf(current.units)
    /\ phase = "signal" /\ current.op = "write" /\ current.ok =>
         UnitsOf(client[current.from].chunk) \subseteq UnitsOf(received)

OtaInv ==
  QueueInv /\ CountInv /\ SlotInv /\ CopyInv /\ CallInv /\ AckInv /\ acked \in SUBSET Unit

\* The invariant implies the properties.
LEMMA OtaInvImplies ==
  ASSUME OtaInv
  PROVE  TypeOK /\ SlotSound /\ CompleteIsBootable /\ AckedReceived
<1>1. TypeOK
  <2>1. \A c \in Clients : client[c].sent \in 0 .. FlashSize
    <3> TAKE c \in Clients
    <3>1. client[c].chunk \in Seq(Unit) /\ client[c].sent \in Nat
          /\ client[c].sent + Len(client[c].chunk) <= FlashSize
      BY DEF OtaInv, QueueInv
    <3>2. Len(client[c].chunk) \in Nat
      BY <3>1, LenProperties
    <3> QED
      BY <3>1, <3>2
  <2>2. client \in [Clients -> [busy : BOOLEAN, chunk : Seq(Unit), sent : 0 .. FlashSize]]
    BY <2>1 DEF OtaInv, QueueInv
  <2>3. /\ faults \in 0 .. MaxMishaps /\ timeouts \in 0 .. MaxMishaps
        /\ boots \in 0 .. MaxMishaps
    BY DEF OtaInv, CountInv, Mishaps
  <2> QED
    BY <2>2, <2>3 DEF OtaInv, QueueInv, SlotInv, TypeOK
<1>2. SlotIsReceived
  <2> SUFFICES ASSUME secondary_fa
               PROVE  LET flushed == bytes_written - Len(write_buffer) IN
                      /\ Len(received) = bytes_written
                      /\ \A i \in 1 .. flushed : flash[i] = received[i]
                      /\ write_buffer = SubSeq(received, flushed + 1, bytes_written)
    BY DEF SlotIsReceived
  <2> DEFINE flushed == bytes_written - Len(write_buffer)
             s == SubSeq(received, flushed + 1, bytes_written)
  <2>1. /\ write_buffer \in Seq(Unit) /\ received \in Seq(Unit)
        /\ bytes_written \in 0 .. FlashSize /\ Len(received) = bytes_written
        /\ Len(write_buffer) <= bytes_written
        /\ \A k \in 1 .. Len(write_buffer) : write_buffer[k] = received[flushed + k]
        /\ \A i \in Cells : i <= flushed => flash[i] = received[i]
    BY DEF OtaInv, SlotInv, Good
  <2>2. Len(write_buffer) \in Nat
    BY <2>1, LenProperties
  <2>3. \A i \in 1 .. flushed : flash[i] = received[i]
    <3>1. \A i \in 1 .. flushed : i \in Cells /\ i <= flushed
      BY <2>1, <2>2 DEF Cells
    <3> QED
      BY <2>1, <3>1
  <2>4. \A i \in flushed + 1 .. bytes_written : received[i] \in Unit
    BY <2>1, <2>2, ElementOfSeq
  <2>5. /\ s \in Seq(Unit) /\ Len(s) = Len(write_buffer)
        /\ \A k \in 1 .. Len(write_buffer) : s[k] = received[flushed + k]
    <3>1. flushed + 1 \in Int /\ bytes_written \in Int
      BY <2>1, <2>2
    <3>2. /\ s \in Seq(Unit)
          /\ Len(s) = IF flushed + 1 <= bytes_written THEN bytes_written - (flushed + 1) + 1 ELSE 0
          /\ \A k \in 1 .. bytes_written - (flushed + 1) + 1 : s[k] = received[flushed + 1 + k - 1]
      BY <2>4, <3>1, SubSeqProperties, SMTT(30)
    <3>3. bytes_written - (flushed + 1) + 1 = Len(write_buffer)
      BY <2>1, <2>2
    <3>4. \A k \in 1 .. Len(write_buffer) : flushed + 1 + k - 1 = flushed + k
      BY <2>1, <2>2
    <3> QED
      BY <2>1, <2>2, <3>2, <3>3, <3>4, SMTT(30)
  <2> HIDE DEF s
  <2>6. write_buffer = s
    BY <2>1, <2>5, SeqEqual
  <2> QED
    BY <2>1, <2>3, <2>6 DEF s
<1>3. FlushAligned /\ WithinSlot
  BY DEF OtaInv, SlotInv, FlushAligned, WithinSlot
<1>4. CompleteIsBootable
  BY DEF OtaInv, SlotInv, CompleteIsBootable
<1>5. AckedReceived
  BY DEF OtaInv, AckInv, AckedReceived
<1> QED
  BY <1>1, <1>2, <1>3, <1>4, <1>5 DEF SlotSound

-----------------------------------------------------------------------------
(* Requests and answers.                                                    *)

\* The message at the head of the queue, and the rest of the queue.
LEMMA HeadOfQueue ==
  ASSUME QueueInv, ota_msgq # <<>>
  PROVE  LET m == Head(ota_msgq)
             q == Tail(ota_msgq)
         IN  /\ MsgOK(m) /\ m = ota_msgq[1] /\ 1 \in 1 .. Len(ota_msgq)
             /\ q \in Seq(Msg) /\ Len(q) = Len(ota_msgq) - 1 /\ Len(q) \in Nat
             /\ \A i \in 1 .. Len(q) : /\ q[i] = ota_msgq[i + 1]
                                      /\ i + 1 \in 1 .. Len(ota_msgq) /\ i + 1 # 1
<1>1. /\ ota_msgq \in Seq(Msg) /\ Len(ota_msgq) \in Nat \ {0}
      /\ \A i \in 1 .. Len(ota_msgq) : MsgOK(ota_msgq[i])
  BY EmptySeq DEF QueueInv
<1>2. Head(ota_msgq) = ota_msgq[1] /\ 1 \in 1 .. Len(ota_msgq)
  BY <1>1
<1>3. /\ Tail(ota_msgq) \in Seq(Msg) /\ Len(Tail(ota_msgq)) = Len(ota_msgq) - 1
      /\ \A i \in 1 .. Len(Tail(ota_msgq)) : Tail(ota_msgq)[i] = ota_msgq[i + 1]
  BY <1>1, HeadTailProperties
<1>4. \A i \in 1 .. Len(Tail(ota_msgq)) : i + 1 \in 1 .. Len(ota_msgq) /\ i + 1 # 1
  BY <1>1, <1>3
<1> QED
  BY <1>1, <1>2, <1>3, <1>4

\* The OTA thread takes a message: its caller keeps waiting.
LEMMA TakenInv ==
  ASSUME QueueInv, CallInv, ota_msgq # <<>>, Head(ota_msgq).op # "reboot",
         ota_msgq' = Tail(ota_msgq), MsgOK(current'),
         current'.op = Head(ota_msgq).op, current'.from = Head(ota_msgq).from,
         current'.live = Head(ota_msgq).live,
         phase' \in {"copy", "signal"}, UNCHANGED <<client, timeouts>>
  PROVE  /\ QueueInv' /\ CallInv'
         /\ timeouts = 0 => client[current'.from].chunk = Head(ota_msgq).units
<1> DEFINE m == Head(ota_msgq)
           q == Tail(ota_msgq)
<1>1. /\ MsgOK(m) /\ m = ota_msgq[1] /\ 1 \in 1 .. Len(ota_msgq)
      /\ q \in Seq(Msg) /\ Len(q) = Len(ota_msgq) - 1 /\ Len(q) \in Nat
      /\ \A i \in 1 .. Len(q) : /\ q[i] = ota_msgq[i + 1]
                               /\ i + 1 \in 1 .. Len(ota_msgq) /\ i + 1 # 1
  BY HeadOfQueue
<1>2. \A i \in 1 .. Len(q) : MsgOK(q[i])
  BY <1>1 DEF QueueInv
<1>3. Len(q) <= QueueSize
  BY <1>1 DEF QueueInv
<1> HIDE DEF m, q
<1>4. QueueInv'
  BY <1>1, <1>2, <1>3 DEF QueueInv, Phases, m, q
<1>5. ASSUME timeouts = 0
      PROVE  /\ Waits(m) /\ client[m.from].chunk = m.units
             /\ \A i \in 1 .. Len(q) : q[i].op # "reboot" =>
                  Waits(q[i]) /\ client[q[i].from].chunk = q[i].units
             /\ \A i, j \in 1 .. Len(q) : i # j /\ q[i].op # "reboot" => q[i].from # q[j].from
             /\ \A i \in 1 .. Len(q) : q[i].from # m.from
  <2>1. Waits(m) /\ client[m.from].chunk = m.units
    BY <1>1, <1>5 DEF CallInv, m
  <2>2. \A i \in 1 .. Len(q) : q[i].op # "reboot" =>
          Waits(q[i]) /\ client[q[i].from].chunk = q[i].units
    BY <1>1, <1>5 DEF CallInv
  <2>3. ASSUME NEW i \in 1 .. Len(q), NEW j \in 1 .. Len(q), i # j, q[i].op # "reboot"
        PROVE  q[i].from # q[j].from
    <3>1. i + 1 # j + 1
      BY <1>1, <2>3
    <3> QED
      BY <1>1, <1>5, <2>3, <3>1, SMTT(30) DEF CallInv
  <2>4. ASSUME NEW i \in 1 .. Len(q) PROVE q[i].from # m.from
    BY <1>1, <1>5, <2>4, SMTT(30) DEF CallInv, m
  <2> QED
    BY <2>1, <2>2, <2>3, <2>4
<1>6. CallInv'
  <2>1. m.op # "write" => m.units = <<>>
    BY <1>1 DEF MsgOK
  <2> QED
    BY <1>5, <2>1 DEF CallInv, Waits, m, q
<1> QED
  BY <1>4, <1>5, <1>6 DEF m

\* A request that is answered at once preserves the invariant if what it does
\* to the slot does, and if an update is forgotten with what was acknowledged.
LEMMA AnswerInv ==
  ASSUME OtaInv, NEW op \in Ops \ {"reboot"}, NEW ok \in BOOLEAN, Answer(op, ok),
         op = "write" => ok = FALSE,
         CountInv', SlotInv',
         \/ acked' = {}
         \/ acked' = acked /\ received' = received
  PROVE  OtaInv'
<1>1. /\ ota_msgq # <<>> /\ Head(ota_msgq).op = op
      /\ ota_msgq' = Tail(ota_msgq) /\ current' = [Head(ota_msgq) EXCEPT !.ok = ok]
      /\ phase' = "signal" /\ UNCHANGED <<client, timeouts>>
  BY DEF Answer, callVars
<1>2. MsgOK(Head(ota_msgq)) /\ Head(ota_msgq) \in Msg
  BY <1>1, HeadOfQueue DEF OtaInv, MsgOK
<1>3. /\ MsgOK(current') /\ current'.op = op /\ current'.from = Head(ota_msgq).from
      /\ current'.live = Head(ota_msgq).live /\ current'.ok = ok
  BY <1>1, <1>2 DEF MsgOK, Msg
<1>4. QueueInv' /\ CallInv'
  BY <1>1, <1>3, TakenInv DEF OtaInv
<1>5. AckInv'
  BY <1>1, <1>3 DEF OtaInv, AckInv
<1>6. CopyInv' /\ acked' \in SUBSET Unit
  BY <1>1 DEF OtaInv, CopyInv
<1> QED
  BY <1>4, <1>5, <1>6 DEF OtaInv

\* What do_abort_update costs.
LEMMA AbortCost ==
  ASSUME CountInv, NEW n \in AbortFaults
  PROVE  n \in Nat /\ n + timeouts + boots <= MaxMishaps
<1>1. n = faults \/ (Mishaps < MaxMishaps /\ n = faults + 1)
  BY FlushFaults DEF AbortFaults
<1> QED
  BY <1>1 DEF CountInv, Mishaps

\* An update that is thrown away, or not yet begun, leaves nothing to be kept.
LEMMA ResetInv ==
  ASSUME Reset, secondary_fa' = FALSE, flash' = Forgotten, boot_pending' \in BOOLEAN,
         total_size' = 0, ota_state' \in {"IDLE", "ERROR"}
  PROVE  SlotInv'
<1>1. flash' \in [Cells -> Unit]
  BY DEF Forgotten, Junk, Unit
<1>2. <<>> \in Seq(Unit) /\ 0 \in 0 .. FlashSize
  BY EmptySeq
<1> QED
  BY <1>1, <1>2 DEF SlotInv, Reset, States

\* An erased slot is a good one to start with.
LEMMA ErasedGood ==
  ASSUME NEW f \in [Cells -> Unit], \A i \in Cells : f[i] = Erased,
         NEW b \in Seq(Unit), NEW u \in Seq(Unit), Len(b) = 0, Len(u) = 0
  PROVE  Good(f, b, u, 0)
<1>1. \A i \in Cells : ~(i <= 0)
  BY DEF Cells
<1> QED
  BY <1>1 DEF Good

LEMMA StartUpdateInv == ASSUME OtaInv, StartUpdate PROVE OtaInv'
<1>1. /\ Answer("start", TRUE) /\ ota_msgq # <<>> /\ acked' = {}
      /\ UNCHANGED <<timeouts, boots>>
  BY DEF StartUpdate, Reset, Answer, callVars
<1>2. CountInv'
  BY <1>1, AbortCost DEF StartUpdate, OtaInv, CountInv, Mishaps
<1>3. total_size' \in Nat
  <2>1. Head(ota_msgq).size \in Sizes \cup {0}
    BY <1>1, HeadOfQueue DEF OtaInv, MsgOK, Msg
  <2>2. total_size' \in Sizes \cup {FlashSize}
    BY <2>1 DEF StartUpdate
  <2> QED
    BY <2>2
<1>4. flash' \in [Cells -> Unit] /\ \A i \in Cells : flash'[i] = Erased
  BY DEF StartUpdate, Erased, Unit
<1>5. <<>> \in Seq(Unit) /\ Len(<<>>) = 0 /\ 0 \in 0 .. FlashSize
  BY EmptySeq
<1>6. /\ write_buffer' = <<>> /\ received' = <<>> /\ bytes_written' = 0
      /\ secondary_fa' = TRUE /\ boot_pending' = FALSE /\ ota_state' = "RECEIVING"
  BY DEF StartUpdate, Reset
<1>7. Good(flash', write_buffer', received', bytes_written')
  BY <1>4, <1>5, <1>6, ErasedGood
<1>8. SlotInv'
  <2>1. Len(write_buffer') = 0 /\ 0 <= total_size' /\ 0 <= BufferSize
    BY <1>3, <1>5, <1>6
  <2> DEFINE l == Len(write_buffer')
  <2>3. bytes_written' = 0 /\ l = 0
    BY <1>6, <2>1
  <2> HIDE DEF l
  <2>4. bytes_written' - l = 0
    BY <2>3
  <2>2. bytes_written' - Len(write_buffer') = 0
    BY <2>4 DEF l
  <2> QED
    BY <1>3, <1>4, <1>5, <1>6, <1>7, <2>1, <2>2, ZeroAligned DEF SlotInv, States
<1> QED
  BY <1>1, <1>2, <1>8, AnswerInv DEF Ops

LEMMA StartFailsInv == ASSUME OtaInv, StartFails PROVE OtaInv'
<1>1. /\ Answer("start", FALSE) /\ acked' = {} /\ Reset
      /\ UNCHANGED <<timeouts, boots>>
  BY DEF StartFails, Reset, Answer, callVars
<1>2. CountInv'
  BY <1>1, AbortCost DEF StartFails, OtaInv, CountInv, Mishaps
<1>3. boot_pending' \in BOOLEAN
  BY DEF StartFails, OtaInv, SlotInv
<1>4. SlotInv'
  BY <1>1, <1>3, ResetInv DEF StartFails
<1> QED
  BY <1>1, <1>2, <1>4, AnswerInv DEF Ops

LEMMA AbortInv == ASSUME OtaInv, Abort PROVE OtaInv'
<1>1. /\ Answer("abort", TRUE) /\ acked' = {} /\ Reset
      /\ UNCHANGED <<timeouts, boots>>
  BY DEF Abort, Reset, Answer, callVars
<1>2. CountInv'
  BY <1>1, AbortCost DEF Abort, OtaInv, CountInv, Mishaps
<1>3. boot_pending' \in BOOLEAN
  BY DEF Abort, OtaInv, SlotInv
<1>4. SlotInv'
  BY <1>1, <1>3, ResetInv DEF Abort
<1> QED
  BY <1>1, <1>2, <1>4, AnswerInv DEF Ops

\* A step that leaves the slot alone.
LEMMA SameSlot ==
  ASSUME SlotInv, UNCHANGED <<ota_state, progressVars, boot_pending>>
  PROVE  SlotInv'
BY DEF SlotInv, progressVars, Good

LEMMA WriteRefusedInv == ASSUME OtaInv, WriteRefused PROVE OtaInv'
<1>1. /\ Answer("write", FALSE) /\ UNCHANGED <<acked, received, faults, timeouts, boots>>
  BY DEF WriteRefused, Answer, callVars, slotVars, progressVars
<1>2. CountInv'
  BY <1>1 DEF OtaInv, CountInv, Mishaps
<1>3. SlotInv'
  BY SameSlot DEF WriteRefused, OtaInv, slotVars
<1> QED
  BY <1>1, <1>2, <1>3, AnswerInv DEF Ops

LEMMA ConfirmInv == ASSUME OtaInv, Confirm PROVE OtaInv'
<1>1. PICK ok \in BOOLEAN : Answer("confirm", ok)
  BY DEF Confirm
<1>2. UNCHANGED <<acked, received, timeouts, boots>>
  BY <1>1 DEF Confirm, Answer, callVars, slotVars, progressVars
<1>3. CountInv'
  <2>1. faults' = faults \/ (Mishaps < MaxMishaps /\ faults' = faults + 1)
    BY DEF Confirm
  <2> QED
    BY <1>2, <2>1 DEF OtaInv, CountInv, Mishaps
<1>4. SlotInv'
  BY SameSlot DEF Confirm, OtaInv, slotVars
<1> QED
  BY <1>1, <1>2, <1>3, <1>4, AnswerInv DEF Ops

LEMMA FinalizeInv == ASSUME OtaInv, Finalize PROVE OtaInv'
<1>1. /\ Answer("finalize", TRUE) /\ secondary_fa
      /\ UNCHANGED <<acked, received, bytes_written, total_size, timeouts, boots>>
  BY DEF Finalize, Answer, callVars
<1>2. PICK o \in FlushOutcomes(bytes_written, write_buffer) :
        /\ o.ok /\ IsMagic(o.flash[1])
        /\ flash' = o.flash /\ write_buffer' = o.buffer /\ faults' = o.faults
  BY DEF Finalize
<1>3. ota_state' = "COMPLETE" /\ boot_pending' = TRUE /\ secondary_fa' = FALSE
  BY DEF Finalize
<1>4. CountInv'
  BY <1>1, <1>2, FlushFaults DEF OtaInv, CountInv, Mishaps
<1>5. Good(flash, write_buffer, received, bytes_written)
  BY <1>1 DEF OtaInv, SlotInv
<1>6. Good(o.flash, o.buffer, received, bytes_written) /\ o.buffer = <<>>
  BY <1>1, <1>2, <1>5, FlushGood
<1>7. /\ o.flash \in [Cells -> Unit] /\ o.buffer \in Seq(Unit)
      /\ Len(received) = bytes_written /\ bytes_written \in 0 .. FlashSize
      /\ \A i \in Cells : i <= bytes_written - Len(o.buffer) => o.flash[i] = received[i]
  BY <1>6 DEF Good
<1>8. Len(o.buffer) = 0
  BY <1>6, EmptySeq
<1>9. \A i \in 1 .. Len(received) : o.flash[i] = received[i]
  BY <1>7, <1>8 DEF Cells
<1>10. SlotInv'
  <2>1. /\ flash' = o.flash /\ write_buffer' = <<>> /\ write_buffer' \in Seq(Unit)
        /\ received' = received /\ bytes_written' = bytes_written
        /\ total_size' = total_size /\ IsMagic(flash'[1])
    BY <1>1, <1>2, <1>6, <1>7
  <2>2. received \in Seq(Unit) /\ total_size \in Nat /\ Len(received) <= FlashSize
    BY <1>7 DEF OtaInv, SlotInv
  <2> QED
    BY <1>3, <1>7, <1>9, <2>1, <2>2 DEF SlotInv, States
<1> QED
  BY <1>1, <1>4, <1>10, AnswerInv DEF Ops

LEMMA FinalizeFailsInv == ASSUME OtaInv, FinalizeFails PROVE OtaInv'
<1>1. /\ Answer("finalize", FALSE)
      /\ UNCHANGED <<acked, received, bytes_written, total_size, secondary_fa,
                     boot_pending, timeouts, boots>>
  BY DEF FinalizeFails, Answer, callVars
<1>2. CASE UNCHANGED <<ota_state, write_buffer, flash, faults>>
  <2>1. CountInv'
    BY <1>1, <1>2 DEF OtaInv, CountInv, Mishaps
  <2>2. SlotInv'
    BY <1>1, <1>2, SameSlot DEF OtaInv, progressVars
  <2> QED
    BY <1>1, <2>1, <2>2, AnswerInv DEF Ops
<1>3. ASSUME secondary_fa, ota_state = "RECEIVING",
             NEW o \in FlushOutcomes(bytes_written, write_buffer),
             write_buffer' = o.buffer, flash' = o.flash,
             \/ ~o.ok /\ faults' = o.faults /\ UNCHANGED ota_state
             \/ o.ok /\ faults' = o.faults /\ ota_state' = "ERROR"
             \/ o.ok /\ Mishaps < MaxMishaps /\ faults' = o.faults + 1 /\ ota_state' = "ERROR"
      PROVE  OtaInv'
  <2>1. CountInv'
    <3>1. faults' = faults \/ (Mishaps < MaxMishaps /\ faults' = faults + 1)
      BY <1>3, FlushFaults
    <3> QED
      BY <1>1, <3>1 DEF OtaInv, CountInv, Mishaps
  <2>2. Good(flash, write_buffer, received, bytes_written)
    BY <1>3 DEF OtaInv, SlotInv
  <2>3. /\ Good(o.flash, o.buffer, received, bytes_written)
        /\ o.ok => o.buffer = <<>>
        /\ ~o.ok => o.buffer = write_buffer
    BY <1>3, <2>2, FlushGood
  <2>4. o.flash \in [Cells -> Unit] /\ o.buffer \in Seq(Unit)
    BY <2>3 DEF Good
  <2>5. Len(o.buffer) <= BufferSize
    BY <1>3, <2>3, EmptySeq DEF OtaInv, SlotInv
  <2>6. SlotInv'
    <3>1. /\ total_size \in Nat /\ bytes_written \in 0 .. FlashSize
          /\ boot_pending \in BOOLEAN /\ received \in Seq(Unit)
          /\ bytes_written <= total_size
          /\ bytes_written - Len(write_buffer) \in Nat
          /\ (bytes_written - Len(write_buffer)) % WriteAlign = 0
      BY <1>3 DEF OtaInv, SlotInv
    <3>2. \/ ota_state' = "RECEIVING" /\ o.buffer = write_buffer
          \/ ota_state' = "ERROR" /\ o.buffer = <<>>
      BY <1>3, <2>3
    <3>3. Good(flash', write_buffer', received', bytes_written')
      BY <1>1, <1>3, <2>3
    <3>4. /\ flash' \in [Cells -> Unit] /\ write_buffer' \in Seq(Unit)
          /\ Len(write_buffer') <= BufferSize
      BY <1>3, <2>4, <2>5
    <3> QED
      BY <1>1, <1>3, <3>1, <3>2, <3>3, <3>4 DEF SlotInv, States
  <2> QED
    BY <1>1, <2>1, <2>6, AnswerInv DEF Ops
<1> QED
  BY <1>2, <1>3 DEF FinalizeFails

LEMMA WriteChunkInv == ASSUME OtaInv, WriteChunk PROVE OtaInv'
<1>1. /\ ota_msgq # <<>> /\ Head(ota_msgq).op = "write"
      /\ ota_msgq' = Tail(ota_msgq) /\ current' = Head(ota_msgq) /\ phase' = "copy"
      /\ UNCHANGED <<ota_state, progressVars, acked, boot_pending, client, timeouts,
                     faults, boots>>
      /\ WriteAllowed(Len(current'.units))
  BY DEF WriteChunk, callVars, slotVars
<1>2. MsgOK(current')
  BY <1>1, HeadOfQueue DEF OtaInv
<1>3. /\ QueueInv' /\ CallInv'
      /\ timeouts = 0 => client[current'.from].chunk = current'.units
  BY <1>1, <1>2, TakenInv DEF OtaInv
<1>4. CountInv'
  BY <1>1 DEF OtaInv, CountInv, Mishaps
<1>5. SlotInv'
  BY <1>1, SameSlot DEF OtaInv
<1>6. CopyInv'
  BY <1>1 DEF CopyInv, WriteAllowed, progressVars
<1>7. AckInv' /\ acked' \in SUBSET Unit
  BY <1>1, <1>3 DEF OtaInv, AckInv, progressVars
<1> QED
  BY <1>3, <1>4, <1>5, <1>6, <1>7 DEF OtaInv

-----------------------------------------------------------------------------
(* One turn of the copy loop.                                               *)

\* What is added to a good buffer is added to the update.
LEMMA GoodGrows ==
  ASSUME NEW f, NEW b, NEW u, NEW n, Good(f, b, u, n),
         NEW p \in Seq(Unit), n + Len(p) <= FlashSize
  PROVE  /\ Good(f, b \o p, u \o p, n + Len(p))
         /\ Len(b \o p) = Len(b) + Len(p)
<1> DEFINE bp == b \o p
           up == u \o p
           np == n + Len(p)
<1>1. /\ f \in [Cells -> Unit] /\ b \in Seq(Unit) /\ u \in Seq(Unit)
      /\ n \in 0 .. FlashSize /\ Len(u) = n /\ Len(b) <= n
      /\ Len(b) \in Nat /\ Len(p) \in Nat
  BY LenProperties DEF Good
<1>2. /\ bp \in Seq(Unit) /\ Len(bp) = Len(b) + Len(p)
      /\ \A i \in 1 .. Len(b) + Len(p) : bp[i] = IF i <= Len(b) THEN b[i] ELSE p[i - Len(b)]
  BY <1>1, ConcatProperties
<1>3. /\ up \in Seq(Unit) /\ Len(up) = n + Len(p)
      /\ \A i \in 1 .. n + Len(p) : up[i] = IF i <= n THEN u[i] ELSE p[i - n]
  BY <1>1, ConcatProperties
<1> HIDE DEF bp, up
<1>4. np - Len(bp) = n - Len(b) /\ np \in 0 .. FlashSize /\ Len(bp) <= np
  BY <1>1, <1>2
<1>5. ASSUME NEW k \in 1 .. Len(bp) PROVE bp[k] = up[(n - Len(b)) + k]
  <2>1. k \in 1 .. Len(b) + Len(p) /\ (n - Len(b)) + k \in 1 .. n + Len(p)
    BY <1>1, <1>2
  <2>2. CASE k <= Len(b)
    <3>1. (n - Len(b)) + k <= n /\ k \in 1 .. Len(b)
      BY <1>1, <2>1, <2>2
    <3>2. b[k] = u[(n - Len(b)) + k]
      BY <3>1 DEF Good
    <3> QED
      BY <1>2, <1>3, <2>1, <2>2, <3>1, <3>2
  <2>3. CASE ~(k <= Len(b))
    <3>1. ~((n - Len(b)) + k <= n) /\ ((n - Len(b)) + k) - n = k - Len(b)
      BY <1>1, <2>1, <2>3
    <3> QED
      BY <1>2, <1>3, <2>1, <2>3, <3>1
  <2> QED
    BY <2>2, <2>3
<1>6. \A i \in Cells : i <= n => up[i] = u[i]
  BY <1>1, <1>3 DEF Cells
<1>7. \A i \in Cells : i <= n - Len(b) => f[i] = up[i]
  <2>1. \A i \in Cells : i <= n - Len(b) => i <= n /\ f[i] = u[i]
    BY <1>1 DEF Cells, Good
  <2> QED
    BY <1>6, <2>1
<1>8. \A i \in Cells : i > n - Len(b) => f[i] = Erased \/ (i <= np /\ f[i] = up[i])
  <2>1. \A i \in Cells : i > n - Len(b) => f[i] = Erased \/ (i <= n /\ f[i] = u[i])
    BY DEF Good
  <2>2. \A i \in Cells : i <= n => i <= np
    BY <1>1 DEF Cells
  <2> QED
    BY <1>6, <2>1, <2>2
<1> HIDE DEF np
<1>9. Good(f, bp, up, np)
  BY <1>1, <1>2, <1>3, <1>4, <1>5, <1>7, <1>8 DEF Good, np
<1> QED
  BY <1>2, <1>9 DEF bp, up, np

LEMMA CopyChunkInv == ASSUME OtaInv, CopyChunk PROVE OtaInv'
<1> DEFINE n == CopySize
           units == current.units
           rest == SubSeq(units, n + 1, Len(units))
           sent == SubSeq(units, 1, n)
           written == bytes_written + n
<1>1. /\ phase = "copy" /\ ota_state = "RECEIVING" /\ secondary_fa /\ current.op = "write"
      /\ bytes_written + Len(units) <= FlashSize /\ bytes_written + Len(units) <= total_size
      /\ MsgOK(current) /\ units \in Seq(Unit) /\ Len(units) \in Nat
      /\ write_buffer \in Seq(Unit) /\ Len(write_buffer) \in Nat
      /\ received \in Seq(Unit) /\ bytes_written \in Nat /\ total_size \in Nat
      /\ Len(write_buffer) <= BufferSize
      /\ bytes_written - Len(write_buffer) \in Nat
  BY LenProperties DEF OtaInv, CopyInv, SlotInv, QueueInv, CopyChunk, MsgOK, Msg
<1>a. (bytes_written - Len(write_buffer)) % WriteAlign = 0
  BY <1>1 DEF OtaInv, SlotInv
<1>b. Good(flash, write_buffer, received, bytes_written)
  BY <1>1 DEF OtaInv, SlotInv
<1>2. /\ n \in 0 .. Len(units) /\ n \in Nat /\ Len(write_buffer) + n <= BufferSize
  BY <1>1 DEF CopySize, Min2
<1>3. /\ sent \in Seq(Unit) /\ rest \in Seq(Unit)
      /\ Len(sent) = n /\ Len(rest) = Len(units) - n
      /\ UnitsOf(units) \subseteq UnitsOf(sent) \cup UnitsOf(rest)
  BY <1>1, <1>2, ChunkSplit
<1>4. PICK piece \in {sent} \cup (IF current.live THEN {} ELSE {[i \in 1 .. n |-> Junk]}) :
        /\ received' = received \o piece
        /\ bytes_written' = written
        /\ \E o \in IF FlushDue(write_buffer \o piece)
                      THEN FlushOutcomes(bytes_written', write_buffer \o piece)
                      ELSE {[ok |-> TRUE, flash |-> flash,
                             buffer |-> write_buffer \o piece, faults |-> faults]} :
             /\ write_buffer' = o.buffer
             /\ flash' = o.flash
             /\ faults' = o.faults
             /\ current' = [current EXCEPT !.units = rest, !.ok = o.ok]
             /\ phase' = IF o.ok /\ rest # <<>> THEN "copy" ELSE "signal"
  BY DEF CopyChunk
<1> DEFINE full == write_buffer \o piece
<1>5. PICK o \in IF FlushDue(full) THEN FlushOutcomes(written, full)
                 ELSE {[ok |-> TRUE, flash |-> flash, buffer |-> full, faults |-> faults]} :
        /\ write_buffer' = o.buffer
        /\ flash' = o.flash
        /\ faults' = o.faults
        /\ current' = [current EXCEPT !.units = rest, !.ok = o.ok]
        /\ phase' = IF o.ok /\ rest # <<>> THEN "copy" ELSE "signal"
  BY <1>4
<1>6. UNCHANGED <<ota_state, total_size, secondary_fa, boot_pending, ota_msgq,
                  acked, client, timeouts, boots>>
  BY DEF CopyChunk, callVars
<1>c. /\ bytes_written + n <= bytes_written + Len(units)
      /\ written + (Len(units) - n) = bytes_written + Len(units)
      /\ written - (Len(write_buffer) + n) = bytes_written - Len(write_buffer)
      /\ written - 0 = (bytes_written - Len(write_buffer)) + (Len(write_buffer) + n)
      /\ written \in Nat
  <2> DEFINE l == Len(write_buffer)
             k == Len(units)
  <2>1. n <= k /\ n \in Nat /\ l \in Nat /\ k \in Nat /\ bytes_written \in Nat
    BY <1>1, <1>2
  <2> HIDE DEF n, l, k
  <2>2. /\ bytes_written + n <= bytes_written + k
        /\ written + (k - n) = bytes_written + k
        /\ written - (l + n) = bytes_written - l
        /\ written - 0 = (bytes_written - l) + (l + n)
    BY <2>1, CopyCounts
  <2>3. written \in Nat
    BY <2>1
  <2> QED
    BY <2>2, <2>3 DEF l, k
<1> HIDE DEF n, rest, sent
<1>7. piece \in Seq(Unit) /\ Len(piece) = n
  <2>1. CASE piece = sent
    BY <1>3, <2>1
  <2>2. CASE piece = [i \in 1 .. n |-> Junk]
    <3>1. \A i \in 1 .. n : Junk \in Unit
      BY DEF Junk, Unit
    <3>2. n \in Nat
      BY <1>1, <1>2
    <3> QED
      BY <2>2, <3>1, <3>2
  <2> QED
    BY <1>4, <2>1, <2>2
<1>8. /\ Good(flash, full, received', bytes_written')
      /\ Len(full) = Len(write_buffer) + n
      /\ bytes_written' = written
  <2>1. bytes_written + Len(piece) <= FlashSize
    BY <1>1, <1>2, <1>7, <1>c
  <2>2. /\ Good(flash, write_buffer \o piece, received \o piece, bytes_written + Len(piece))
        /\ Len(write_buffer \o piece) = Len(write_buffer) + Len(piece)
    BY <1>b, <1>7, <2>1, GoodGrows
  <2> QED
    BY <1>4, <1>7, <2>2
<1> HIDE DEF full
<1>9. /\ Good(o.flash, o.buffer, received', bytes_written')
      /\ o.ok \in BOOLEAN
      /\ \/ o.buffer = full
         \/ o.buffer = <<>> /\ FlushDue(full)
      /\ \/ o.faults = faults
         \/ Mishaps < MaxMishaps /\ o.faults = faults + 1
  <2>1. CASE FlushDue(full)
    <3>1. o \in FlushOutcomes(bytes_written', full)
      BY <1>5, <1>8, <2>1
    <3> QED
      BY <1>1, <1>8, <2>1, <3>1, FlushGood
  <2>2. CASE ~FlushDue(full)
    <3>1. o = [ok |-> TRUE, flash |-> flash, buffer |-> full, faults |-> faults]
      BY <1>5, <2>2
    <3>2. o.ok = TRUE /\ o.flash = flash /\ o.buffer = full /\ o.faults = faults
      BY <3>1
    <3> QED
      BY <1>8, <3>2
  <2> QED
    BY <2>1, <2>2
<1>10. CountInv'
  BY <1>5, <1>6, <1>9 DEF OtaInv, CountInv, Mishaps
<1>11. /\ MsgOK(current') /\ current'.op = current.op /\ current'.from = current.from
       /\ current'.live = current.live /\ current'.units = rest /\ current'.ok = o.ok
  BY <1>1, <1>3, <1>5, <1>9 DEF MsgOK, Msg
<1>12. phase' \in {"copy", "signal"} /\ (phase' = "copy" => rest # <<>>)
       /\ (phase' = "signal" /\ o.ok => rest = <<>>)
  BY <1>5
<1>13. QueueInv'
  BY <1>1, <1>6, <1>11, <1>12 DEF OtaInv, QueueInv, Phases
<1>14. CallInv'
  BY <1>1, <1>6, <1>11, <1>12 DEF OtaInv, CallInv, Waits
<1>15. CopyInv'
  <2>1. written + Len(rest) = bytes_written + Len(units)
    BY <1>3, <1>c
  <2> QED
    BY <1>1, <1>4, <1>6, <1>11, <2>1 DEF CopyInv
<1>16. SlotInv'
  <2>1. /\ o.flash \in [Cells -> Unit] /\ o.buffer \in Seq(Unit)
        /\ received' \in Seq(Unit) /\ bytes_written' \in 0 .. FlashSize
    BY <1>9 DEF Good
  <2>2. bytes_written' <= total_size
    BY <1>1, <1>4, <1>c, SMTT(30)
  <2>3. /\ Len(o.buffer) <= BufferSize
        /\ bytes_written' - Len(o.buffer) \in Nat
        /\ (bytes_written' - Len(o.buffer)) % WriteAlign = 0
    <3>1. CASE o.buffer = full
      <4>1. bytes_written' - Len(o.buffer) = bytes_written - Len(write_buffer)
        BY <1>8, <1>c, <3>1
      <4>2. Len(o.buffer) <= BufferSize
        BY <1>2, <1>8, <3>1
      <4> QED
        BY <1>1, <1>a, <4>1, <4>2
    <3>2. CASE o.buffer = <<>> /\ FlushDue(full)
      <4>1. Len(o.buffer) = 0
        BY <3>2, EmptySeq
      <4>2. Len(write_buffer) + n = BufferSize
        BY <1>1, <1>2, <1>8, <3>2 DEF FlushDue
      <4>3. bytes_written' - Len(o.buffer) = (bytes_written - Len(write_buffer)) + BufferSize
        BY <1>8, <1>c, <4>1, <4>2
      <4>4. /\ bytes_written' - Len(o.buffer) \in Nat
            /\ (bytes_written' - Len(o.buffer)) % WriteAlign = 0
        BY <1>1, <1>a, <4>3, SumAligned
      <4>5. Len(o.buffer) <= BufferSize
        BY <4>1
      <4> QED
        BY <4>4, <4>5
    <3> QED
      BY <1>9, <3>1, <3>2
  <2>4. UNCHANGED <<ota_state, total_size, secondary_fa, boot_pending>>
        /\ write_buffer' = o.buffer /\ flash' = o.flash /\ boot_pending \in BOOLEAN
    BY <1>5, <1>6 DEF OtaInv, SlotInv
  <2> QED
    BY <1>1, <1>9, <2>1, <2>2, <2>3, <2>4 DEF SlotInv, States
<1>17. AckInv'
  <2> SUFFICES ASSUME timeouts = 0
               PROVE  /\ acked \subseteq UnitsOf(received')
                      /\ phase' = "copy" =>
                           UnitsOf(client[current.from].chunk)
                             \subseteq UnitsOf(received') \cup UnitsOf(rest)
                      /\ phase' = "signal" /\ o.ok =>
                           UnitsOf(client[current.from].chunk) \subseteq UnitsOf(received')
    BY <1>6, <1>11 DEF AckInv
  <2>1. piece = sent
    BY <1>1, <1>4 DEF OtaInv, CallInv, Waits
  <2>2. UnitsOf(received') = UnitsOf(received) \cup UnitsOf(sent)
    BY <1>1, <1>3, <1>4, <2>1, UnitsOfConcat
  <2>3. UnitsOf(client[current.from].chunk) \subseteq UnitsOf(received) \cup UnitsOf(units)
        /\ acked \subseteq UnitsOf(received)
    BY <1>1 DEF OtaInv, AckInv
  <2>4. UnitsOf(client[current.from].chunk) \subseteq UnitsOf(received') \cup UnitsOf(rest)
    BY <1>3, <2>2, <2>3
  <2>5. rest = <<>> => UnitsOf(rest) = {}
    BY DEF UnitsOf
  <2> QED
    BY <1>12, <2>2, <2>3, <2>4, <2>5
<1> QED
  BY <1>6, <1>10, <1>13, <1>14, <1>15, <1>16, <1>17 DEF OtaInv

-----------------------------------------------------------------------------
(* The end of a request.                                                    *)

\* A call that is over leaves its messages in the queue.
LEMMA OrphanedOK ==
  ASSUME QueueInv, NEW c
  PROVE  LET q == OrphanedQueue(c)
         IN  /\ q \in Seq(Msg) /\ Len(q) = Len(ota_msgq)
             /\ \A i \in 1 .. Len(ota_msgq) : MsgOK(q[i])
<1> DEFINE q == OrphanedQueue(c)
<1>1. /\ ota_msgq \in Seq(Msg) /\ Len(ota_msgq) \in Nat
      /\ DOMAIN ota_msgq = 1 .. Len(ota_msgq)
      /\ \A i \in 1 .. Len(ota_msgq) : MsgOK(ota_msgq[i])
  BY LenProperties DEF QueueInv
<1>2. \A i \in 1 .. Len(ota_msgq) : MsgOK(Orphaned(ota_msgq[i], c))
  BY <1>1 DEF MsgOK, Msg, Orphaned
<1>3. q = [i \in 1 .. Len(ota_msgq) |-> Orphaned(ota_msgq[i], c)]
  BY <1>1 DEF OrphanedQueue
<1>4. \A i \in 1 .. Len(ota_msgq) : Orphaned(ota_msgq[i], c) \in Msg
  BY <1>2 DEF MsgOK
<1> HIDE DEF q
<1>5. q \in Seq(Msg) /\ Len(q) = Len(ota_msgq)
  BY <1>1, <1>3, <1>4
<1> QED
  BY <1>2, <1>3, <1>5 DEF q

LEMMA OrphanedMessage ==
  ASSUME NEW m, MsgOK(m), NEW c
  PROVE  /\ MsgOK(Orphaned(m, c))
         /\ Orphaned(m, c).op = m.op /\ Orphaned(m, c).units = m.units
BY DEF MsgOK, Msg, Orphaned

\* A client that takes an answer is idle, and the others are as they were.
ClientsOK ==
  /\ client \in [Clients -> [busy : BOOLEAN, chunk : Seq(Unit), sent : Nat]]
  /\ \A c \in Clients : /\ client[c].sent + Len(client[c].chunk) <= FlashSize
                        /\ ~client[c].busy => client[c].chunk = <<>>

LEMMA WakeOK ==
  ASSUME ClientsOK, NEW c \in Clients, NEW ok \in BOOLEAN, Wake(c, ok)
  PROVE  /\ ClientsOK'
         /\ \A d \in Clients : d # c => client'[d] = client[d]
<1> DEFINE now == IF ok THEN client[c].sent + Len(client[c].chunk) ELSE client[c].sent
<1>1. client' = [client EXCEPT ![c] = [busy |-> FALSE, chunk |-> <<>>, sent |-> now]]
  BY DEF Wake
<1>2. /\ client[c].chunk \in Seq(Unit) /\ client[c].sent \in Nat
      /\ client[c].sent + Len(client[c].chunk) <= FlashSize
  BY DEF ClientsOK
<1>3. Len(client[c].chunk) \in Nat
  BY <1>2, LenProperties
<1>4. now \in Nat /\ now <= FlashSize
  BY <1>2, <1>3
<1> HIDE DEF now
<1>5. <<>> \in Seq(Unit) /\ Len(<<>>) = 0
  BY EmptySeq
<1>6. /\ client'[c] = [busy |-> FALSE, chunk |-> <<>>, sent |-> now]
      /\ \A d \in Clients : d # c => client'[d] = client[d]
  BY <1>1 DEF ClientsOK
<1>7. /\ client'[c].chunk = <<>> /\ client'[c].sent = now
      /\ client'[c] \in [busy : BOOLEAN, chunk : Seq(Unit), sent : Nat]
  BY <1>4, <1>5, <1>6
<1>8. client' \in [Clients -> [busy : BOOLEAN, chunk : Seq(Unit), sent : Nat]]
  <2>1. client' = [d \in Clients |-> client'[d]]
    BY <1>1 DEF ClientsOK
  <2>2. \A d \in Clients : client'[d] \in [busy : BOOLEAN, chunk : Seq(Unit), sent : Nat]
    BY <1>6, <1>7 DEF ClientsOK
  <2> QED
    BY <2>1, <2>2
<1>9. Len(client'[c].chunk) = 0
  BY <1>5, <1>7
<1>10. client'[c].sent + Len(client'[c].chunk) <= FlashSize
  BY <1>4, <1>7, <1>9
<1>11. ASSUME NEW d \in Clients
       PROVE  /\ client'[d].sent + Len(client'[d].chunk) <= FlashSize
              /\ ~client'[d].busy => client'[d].chunk = <<>>
  BY <1>6, <1>7, <1>10 DEF ClientsOK
<1> QED
  BY <1>6, <1>8, <1>11 DEF ClientsOK

LEMMA ChunkUnits ==
  ASSUME NEW u \in Seq(Unit)
  PROVE  UnitsOf(u) \subseteq Unit
BY LenProperties, ElementOfSeq DEF UnitsOf

LEMMA SignalInv == ASSUME OtaInv, Signal PROVE OtaInv'
<1> DEFINE c == current.from
<1>1. /\ phase = "signal" /\ phase' = "check" /\ c \in Clients /\ current.ok \in BOOLEAN
      /\ ClientsOK /\ MsgOK(current)
      /\ UNCHANGED <<ota_state, progressVars, boot_pending, current, timeouts, faults, boots>>
  BY DEF OtaInv, QueueInv, ClientsOK, Signal, MsgOK, Msg
<1> HIDE DEF c
<1>2. CASE UNCHANGED <<client, acked, ota_msgq>>
  BY <1>1, <1>2, SameSlot
     DEF OtaInv, QueueInv, CountInv, CopyInv, CallInv, AckInv, Waits, Mishaps, Phases,
         progressVars
<1>3. ASSUME Wake(c, current.ok),
             \/ current.live /\ UNCHANGED ota_msgq
             \/ ~current.live /\ ota_msgq' = OrphanedQueue(c)
      PROVE  OtaInv'
  <2>1. /\ ClientsOK'
        /\ \A d \in Clients : d # c => client'[d] = client[d]
    BY <1>1, <1>3, WakeOK
  <2>2. /\ ota_msgq' \in Seq(Msg) /\ Len(ota_msgq') = Len(ota_msgq)
        /\ \A i \in 1 .. Len(ota_msgq) : MsgOK(ota_msgq'[i])
    BY <1>3, OrphanedOK DEF OtaInv, QueueInv
  <2>3. QueueInv'
    BY <1>1, <2>1, <2>2 DEF OtaInv, QueueInv, ClientsOK, Phases
  <2>4. ASSUME timeouts = 0
        PROVE  /\ \A i \in 1 .. Len(ota_msgq) : ota_msgq[i].from # c
               /\ UNCHANGED ota_msgq
               /\ current.op # "write" => client[c].chunk = <<>>
    BY <1>1, <1>3, <2>4 DEF OtaInv, CallInv, Waits, c
  <2>5. CallInv'
    <3> SUFFICES ASSUME timeouts = 0 PROVE CallInv'
      BY <1>1 DEF CallInv
    <3>1. ASSUME NEW i \in 1 .. Len(ota_msgq), ota_msgq[i].op # "reboot"
          PROVE  client'[ota_msgq[i].from] = client[ota_msgq[i].from]
      <4>1. ota_msgq[i].from \in Clients
        BY <3>1 DEF OtaInv, QueueInv, MsgOK, Msg
      <4> QED
        BY <2>1, <2>4, <4>1
    <3> QED
      BY <1>1, <2>4, <3>1 DEF OtaInv, CallInv, Waits
  <2>6. acked' = IF current.ok THEN acked \cup UnitsOf(client[c].chunk) ELSE acked
    BY <1>3 DEF Wake
  <2>7. acked' \in SUBSET Unit
    <3>1. client[c].chunk \in Seq(Unit)
      BY <1>1 DEF ClientsOK
    <3>2. UnitsOf(client[c].chunk) \subseteq Unit
      BY <3>1, ChunkUnits
    <3> QED
      BY <2>6, <3>2 DEF OtaInv
  <2>8. AckInv'
    <3> SUFFICES ASSUME timeouts = 0 PROVE acked' \subseteq UnitsOf(received)
      BY <1>1 DEF AckInv, progressVars
    <3>1. UnitsOf(<<>>) = {}
      BY DEF UnitsOf
    <3>2. current.ok => UnitsOf(client[c].chunk) \subseteq UnitsOf(received)
      BY <1>1, <2>4, <3>1 DEF OtaInv, AckInv, c
    <3> QED
      BY <2>6, <3>2 DEF OtaInv, AckInv
  <2>9. CountInv' /\ CopyInv'
    BY <1>1 DEF OtaInv, CountInv, CopyInv, Mishaps
  <2>10. SlotInv'
    BY <1>1, SameSlot DEF OtaInv
  <2> QED
    BY <2>3, <2>5, <2>7, <2>8, <2>9, <2>10 DEF OtaInv
<1> QED
  BY <1>2, <1>3 DEF Signal, c

LEMMA NoMessageOK == MsgOK(NoMessage) /\ NoMessage.op = "reboot" /\ NoMessage.from = NoClient
<1>1. <<>> \in Seq(Unit)
  BY EmptySeq
<1> QED
  BY <1>1 DEF MsgOK, Msg, NoMessage, Ops

LEMMA CheckResultInv == ASSUME OtaInv, CheckResult PROVE OtaInv'
<1>1. /\ phase = "check" /\ phase' = "wait" /\ current' = NoMessage
      /\ UNCHANGED <<progressVars, acked, boot_pending, ota_msgq, client, timeouts, faults, boots>>
      /\ ota_state' = "ERROR" \/ ota_state' = ota_state
  BY DEF CheckResult, slotVars, callVars
<1>2. QueueInv'
  BY <1>1, NoMessageOK DEF OtaInv, QueueInv, Phases
<1>3. CountInv' /\ CopyInv' /\ CallInv' /\ AckInv' /\ acked' \in SUBSET Unit
  BY <1>1 DEF OtaInv, CountInv, CopyInv, CallInv, AckInv, Waits, Mishaps, progressVars
<1>4. SlotInv'
  BY <1>1 DEF OtaInv, SlotInv, progressVars, Good, States
<1> QED
  BY <1>2, <1>3, <1>4 DEF OtaInv

-----------------------------------------------------------------------------
(* Resets.                                                                  *)

LEMMA InitInv == ASSUME Init PROVE OtaInv
<1> USE DEF Init
<1>0. CountInv
  BY DEF CountInv, Mishaps
<1>1. /\ <<>> \in Seq(Unit) /\ <<>> \in Seq(Msg) /\ 0 \in 0 .. FlashSize
  BY EmptySeq
<1>2. Len(ota_msgq) = 0 /\ ota_msgq \in Seq(Msg)
  BY EmptySeq
<1>3. AtRest \in [busy : BOOLEAN, chunk : Seq(Unit), sent : Nat]
  BY <1>1 DEF AtRest
<1>4. \A c \in Clients : client[c].sent + Len(client[c].chunk) <= FlashSize
  <2> TAKE c \in Clients
  <2>1. client[c].sent = 0 /\ client[c].chunk = <<>>
    BY DEF AtRest
  <2>2. Len(client[c].chunk) = 0
    BY <2>1, EmptySeq
  <2> QED
    BY <2>1, <2>2
<1>5. QueueInv
  BY <1>2, <1>3, <1>4, NoMessageOK DEF QueueInv, Phases, AtRest
<1>6. flash \in [Cells -> Unit]
  BY DEF Forgotten, Junk, Unit
<1>7. SlotInv
  BY <1>1, <1>6 DEF SlotInv, States
<1>8. CopyInv /\ CallInv /\ AckInv
  BY <1>2 DEF CopyInv, CallInv, AckInv
<1> QED
  BY <1>0, <1>5, <1>7, <1>8 DEF OtaInv

LEMMA PowerUpInv == ASSUME PowerUp, CountInv' PROVE OtaInv'
<1>1. /\ ota_state' = "IDLE" /\ total_size' = 0 /\ bytes_written' = 0 /\ secondary_fa' = FALSE
      /\ write_buffer' = <<>> /\ received' = <<>> /\ acked' = {} /\ flash' = Forgotten
      /\ boot_pending' = FALSE /\ ota_msgq' = <<>> /\ phase' = "wait" /\ current' = NoMessage
      /\ client' = [c \in Clients |-> AtRest]
  BY DEF PowerUp, Reset
<1>2. /\ <<>> \in Seq(Unit) /\ <<>> \in Seq(Msg) /\ 0 \in 0 .. FlashSize
  BY EmptySeq
<1>3. Len(ota_msgq') = 0 /\ ota_msgq' \in Seq(Msg)
  BY <1>1, EmptySeq
<1>4. AtRest \in [busy : BOOLEAN, chunk : Seq(Unit), sent : Nat]
  BY <1>2 DEF AtRest
<1>5. \A c \in Clients : client'[c].sent + Len(client'[c].chunk) <= FlashSize
  <2> TAKE c \in Clients
  <2>1. client'[c].sent = 0 /\ client'[c].chunk = <<>>
    BY <1>1 DEF AtRest
  <2>2. Len(client'[c].chunk) = 0
    BY <2>1, EmptySeq
  <2> QED
    BY <2>1, <2>2
<1>6. QueueInv'
  BY <1>1, <1>3, <1>4, <1>5, NoMessageOK DEF QueueInv, Phases, AtRest
<1>7. flash' \in [Cells -> Unit]
  BY <1>1 DEF Forgotten, Junk, Unit
<1>8. SlotInv'
  BY <1>1, <1>2, <1>7 DEF SlotInv, States
<1>9. CopyInv' /\ CallInv' /\ AckInv' /\ acked' \in SUBSET Unit
  BY <1>1, <1>3 DEF CopyInv, CallInv, AckInv
<1> QED
  BY <1>6, <1>8, <1>9 DEF OtaInv

LEMMA RebootInv == ASSUME OtaInv, Reboot PROVE OtaInv'
<1>1. CountInv'
  BY DEF Reboot, PowerUp, OtaInv, CountInv, Mishaps
<1> QED
  BY <1>1, PowerUpInv DEF Reboot

LEMMA PowerLossInv == ASSUME OtaInv, PowerLoss PROVE OtaInv'
<1>1. CountInv'
  BY DEF PowerLoss, PowerUp, OtaInv, CountInv, Mishaps
<1> QED
  BY <1>1, PowerUpInv DEF PowerLoss

-----------------------------------------------------------------------------
(* The clients.                                                             *)

\* A request is put at the end of the queue.
LEMMA SendInv ==
  ASSUME OtaInv, NEW c \in Clients, NEW m, Send(c, m), MsgOK(m), ClientsOK', CountInv',
         \A d \in Clients : d # c => client'[d] = client[d],
         \/ m.op = "reboot" /\ UNCHANGED client
         \/ /\ m.op # "reboot" /\ m.live /\ m.from = c
            /\ client'[c].busy /\ client'[c].chunk = m.units
  PROVE  OtaInv'
<1> DEFINE q == Append(ota_msgq, m)
           l == Len(ota_msgq)
<1>1. /\ ~client[c].busy /\ l < QueueSize /\ ota_msgq' = q
      /\ UNCHANGED <<ota_state, progressVars, acked, boot_pending, phase, current, timeouts>>
  BY DEF Send, slotVars
<1>2. ota_msgq \in Seq(Msg) /\ l \in Nat /\ m \in Msg
  BY LenProperties DEF OtaInv, QueueInv, MsgOK
<1>3. /\ q \in Seq(Msg) /\ Len(q) = l + 1 /\ q[l + 1] = m
      /\ \A i \in 1 .. l : q[i] = ota_msgq[i]
  BY <1>2, AppendProperties
<1> HIDE DEF q
<1>4. \A i \in 1 .. l + 1 : i \in 1 .. l \/ i = l + 1
  BY <1>2
<1>5. Len(q) <= QueueSize
  BY <1>1, <1>2, <1>3
<1>6. \A i \in 1 .. Len(q) : MsgOK(q[i])
  BY <1>3, <1>4 DEF OtaInv, QueueInv
<1>7. QueueInv'
  BY <1>1, <1>3, <1>5, <1>6 DEF OtaInv, QueueInv, ClientsOK
<1>8. \A i \in 1 .. l : ota_msgq[i].op # "reboot" => ota_msgq[i].from \in Clients
  BY DEF OtaInv, QueueInv, MsgOK, Msg
<1>9. phase \in {"copy", "signal"} => current.from \in Clients
  BY DEF OtaInv, QueueInv, MsgOK, Msg
<1>10. ASSUME timeouts = 0
       PROVE  /\ \A i \in 1 .. l : ota_msgq[i].op # "reboot" =>
                   /\ ota_msgq[i].from # c
                   /\ ota_msgq[i].live
                   /\ client'[ota_msgq[i].from] = client[ota_msgq[i].from]
              /\ phase \in {"copy", "signal"} =>
                   current.from # c /\ client'[current.from] = client[current.from]
  <2>1. \A i \in 1 .. l : ota_msgq[i].op # "reboot" => Waits(ota_msgq[i])
    BY <1>10 DEF OtaInv, CallInv
  <2>2. phase \in {"copy", "signal"} => Waits(current)
    BY <1>10 DEF OtaInv, CallInv
  <2> QED
    BY <1>1, <1>8, <1>9, <2>1, <2>2 DEF Waits
<1>11. m.op = "reboot" <=> m.from = NoClient
  BY DEF MsgOK
<1>12. CallInv'
  <2> SUFFICES ASSUME timeouts = 0 PROVE CallInv'
    BY <1>1 DEF CallInv
  <2>1. ASSUME NEW i \in 1 .. Len(q), q[i].op # "reboot"
        PROVE  /\ q[i].live /\ client'[q[i].from].busy
               /\ client'[q[i].from].chunk = q[i].units
    <3>1. CASE i \in 1 .. l
      BY <1>3, <1>10, <2>1, <3>1 DEF OtaInv, CallInv, Waits
    <3>2. CASE i = l + 1
      BY <1>3, <2>1, <3>2
    <3> QED
      BY <1>3, <1>4, <2>1, <3>1, <3>2
  <2>2. ASSUME NEW i \in 1 .. Len(q), NEW j \in 1 .. Len(q), i # j, q[i].op # "reboot"
        PROVE  q[i].from # q[j].from
    <3>1. CASE i \in 1 .. l /\ j \in 1 .. l
      BY <1>3, <2>2, <3>1 DEF OtaInv, CallInv
    <3>2. CASE i \in 1 .. l /\ j = l + 1
      BY <1>3, <1>8, <1>10, <1>11, <2>2, <3>2
    <3>3. CASE i = l + 1 /\ j \in 1 .. l
      <4>1. m.op # "reboot" /\ m.from = c /\ q[i] = m /\ q[j] = ota_msgq[j]
        BY <1>3, <2>2, <3>3
      <4>2. ota_msgq[j].op = "reboot" => ota_msgq[j].from = NoClient
        BY <3>3 DEF OtaInv, QueueInv, MsgOK
      <4> QED
        BY <1>10, <3>3, <4>1, <4>2
    <3> QED
      BY <1>3, <1>4, <2>2, <3>1, <3>2, <3>3
  <2>3. ASSUME phase \in {"copy", "signal"}
        PROVE  /\ Waits(current)'
               /\ \A i \in 1 .. Len(q) : q[i].from # current.from
    <3>1. Waits(current)'
      BY <1>1, <1>10, <2>3 DEF OtaInv, CallInv, Waits
    <3>2. \A i \in 1 .. l : q[i].from # current.from
      BY <1>3, <2>3 DEF OtaInv, CallInv
    <3>3. m.from # current.from
      BY <1>9, <1>10, <1>11, <2>3
    <3> QED
      BY <1>3, <1>4, <3>1, <3>2, <3>3
  <2>4. phase = "signal" /\ current.op # "write" => client'[current.from].chunk = <<>>
    BY <1>10 DEF OtaInv, CallInv
  <2> QED
    BY <1>1, <2>1, <2>2, <2>3, <2>4 DEF CallInv, Waits
<1>13. AckInv' /\ acked' \in SUBSET Unit
  BY <1>1, <1>10 DEF OtaInv, AckInv, progressVars
<1>14. CopyInv'
  BY <1>1 DEF OtaInv, CopyInv, progressVars
<1>15. SlotInv'
  BY <1>1, SameSlot DEF OtaInv
<1> QED
  BY <1>7, <1>12, <1>13, <1>14, <1>15 DEF OtaInv

\* One client's record changes.
LEMMA OneClient ==
  ASSUME ClientsOK, NEW c \in Clients, NEW b \in BOOLEAN, NEW u \in Seq(Unit), NEW s \in Nat,
         s + Len(u) <= FlashSize, ~b => u = <<>>,
         client' = [client EXCEPT ![c] = [busy |-> b, chunk |-> u, sent |-> s]]
  PROVE  /\ ClientsOK'
         /\ client'[c].busy = b /\ client'[c].chunk = u
         /\ \A d \in Clients : d # c => client'[d] = client[d]
<1>1. /\ client'[c] = [busy |-> b, chunk |-> u, sent |-> s]
      /\ \A d \in Clients : d # c => client'[d] = client[d]
      /\ client' \in [Clients -> [busy : BOOLEAN, chunk : Seq(Unit), sent : Nat]]
  BY DEF ClientsOK
<1>2. client'[c].busy = b /\ client'[c].chunk = u /\ client'[c].sent = s
  BY <1>1
<1>3. ASSUME NEW d \in Clients
      PROVE  /\ client'[d].sent + Len(client'[d].chunk) <= FlashSize
             /\ ~client'[d].busy => client'[d].chunk = <<>>
  BY <1>1, <1>2 DEF ClientsOK
<1> QED
  BY <1>1, <1>2, <1>3 DEF ClientsOK

LEMMA CallerState ==
  ASSUME OtaInv, NEW c \in Clients
  PROVE  /\ ClientsOK
         /\ client[c] = [busy |-> client[c].busy, chunk |-> client[c].chunk,
                         sent |-> client[c].sent]
         /\ client[c].chunk \in Seq(Unit) /\ client[c].sent \in Nat
         /\ client[c].sent <= FlashSize
         /\ ~client[c].busy => client[c].chunk = <<>>
<1>1. ClientsOK
  BY DEF OtaInv, QueueInv, ClientsOK
<1>2. /\ client[c] \in [busy : BOOLEAN, chunk : Seq(Unit), sent : Nat]
      /\ client[c].sent + Len(client[c].chunk) <= FlashSize
      /\ ~client[c].busy => client[c].chunk = <<>>
  BY <1>1 DEF ClientsOK
<1>3. Len(client[c].chunk) \in Nat
  BY <1>2, LenProperties
<1> QED
  BY <1>1, <1>2, <1>3

LEMMA SendStartInv ==
  ASSUME OtaInv, NEW c \in Clients, NEW size \in Sizes, SendStart(c, size)
  PROVE  OtaInv'
<1> DEFINE m == Message("start", c, size, <<>>)
<1>1. /\ Send(c, m) /\ UNCHANGED <<timeouts, faults, boots>>
      /\ client' = [client EXCEPT ![c] = [busy |-> TRUE, chunk |-> <<>>, sent |-> 0]]
  BY DEF SendStart, Send
<1>2. <<>> \in Seq(Unit) /\ Len(<<>>) = 0
  BY EmptySeq
<1>3. MsgOK(m) /\ m.op = "start" /\ m.live /\ m.from = c /\ m.units = <<>>
  BY <1>2 DEF MsgOK, Msg, Message, Ops
<1>4. 0 + Len(<<>>) <= FlashSize
  BY <1>2
<1>5. /\ ClientsOK' /\ client'[c].busy = TRUE /\ client'[c].chunk = <<>>
      /\ \A d \in Clients : d # c => client'[d] = client[d]
  BY <1>1, <1>2, <1>4, OneClient, CallerState
<1>6. CountInv'
  BY <1>1 DEF OtaInv, CountInv, Mishaps
<1> HIDE DEF m
<1> QED
  BY <1>1, <1>3, <1>5, <1>6, SendInv

LEMMA SendChunkInv ==
  ASSUME OtaInv, NEW c \in Clients, NEW n \in ChunkLengths, SendChunk(c, n)
  PROVE  OtaInv'
<1> DEFINE units == [i \in 1 .. n |-> <<c, client[c].sent + i - 1>>]
           m == Message("write", c, 0, units)
<1>1. /\ Send(c, m) /\ UNCHANGED <<timeouts, faults, boots>>
      /\ client[c].sent + n <= FlashSize
      /\ client' = [client EXCEPT ![c] =
                     [busy |-> TRUE, chunk |-> units, sent |-> client[c].sent]]
  BY CallerState DEF SendChunk, Send, ClientsOK
<1>2. n \in Nat /\ client[c].sent \in Nat
  BY CallerState
<1>3. units \in Seq(Unit) /\ Len(units) = n
  <2>1. \A i \in 1 .. n : client[c].sent + i - 1 \in 0 .. FlashSize
    BY <1>1, <1>2, SMTT(30)
  <2>2. \A i \in 1 .. n : <<c, client[c].sent + i - 1>> \in Unit
    BY <2>1 DEF Unit
  <2> QED
    BY <1>2, <2>2
<1> HIDE DEF units
<1>4. MsgOK(m) /\ m.op = "write" /\ m.live /\ m.from = c /\ m.units = units
  BY <1>3 DEF MsgOK, Msg, Message, Ops
<1>6. client[c].sent + Len(units) <= FlashSize
  BY <1>1, <1>3
<1>7. /\ ClientsOK' /\ client'[c].busy = TRUE /\ client'[c].chunk = units
      /\ \A d \in Clients : d # c => client'[d] = client[d]
  BY <1>1, <1>2, <1>3, <1>6, OneClient, CallerState
<1>8. CountInv'
  BY <1>1 DEF OtaInv, CountInv, Mishaps
<1> HIDE DEF m
<1> QED
  BY <1>1, <1>4, <1>7, <1>8, SendInv

LEMMA SendOtherInv ==
  ASSUME OtaInv, NEW c \in Clients, NEW op \in {"finalize", "abort", "confirm"},
         SendOther(c, op)
  PROVE  OtaInv'
<1> DEFINE m == Message(op, c, 0, <<>>)
<1>1. /\ Send(c, m) /\ UNCHANGED <<timeouts, faults, boots>> /\ ~client[c].busy
      /\ client' = [client EXCEPT ![c] =
                     [busy |-> TRUE, chunk |-> <<>>, sent |-> client[c].sent]]
  BY CallerState DEF SendOther, Send, ClientsOK
<1>2. <<>> \in Seq(Unit) /\ Len(<<>>) = 0
  BY EmptySeq
<1>3. MsgOK(m) /\ m.op = op /\ m.live /\ m.from = c /\ m.units = <<>>
  BY <1>2 DEF MsgOK, Msg, Message, Ops
<1>4. /\ client[c].sent \in Nat /\ client[c].sent <= FlashSize /\ client[c].chunk = <<>>
      /\ client \in [Clients -> [busy : BOOLEAN, chunk : Seq(Unit), sent : Nat]]
  BY <1>1, CallerState DEF ClientsOK
<1>6. client[c].sent + Len(<<>>) <= FlashSize
  BY <1>2, <1>4
<1>7. /\ ClientsOK' /\ client'[c].busy = TRUE /\ client'[c].chunk = <<>>
      /\ \A d \in Clients : d # c => client'[d] = client[d]
  BY <1>1, <1>2, <1>4, <1>6, OneClient, CallerState
<1>8. CountInv'
  BY <1>1 DEF OtaInv, CountInv, Mishaps
<1> HIDE DEF m
<1> QED
  BY <1>1, <1>3, <1>7, <1>8, SendInv

LEMMA SendRebootInv ==
  ASSUME OtaInv, NEW c \in Clients, SendReboot(c)
  PROVE  OtaInv'
<1>1. /\ Send(c, NoMessage) /\ UNCHANGED <<client, timeouts, faults>>
      /\ Mishaps < MaxMishaps /\ boots' = boots + 1
  BY DEF SendReboot, Send
<1>2. ClientsOK'
  BY <1>1, CallerState DEF ClientsOK
<1>3. CountInv'
  BY <1>1 DEF OtaInv, CountInv, Mishaps
<1> QED
  BY <1>1, <1>2, <1>3, NoMessageOK, SendInv

LEMMA TimeoutInv ==
  ASSUME OtaInv, NEW c \in Clients, Timeout(c)
  PROVE  OtaInv'
<1>1. /\ Mishaps < MaxMishaps /\ timeouts' = timeouts + 1
      /\ client' = [client EXCEPT ![c] =
                     [busy |-> FALSE, chunk |-> <<>>, sent |-> client[c].sent]]
      /\ ota_msgq' = OrphanedQueue(c) /\ current' = Orphaned(current, c)
      /\ UNCHANGED <<ota_state, progressVars, acked, boot_pending, phase, faults, boots>>
  BY CallerState DEF Timeout, slotVars, ClientsOK
<1>2. CountInv' /\ timeouts' # 0
  BY <1>1, SMTT(30) DEF OtaInv, CountInv, Mishaps
<1>3. /\ client[c].sent \in Nat /\ client[c].sent <= FlashSize /\ ClientsOK
      /\ client \in [Clients -> [busy : BOOLEAN, chunk : Seq(Unit), sent : Nat]]
  BY CallerState DEF ClientsOK
<1>4. <<>> \in Seq(Unit) /\ Len(<<>>) = 0
  BY EmptySeq
<1>6. client[c].sent + Len(<<>>) <= FlashSize
  BY <1>3, <1>4
<1>7. ClientsOK'
  BY <1>1, <1>3, <1>4, <1>6, OneClient
<1>8. /\ MsgOK(current') /\ current'.op = current.op /\ current'.units = current.units
  BY <1>1, OrphanedMessage DEF OtaInv, QueueInv
<1>9. /\ ota_msgq' \in Seq(Msg) /\ Len(ota_msgq') = Len(ota_msgq)
      /\ \A i \in 1 .. Len(ota_msgq) : MsgOK(ota_msgq'[i])
  BY <1>1, OrphanedOK DEF OtaInv
<1>10. QueueInv'
  BY <1>1, <1>7, <1>8, <1>9 DEF OtaInv, QueueInv, ClientsOK
<1>11. CallInv' /\ AckInv'
  BY <1>2 DEF CallInv, AckInv
<1>12. CopyInv' /\ acked' \in SUBSET Unit
  BY <1>1, <1>8 DEF OtaInv, CopyInv, progressVars
<1>13. SlotInv'
  BY <1>1, SameSlot DEF OtaInv
<1> QED
  BY <1>2, <1>10, <1>11, <1>12, <1>13 DEF OtaInv

-----------------------------------------------------------------------------
LEMMA NextInv == ASSUME OtaInv, Next PROVE OtaInv'
<1>1. CASE OtaThread
  BY <1>1, StartUpdateInv, StartFailsInv, WriteRefusedInv, WriteChunkInv, CopyChunkInv,
     FinalizeInv, FinalizeFailsInv, AbortInv, ConfirmInv, RebootInv, SignalInv, CheckResultInv
     DEF OtaThread
<1>2. ASSUME NEW c \in Clients, Call(c) PROVE OtaInv'
  BY <1>2, SendStartInv, SendChunkInv, SendOtherInv, SendRebootInv DEF Call
<1>3. ASSUME NEW c \in Clients, Timeout(c) PROVE OtaInv'
  BY <1>3, TimeoutInv
<1>4. CASE PowerLoss
  BY <1>4, PowerLossInv
<1> QED
  BY <1>1, <1>2, <1>3, <1>4 DEF Next

LEMMA StutterInv == ASSUME OtaInv, UNCHANGED vars PROVE OtaInv'
BY SameSlot DEF vars, OtaInv, QueueInv, CountInv, CopyInv, CallInv, AckInv, Waits, Mishaps,
                progressVars

LEMMA Invariance == Spec => []OtaInv
<1>1. Init => OtaInv
  BY InitInv
<1>2. OtaInv /\ [Next]_vars => OtaInv'
  BY NextInv, StutterInv
<1> QED
  BY <1>1, <1>2, PTL DEF Spec

\* Whatever fails, whoever times out and in whatever order the requests of
\* the clients come: the open slot and the write buffer are together exactly
\* the units taken over since the last ota_start_update, flushed at aligned
\* offsets and within what was announced (ota_manager.c).
THEOREM OtaSlotSound == Spec => [](TypeOK /\ SlotSound)
<1>1. OtaInv => TypeOK /\ SlotSound
  BY OtaInvImplies
<1> QED
  BY <1>1, Invariance, PTL

\* Every variable keeps its type: no offset leaves the slot, the write buffer
\* or the queue, and no message is read that nobody sent (ota_manager.c).
THEOREM OtaTypes == Spec => []TypeOK
BY OtaSlotSound, PTL

\* The state that asks the user to reboot is never shown for a slot the
\* bootloader would not find whole (ota_manager.c, do_finalize_update).
THEOREM OtaCompleteBootable == Spec => []CompleteIsBootable
<1>1. OtaInv => CompleteIsBootable
  BY OtaInvImplies
<1> QED
  BY <1>1, Invariance, PTL

\* Without a timeout every unit whose write returned OTA_OK is in the update
\* (ota_manager.c, ota_write_chunk).
THEOREM OtaAckedReceived == Spec => []AckedReceived
<1>1. OtaInv => AckedReceived
  BY OtaInvImplies
<1> QED
  BY <1>1, Invariance, PTL

-----------------------------------------------------------------------------
(* The OTA manager implements FirmwareSlot.                                 *)

\* What flash f and write buffer b hold, n units in all.
ImageOf(f, b, n) ==
  LET flushed == n - Len(b)
  IN  [i \in 1 .. n |-> IF i <= flushed THEN f[i] ELSE b[i - flushed]]

LEMMA GoodImage ==
  ASSUME NEW f, NEW b, NEW u, NEW n, Good(f, b, u, n)
  PROVE  ImageOf(f, b, n) = u
<1> DEFINE flushed == n - Len(b)
<1>1. /\ u \in Seq(Unit) /\ Len(u) = n /\ n \in 0 .. FlashSize
      /\ b \in Seq(Unit) /\ Len(b) \in Nat /\ Len(b) <= n
  BY LenProperties DEF Good
<1>2. u = [i \in 1 .. n |-> u[i]]
  BY <1>1, LenProperties
<1>3. ASSUME NEW i \in 1 .. n
      PROVE  (IF i <= flushed THEN f[i] ELSE b[i - flushed]) = u[i]
  <2>1. i \in Cells
    BY <1>1 DEF Cells
  <2>2. CASE i <= flushed
    BY <2>1, <2>2 DEF Good
  <2>3. CASE ~(i <= flushed)
    <3>1. i - flushed \in 1 .. Len(b) /\ flushed + (i - flushed) = i
      BY <1>1, <2>3
    <3>2. b[i - flushed] = u[flushed + (i - flushed)]
      BY <3>1 DEF Good
    <3> QED
      BY <2>3, <3>1, <3>2
  <2> QED
    BY <2>2, <2>3
<1>4. ImageOf(f, b, n) = [i \in 1 .. n |-> IF i <= flushed THEN f[i] ELSE b[i - flushed]]
  BY DEF ImageOf
<1> HIDE DEF flushed
<1> QED
  BY <1>2, <1>3, <1>4

LEMMA NoImage == ASSUME NEW f, NEW b PROVE ImageOf(f, b, 0) = <<>>
<1>1. ImageOf(f, b, 0) = [i \in 1 .. 0 |-> IF i <= 0 - Len(b) THEN f[i] ELSE b[i - (0 - Len(b))]]
  BY DEF ImageOf
<1> DEFINE e(i) == IF i <= 0 - Len(b) THEN f[i] ELSE b[i - (0 - Len(b))]
           s == [i \in 1 .. 0 |-> e(i)]
<1> HIDE DEF e
<1>2. s \in Seq({}) /\ Len(s) = 0
  OBVIOUS
<1>3. s = <<>>
  BY <1>2, EmptySeq
<1> QED
  BY <1>1, <1>3 DEF e

\* While an update is open, the image is what was taken over.
LEMMA ImageIsReceived ==
  /\ Image = ImageOf(flash, write_buffer, bytes_written)
  /\ Image' = ImageOf(flash', write_buffer', bytes_written')
  /\ OtaInv /\ secondary_fa => Image = received
<1>1. Image = ImageOf(flash, write_buffer, bytes_written)
  BY DEF Image, ImageOf
<1>2. Image' = ImageOf(flash', write_buffer', bytes_written')
  BY DEF Image, ImageOf
<1>3. OtaInv /\ secondary_fa => Image = received
  BY <1>1, GoodImage DEF OtaInv, SlotInv
<1> QED
  BY <1>1, <1>2, <1>3

LEMMA ImplInit == Init => Slot!Init
<1> SUFFICES ASSUME Init PROVE Slot!Init
  OBVIOUS
<1>1. Image = <<>>
  BY ImageIsReceived, NoImage DEF Init
<1> QED
  BY <1>1 DEF Init, Slot!Init

LEMMA ImplStutter ==
  ASSUME UNCHANGED <<ota_state, progressVars, boot_pending>>
  PROVE  UNCHANGED Slot!slotVars
<1>1. Image' = Image
  BY ImageIsReceived DEF progressVars
<1> QED
  BY <1>1 DEF progressVars, Slot!slotVars

LEMMA ImplDiscard ==
  ASSUME Reset
  PROVE  Image' = <<>>
BY ImageIsReceived, NoImage DEF Reset

LEMMA ImplStart == ASSUME OtaInv, StartUpdate PROVE Slot!Next
<1>2. total_size' \in Sizes \cup {FlashSize}
  <2>1. Head(ota_msgq).size \in Sizes \cup {0}
    BY HeadOfQueue DEF StartUpdate, Answer, OtaInv, MsgOK, Msg
  <2> QED
    BY <2>1 DEF StartUpdate
<1> QED
  BY <1>2, ImplDiscard DEF StartUpdate, Slot!Next, Slot!Start

LEMMA ImplStartFails == ASSUME StartFails PROVE Slot!Next
<1>1. Image' = <<>>
  BY ImplDiscard DEF StartFails
<1> QED
  BY <1>1 DEF StartFails, Slot!Next, Slot!StartFails

LEMMA ImplAbort == ASSUME Abort PROVE Slot!Next
<1>1. Image' = <<>>
  BY ImplDiscard DEF Abort
<1> QED
  BY <1>1 DEF Abort, Slot!Next, Slot!Abort, Slot!Discard

LEMMA ImplPowerUp == ASSUME PowerUp PROVE Slot!Next
<1>1. Image' = <<>>
  BY ImplDiscard DEF PowerUp
<1> QED
  BY <1>1 DEF PowerUp, Slot!Next, Slot!PowerUp, Slot!Discard

LEMMA ImplCopy == ASSUME OtaInv, OtaInv', CopyChunk PROVE Slot!Next
<1> DEFINE n == CopySize
           units == current.units
           sent == SubSeq(units, 1, n)
<1>1. /\ phase = "copy" /\ ota_state = "RECEIVING" /\ secondary_fa /\ secondary_fa'
      /\ bytes_written + Len(units) <= FlashSize /\ bytes_written + Len(units) <= total_size
      /\ units \in Seq(Unit) /\ Len(units) \in Nat
      /\ Len(write_buffer) \in Nat /\ Len(write_buffer) <= BufferSize
      /\ received \in Seq(Unit) /\ bytes_written \in Nat /\ total_size \in Nat
      /\ Len(received) = bytes_written
  BY LenProperties DEF OtaInv, CopyInv, SlotInv, Good, QueueInv, CopyChunk, MsgOK, Msg
<1>2. n \in 0 .. Len(units) /\ n \in Nat
  BY <1>1 DEF CopySize, Min2
<1>3. sent \in Seq(Unit) /\ Len(sent) = n
  BY <1>1, <1>2, ChunkSplit
<1>4. PICK piece \in {sent} \cup (IF current.live THEN {} ELSE {[i \in 1 .. n |-> Junk]}) :
        received' = received \o piece
  BY DEF CopyChunk
<1> HIDE DEF n, sent
<1>5. piece \in Seq(Unit) /\ Len(piece) = n
  <2>1. CASE piece = [i \in 1 .. n |-> Junk]
    <3>1. \A i \in 1 .. n : Junk \in Unit
      BY DEF Junk, Unit
    <3> QED
      BY <1>2, <2>1, <3>1
  <2> QED
    BY <1>3, <1>4, <2>1
<1>6. Image = received /\ Image' = received \o piece
  BY <1>1, <1>4, ImageIsReceived, GoodImage DEF OtaInv, SlotInv
<1>7. SubSeq(received \o piece, Len(received) + 1, Len(received \o piece)) = piece
  BY <1>1, <1>5, AppendedPart
<1>8. /\ Len(received) + Len(piece) <= total_size
      /\ Len(received) + Len(piece) <= FlashSize
  BY <1>1, <1>2, <1>5
<1>9. UNCHANGED <<ota_state, total_size, secondary_fa, boot_pending>>
  BY DEF CopyChunk
<1>10. Slot!Take(piece)
  BY <1>1, <1>6, <1>8, <1>9 DEF Slot!Take, Slot!Accepts
<1> QED
  BY <1>6, <1>7, <1>10 DEF Slot!Next

LEMMA ImplFinalize == ASSUME OtaInv, OtaInv', Finalize PROVE Slot!Next
<1>1. /\ secondary_fa /\ ota_state = "RECEIVING" /\ bytes_written > 0
      /\ bytes_written' = bytes_written /\ received' = received
      /\ boot_pending' = TRUE /\ secondary_fa' = FALSE /\ ota_state' = "COMPLETE"
      /\ total_size' = total_size
  BY DEF Finalize
<1>2. /\ received \in Seq(Unit) /\ Len(received) = bytes_written
      /\ bytes_written \in 0 .. FlashSize
  BY <1>1 DEF OtaInv, SlotInv, Good
<1>3. IsMagic(flash'[1]) /\ \A i \in 1 .. bytes_written : flash'[i] = received[i]
  BY <1>1, <1>2 DEF OtaInv, SlotInv
<1>4. Image = received
  BY <1>1, ImageIsReceived
<1>5. Image' = received
  <2>1. Good(flash, write_buffer, received, bytes_written)
    BY <1>1 DEF OtaInv, SlotInv
  <2>2. Good(flash', write_buffer', received', bytes_written')
    <3>1. PICK o \in FlushOutcomes(bytes_written, write_buffer) :
            flash' = o.flash /\ write_buffer' = o.buffer
      BY DEF Finalize
    <3>2. Good(o.flash, o.buffer, received, bytes_written)
      BY <1>1, <2>1, FlushGood
    <3> QED
      BY <1>1, <3>1, <3>2
  <2> QED
    BY <1>1, <2>2, ImageIsReceived, GoodImage
<1>6. received # <<>> /\ received[1] = flash'[1]
  <2>1. 1 \in 1 .. bytes_written
    BY <1>1, <1>2
  <2>2. received # <<>>
    BY <1>1, <1>2, EmptySeq
  <2> QED
    BY <1>3, <2>1, <2>2
<1> QED
  BY <1>1, <1>3, <1>4, <1>5, <1>6 DEF Slot!Next, Slot!Complete, Slot!Finalizable, Slot!Bootable

LEMMA ImplFinalizeFails ==
  ASSUME OtaInv, OtaInv', FinalizeFails
  PROVE  Slot!Next \/ UNCHANGED Slot!slotVars
<1>1. UNCHANGED <<total_size, bytes_written, secondary_fa, boot_pending, received>>
  BY DEF FinalizeFails
<1>2. CASE UNCHANGED <<ota_state, write_buffer, flash>>
  BY <1>1, <1>2, ImplStutter DEF progressVars
<1>3. CASE secondary_fa /\ (ota_state' = "ERROR" \/ ota_state' = ota_state)
  <2>1. Image = received /\ Image' = received
    BY <1>1, <1>3, ImageIsReceived, GoodImage DEF OtaInv, SlotInv
  <2> QED
    BY <1>1, <1>3, <2>1 DEF Slot!Next, Slot!Fail, Slot!slotVars
<1> QED
  BY <1>2, <1>3 DEF FinalizeFails

LEMMA ImplCheckResult ==
  ASSUME CheckResult
  PROVE  Slot!Next \/ UNCHANGED Slot!slotVars
<1>1. /\ UNCHANGED <<progressVars, boot_pending>>
      /\ ota_state' = "ERROR" \/ ota_state' = ota_state
  BY DEF CheckResult, slotVars
<1>2. Image' = Image
  BY <1>1, ImageIsReceived DEF progressVars
<1> QED
  BY <1>1, <1>2 DEF progressVars, Slot!Next, Slot!Fail, Slot!slotVars

\* Every step of the OTA manager is one of the abstract slot, or none.
LEMMA ImplNext == OtaInv /\ OtaInv' /\ [Next]_vars => [Slot!Next]_(Slot!slotVars)
<1> SUFFICES ASSUME OtaInv, OtaInv', [Next]_vars
             PROVE  Slot!Next \/ UNCHANGED Slot!slotVars
  OBVIOUS
<1>1. CASE WriteRefused \/ WriteChunk \/ Confirm \/ Signal
  BY <1>1, ImplStutter DEF WriteRefused, WriteChunk, Confirm, Signal, slotVars
<1>2. CASE StartUpdate \/ StartFails \/ CopyChunk \/ Finalize \/ FinalizeFails \/ Abort
  BY <1>2, ImplStart, ImplStartFails, ImplCopy, ImplFinalize, ImplFinalizeFails, ImplAbort
<1>3. CASE Reboot \/ PowerLoss
  BY <1>3, ImplPowerUp DEF Reboot, PowerLoss
<1>4. CASE CheckResult
  BY <1>4, ImplCheckResult
<1>5. ASSUME NEW c \in Clients, Call(c) \/ Timeout(c)
      PROVE  UNCHANGED Slot!slotVars
  BY <1>5, ImplStutter
     DEF Call, Timeout, SendStart, SendChunk, SendOther, SendReboot, Send, slotVars
<1>6. CASE UNCHANGED vars
  BY <1>6, ImplStutter DEF vars, progressVars
<1> QED
  BY <1>1, <1>2, <1>3, <1>4, <1>5, <1>6 DEF Next, OtaThread

\* The OTA manager implements FirmwareSlot: flash, write buffer, queue and
\* timeouts are behind a slot that only grows until it is thrown away, and
\* that is complete only when all of it is written (ota_manager.c).
THEOREM OtaKeepsPromise == Spec => KeepsPromise
<1>1. Init => Slot!Init
  BY ImplInit
<1>2. OtaInv /\ OtaInv' /\ [Next]_vars => [Slot!Next]_(Slot!slotVars)
  BY ImplNext
<1> QED
  BY <1>1, <1>2, Invariance, PTL DEF Spec, KeepsPromise, Slot!Spec
=============================================================================
