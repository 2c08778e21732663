--------------------------- MODULE CloudAppHandler ---------------------------
(***************************************************************************)
(* The cloud app handler (src/connectivity/cloud/cloud_app_handler.c): app *)
(* binaries that arrive in chunks from several sources.                    *)
(*                                                                         *)
(* Messages are handled one at a time, under the mutex of the cloud client *)
(* (process_message), and all of it but one line under handler.mutex; the  *)
(* API calls take handler.mutex only.  So a call or a message is one step, *)
(* except a refused k_malloc, after which handle_app_metadata clears       *)
(* ctx->active when it has already unlocked.                               *)
(*                                                                         *)
(* A message payload does not say which app a chunk belongs to, so a unit  *)
(* of data is identified by the app its sender took it from.  A chunk is   *)
(* one unit, sizes and offsets are counted in units.  What a source sends  *)
(* is free: transfers overlap, chunks are lost, repeated and reordered.    *)
(*                                                                         *)
(* feed and outcome are history: what each source sent since its last      *)
(* metadata, and what the last step handed to the app manager.  Fields of  *)
(* an inactive context that no code reads are forgotten.  Operations whose *)
(* name ends in Bug are mutations.  The proofs follow the properties.      *)
(***************************************************************************)
EXTENDS Integers, FiniteSets, FiniteSetTheorems, NaturalsInduction, TLAPS

CONSTANTS
  Apps,         \* app ids
  NoApp,        \* no id: none of Apps
  Sources,      \* transports that deliver messages
  NoSource,     \* MSG_SOURCE_UNKNOWN: none of Sources
  MaxDownloads, \* APP_MAX_PENDING_DOWNLOADS
  Sizes,        \* sizes a metadata message may announce, in units, above 0
  MaxRequests,  \* bound: accepted calls of cloud_app_download
  MaxRefusals,  \* bound: refused allocations
  MaxReceived   \* bound: units a context counts

\* A source that is not known is none, handle_app_metadata is sent sizes above
\* zero, and requests are counted.
ASSUME SlotsAssumption == MaxDownloads \in Nat \ {0}
ASSUME SourcesAssumption == NoSource \notin Sources
ASSUME SizesAssumption == Sizes \subseteq Nat \ {0}
ASSUME BoundsAssumption == MaxRequests \in Nat

VARIABLES
  downloads, \* handler.downloads
  late,      \* slot whose active flag handle_app_metadata is about to clear
  allocated, \* buffers obtained from k_malloc and not yet freed
  requests,  \* accepted requests so far; a request is its number
  answers,   \* history: calls of the complete callback of each request, 2 is many
  feed,      \* history: what each source sent since its last metadata
  outcome,   \* history: the download this step handed over as a success
  pushed,    \* history: a context was created by an unrequested metadata message
  refusals   \* refused allocations so far

vars == <<downloads, late, allocated, requests, answers, feed, outcome,
          pushed, refusals>>

Slots == 1 .. MaxDownloads
NoSlot == 0
Requests == 1 .. MaxRequests
NoRequest == 0
Offsets == 0 .. CHOOSE n \in Sizes : \A m \in Sizes : m <= n

NoBuffer == [o \in {} |-> NoApp]  \* a buffer maps its offsets to units
Fresh(size) == [o \in 0 .. size - 1 |-> NoApp]
Units(buffer) == {buffer[o] : o \in DOMAIN buffer}

NoFeed == [app |-> NoApp, size |-> 0, sent |-> {}, clean |-> FALSE]
NoOutcome == [feed |-> NoFeed, app |-> NoApp, buffer |-> NoBuffer,
              received |-> 0, total |-> 0, install |-> FALSE]

\* memset(ctx, 0, sizeof(*ctx)), and what is read of an inactive context.
Cleared(request) ==
  [active |-> FALSE, state |-> "IDLE", app |-> NoApp, total |-> 0,
   received |-> 0, source |-> NoSource, buffer |-> NoBuffer,
   callback |-> request, auto_install |-> FALSE]

-----------------------------------------------------------------------------
Active == {s \in Slots : downloads[s].active}

\* The lowest slot of a set, the one that a loop over the table finds.
First(S) == CHOOSE s \in S : \A t \in S : s <= t

FindDownload(a) == {s \in Active : downloads[s].app = a}
FreeSlots == Slots \ Active

\* The first receiving download of the source: chunks carry no app id.
ChunkSlotBug(src) == {s \in Active : downloads[s].state = "RECEIVING"}
ChunkSlot(src) ==
  {s \in Active : downloads[s].state = "RECEIVING" /\ downloads[s].source = src}
CompleteSlot(src) == {s \in Active : downloads[s].source = src}

HoldsBuffer(ctx) == ctx.buffer # NoBuffer
\* Buffers freed when the contexts in S are dropped.
Held(S) == Cardinality({s \in S : HoldsBuffer(downloads[s])})

\* Each context in S notifies the request whose callback it has.
CalledBug(S) ==
  [r \in Requests |->
     IF \E s \in S : downloads[s].callback = r /\ downloads[s].auto_install
     THEN IF answers[r] = 0 THEN 1 ELSE 2
     ELSE answers[r]]
Called(S) ==
  [r \in Requests |->
     IF \E s \in S : downloads[s].callback = r
     THEN IF answers[r] = 0 THEN 1 ELSE 2
     ELSE answers[r]]

\* complete_download of every context in S: call back, free, deactivate.
\* The slot keeps the callback.
CompleteDownload(S) ==
  /\ downloads' = [s \in Slots |-> IF s \in S THEN Cleared(downloads[s].callback)
                                              ELSE downloads[s]]
  /\ answers' = Called(S)
  /\ allocated' = allocated - Held(S)

\* A transfer that is not by the book any more; the transfers of apps in A.
Unclean(f) == [NoFeed EXCEPT !.app = f.app]
Disturbed(A) ==
  [src \in Sources |-> IF feed[src].app \in A THEN Unclean(feed[src]) ELSE feed[src]]

-----------------------------------------------------------------------------
\* cloud_app_download: reserve a context and ask the cloud for the app.
Requested(a, auto) ==
  [Cleared(requests + 1) EXCEPT !.active = TRUE, !.app = a, !.auto_install = auto]

Request(a, auto) ==
  /\ requests < MaxRequests
  /\ FindDownload(a) = {} /\ FreeSlots # {}
  /\ downloads' = [downloads EXCEPT ![First(FreeSlots)] = Requested(a, auto)]
  /\ requests' = requests + 1
  /\ outcome' = NoOutcome
  /\ UNCHANGED <<late, allocated, answers, feed, pushed, refusals>>

\* cloud_app_cancel_download(id) and, with NULL, every download.
Cancel(A) ==
  LET S == {s \in Active : downloads[s].app \in A}
  IN  /\ S # {}
      /\ CompleteDownload(S)
      /\ feed' = Disturbed({downloads[s].app : s \in S})
      /\ outcome' = NoOutcome
      /\ UNCHANGED <<late, requests, pushed, refusals>>

\* The slot handle_app_metadata uses for an app.
MetadataSlotBug(a) == IF FreeSlots # {} THEN First(FreeSlots) ELSE First(FindDownload(a))
MetadataSlot(a) == IF FindDownload(a) # {} THEN First(FindDownload(a)) ELSE First(FreeSlots)

\* A context found keeps its options, a new one gets the default ones; both
\* keep the callback that the slot has.
Described(ctx, src, a, size) ==
  [ctx EXCEPT !.active = TRUE, !.state = "METADATA", !.app = a, !.total = size,
              !.received = 0, !.source = src, !.buffer = NoBuffer,
              !.auto_install = IF ctx.active THEN @ ELSE TRUE]

\* The source starts a transfer of a.  Nothing is in its way if no other app
\* of the source is still being received.
Announced(src, a, size) ==
  [Disturbed({a}) EXCEPT ![src] =
     IF CompleteSlot(src) \subseteq FindDownload(a)
     THEN [app |-> a, size |-> size, sent |-> {}, clean |-> TRUE]
     ELSE [NoFeed EXCEPT !.app = a]]
Unheard(src, a) == [Disturbed({a}) EXCEPT ![src] = [NoFeed EXCEPT !.app = a]]

MetadataAccepted(src, a, size) ==
  LET s == MetadataSlot(a)
      new == downloads[s].active = FALSE
  IN  /\ late = NoSlot
      /\ FindDownload(a) # {} \/ FreeSlots # {}
      /\ downloads' = [downloads EXCEPT ![s] =
           [Described(@, src, a, size) EXCEPT !.state = "RECEIVING", !.buffer = Fresh(size)]]
      /\ allocated' = allocated + 1 - Held({s})
      /\ pushed' = (pushed \/ new)
      /\ feed' = Announced(src, a, size)
      /\ outcome' = NoOutcome
      /\ UNCHANGED <<late, requests, answers, refusals>>

\* k_malloc fails: the old buffer is gone, the context is dropped later.
MetadataRefused(src, a, size) ==
  LET s == MetadataSlot(a)
      new == downloads[s].active = FALSE
  IN  /\ late = NoSlot /\ refusals < MaxRefusals
      /\ FindDownload(a) # {} \/ FreeSlots # {}
      /\ downloads' = [downloads EXCEPT ![s] = Described(@, src, a, size)]
      /\ allocated' = allocated - Held({s})
      /\ pushed' = (pushed \/ new)
      /\ refusals' = refusals + 1
      /\ late' = s
      /\ feed' = Unheard(src, a)
      /\ outcome' = NoOutcome
      /\ UNCHANGED <<requests, answers>>

\* ctx->active = false, after the unlock: whatever the slot is used for now.
LateDeactivate ==
  /\ late # NoSlot
  /\ downloads' = [downloads EXCEPT ![late] =
       IF @.active THEN [Cleared(@.callback) EXCEPT !.buffer = downloads[late].buffer] ELSE @]
  /\ late' = NoSlot
  /\ feed' = Disturbed({downloads[late].app})
  /\ outcome' = NoOutcome
  /\ UNCHANGED <<allocated, requests, answers, pushed, refusals>>

\* No context for a: the message is dropped, its sender does not know.
MetadataDropped(src, a) ==
  /\ late = NoSlot
  /\ FindDownload(a) = {} /\ FreeSlots = {}
  /\ feed' = Unheard(src, a)
  /\ outcome' = NoOutcome
  /\ UNCHANGED <<downloads, late, allocated, requests, answers, pushed, refusals>>

-----------------------------------------------------------------------------
\* The unit at offset o of the app that src is sending.
SendUnit(src, o) ==
  [feed EXCEPT ![src] =
     IF @.clean /\ o \notin @.sent THEN [@ EXCEPT !.sent = feed[src].sent \cup {o}] ELSE Unclean(@)]

FitsBug(ctx, o) == o <= Cardinality(DOMAIN ctx.buffer)
Fits(ctx, o) == o < Cardinality(DOMAIN ctx.buffer)

ChunkStored(src, o) ==
  LET s == First(ChunkSlot(src))
  IN  /\ late = NoSlot /\ feed[src].app # NoApp
      /\ ChunkSlot(src) # {} /\ Fits(downloads[s], o)
      /\ downloads[s].received < MaxReceived
      /\ downloads' = [downloads EXCEPT
           ![s].buffer = [p \in DOMAIN @ \cup {o} |-> IF p = o THEN feed[src].app ELSE @[p]],
           ![s].received = @ + 1]
      /\ feed' = SendUnit(src, o)
      /\ outcome' = NoOutcome
      /\ UNCHANGED <<late, allocated, requests, answers, pushed, refusals>>

\* The chunk is not stored: nothing is being received, or it does not fit.
ChunkDropped(src, o) ==
  /\ late = NoSlot /\ feed[src].app # NoApp
  /\ ChunkSlot(src) # {} => ~Fits(downloads[First(ChunkSlot(src))], o)
  /\ feed' = [feed EXCEPT ![src] = Unclean(@)]
  /\ outcome' = NoOutcome
  /\ UNCHANGED <<downloads, late, allocated, requests, answers, pushed, refusals>>

\* validate_wasm of the app manager looks at the first bytes only.
HasMagic(buffer) == 0 \in DOMAIN buffer /\ buffer[0] # NoApp

\* handle_app_complete: whatever the source's first context has received is
\* a success, and installed if the context says so.
AppComplete(src) ==
  LET s == First(CompleteSlot(src))
      ctx == downloads[s]
      f == feed[src]
  IN  /\ late = NoSlot
      /\ CompleteSlot(src) # {}
      /\ CompleteDownload({s})
      /\ outcome' = [feed |-> IF f.clean THEN f ELSE NoFeed, app |-> ctx.app, buffer |-> ctx.buffer,
                     received |-> ctx.received, total |-> ctx.total,
                     install |-> ctx.auto_install /\ HasMagic(ctx.buffer)]
      /\ feed' = [Disturbed({ctx.app}) EXCEPT ![src] = NoFeed]
      /\ UNCHANGED <<late, requests, pushed, refusals>>

Init ==
  /\ downloads = [s \in Slots |-> Cleared(NoRequest)]
  /\ late = NoSlot
  /\ allocated = 0
  /\ requests = 0
  /\ answers = [r \in Requests |-> 0]
  /\ feed = [src \in Sources |-> NoFeed]
  /\ outcome = NoOutcome
  /\ pushed = FALSE /\ refusals = 0

Message(src) ==
  \/ \E a \in Apps :
       \/ \E size \in Sizes : MetadataAccepted(src, a, size) \/ MetadataRefused(src, a, size)
       \/ MetadataDropped(src, a)
  \/ \E o \in Offsets : ChunkStored(src, o) \/ ChunkDropped(src, o)
  \/ AppComplete(src)

Next ==
  \/ \E a \in Apps, auto \in BOOLEAN : Request(a, auto)
  \/ \E A \in {{a} : a \in Apps} \cup {Apps} : Cancel(A)
  \/ \E src \in Sources : Message(src)
  \/ LateDeactivate

Spec == Init /\ [][Next]_vars

-----------------------------------------------------------------------------
Buffer == (UNION {[0 .. n - 1 -> Apps \cup {NoApp}] : n \in Sizes}) \cup {NoBuffer}

Context ==
  [active: BOOLEAN, state: {"IDLE", "METADATA", "RECEIVING"}, app: Apps \cup {NoApp},
   total: Sizes \cup {0}, received: 0 .. MaxReceived,
   source: Sources \cup {NoSource}, buffer: Buffer,
   callback: Requests \cup {NoRequest}, auto_install: BOOLEAN]

Feed == [app: Apps \cup {NoApp}, size: Sizes \cup {0}, sent: SUBSET Offsets,
         clean: BOOLEAN]

Outcome == [feed: Feed, app: Apps \cup {NoApp}, buffer: Buffer,
            received: 0 .. MaxReceived, total: Sizes \cup {0}, install: BOOLEAN]

\* Every variable keeps its type; a chunk never grows a buffer (the bound
\* check of handle_app_chunk).
TypeOK ==
  /\ downloads \in [Slots -> Context]
  /\ late \in Slots \cup {NoSlot}
  /\ allocated \in 0 .. MaxDownloads
  /\ requests \in 0 .. MaxRequests
  /\ answers \in [Requests -> 0 .. 2]
  /\ feed \in [Sources -> Feed]
  /\ outcome \in Outcome
  /\ pushed \in BOOLEAN /\ refusals \in 0 .. MaxRefusals

\* An app is downloaded once at a time, whoever asks for it or pushes it: by
\* the search of cloud_app_download and handle_app_metadata, both under the
\* mutex.
OneDownloadPerApp ==
  \A s, t \in Active : downloads[s].app = downloads[t].app => s = t

\* Every buffer k_malloc gave out is in exactly one context, which is active
\* and receives into it with the size it announced: nothing leaks or is freed
\* twice, whatever is cancelled, restarted or refused, even by the late write
\* to a slot that is in use again.
BuffersAreHeld ==
  /\ allocated = Held(Slots)
  /\ \A s \in Slots :
       HoldsBuffer(downloads[s]) <=> downloads[s].active /\ downloads[s].state = "RECEIVING"
  /\ \A s \in Active :
       HoldsBuffer(downloads[s]) => DOMAIN downloads[s].buffer = 0 .. downloads[s].total - 1

\* The two contexts are never confused, nor are their buffers.
DownloadsSound == OneDownloadPerApp /\ BuffersAreHeld

\* A transfer that its sender carried out by the book (alone on its source,
\* every unit once in any order, then APP_COMPLETE) is handed over complete,
\* under its own name and with its own data, whatever the other sources and
\* the API callers did meanwhile to other apps.
CleanTransferIsWhole ==
  (outcome.feed.clean /\ outcome.feed.sent = 0 .. outcome.feed.size - 1) =>
    /\ outcome.app = outcome.feed.app
    /\ outcome.received = outcome.total
    /\ Units(outcome.buffer) = {outcome.app}

\* A context still holds the callback of the request.
Pending(r) == \E s \in Active : downloads[s].callback = r

\* A request whose context is gone has been answered, unless an allocation was
\* refused (handle_app_metadata then drops the context without a word), and it
\* is answered once, unless a slot was reused for an unrequested transfer
\* (which inherits the callback).
RequestsAnswered ==
  \A r \in 1 .. requests :
    /\ answers[r] = 0 /\ ~Pending(r) => refusals > 0
    /\ answers[r] > 1 \/ (answers[r] = 1 /\ Pending(r)) => pushed

\* Only a download that got all its data is installed ("Verify we got all
\* data").
InstalledIsWhole ==
  outcome.install => NoApp \notin Units(outcome.buffer) /\ outcome.received = outcome.total

-----------------------------------------------------------------------------
(* Proofs: contexts and buffers.                                           *)

\* What this proof uses of the assumptions on the constants.
ConstantsOK ==
  /\ MaxDownloads \in Nat
  /\ Sizes \subseteq Nat \ {0}

\* One slot: what an active context with a buffer is in the middle of, and that
\* a context without one holds none.
SlotOK(ctx) ==
  /\ ctx.active \in BOOLEAN
  /\ HoldsBuffer(ctx) <=> ctx.active /\ ctx.state = "RECEIVING"
  /\ HoldsBuffer(ctx) => ctx.total \in Nat \ {0} /\ DOMAIN ctx.buffer = 0 .. ctx.total - 1

\* The fields of a context.
Fields == {"active", "state", "app", "total", "received", "source", "buffer",
           "callback", "auto_install"}

\* The slots whose context has a buffer.
Holders == {s \in Slots : HoldsBuffer(downloads[s])}

\* The invariant: the late write of handle_app_metadata goes to a slot that
\* holds no buffer, for no metadata message is handled before it.
DownloadsInv ==
  /\ DOMAIN downloads = Slots
  /\ downloads = [s \in Slots |-> downloads[s]]
  /\ \A s \in Slots : SlotOK(downloads[s])
  /\ \A s \in Slots : DOMAIN downloads[s] = Fields
  /\ late \in Slots \cup {NoSlot}
  /\ late # NoSlot => ~HoldsBuffer(downloads[late])
  /\ OneDownloadPerApp
  /\ allocated = Cardinality(Holders)

\* A table of contexts is finite.
LEMMA HoldersFinite == ASSUME ConstantsOK PROVE IsFiniteSet(Slots) /\ IsFiniteSet(Holders)
<1>1. IsFiniteSet(Slots)
  BY FS_Interval DEF ConstantsOK, Slots
<1>2. Holders \subseteq Slots
  BY DEF Holders
<1> QED
  BY <1>1, <1>2, FS_Subset

\* k_free of one context's buffer.
LEMMA HeldOne == ASSUME NEW s \in Slots
  PROVE Held({s}) = IF HoldsBuffer(downloads[s]) THEN 1 ELSE 0
<1>1. CASE HoldsBuffer(downloads[s])
  <2>1. {t \in {s} : HoldsBuffer(downloads[t])} = {s}
    BY <1>1
  <2> QED
    BY <1>1, <2>1, FS_Singleton DEF Held
<1>2. CASE ~HoldsBuffer(downloads[s])
  <2>1. {t \in {s} : HoldsBuffer(downloads[t])} = {}
    BY <1>2
  <2> QED
    BY <1>2, <2>1, FS_EmptySet DEF Held
<1> QED
  BY <1>1, <1>2

\* The lowest slot of a set that has one.
LEMMA FirstIn == ASSUME NEW S \in SUBSET Slots, S # {} PROVE First(S) \in S
<1> DEFINE Less == {p \in Nat \X Nat : p[1] < p[2]}
<1>1. S \in SUBSET Nat
  BY DEF Slots
<1>2. IsWellFoundedOn(Less, Nat)
  BY NatLessThanWellFounded DEF OpToRel
<1>3. PICK x \in S : \A y \in S : ~(<<y, x>> \in Less)
  <2> HIDE DEF Less
  <2> QED
    BY <1>1, <1>2, WFMin
<1>4. ASSUME NEW y \in S PROVE x <= y
  <2>1. x \in Nat /\ y \in Nat /\ <<y, x>> \in Nat \X Nat
    BY <1>1
  <2> QED
    BY <1>3, <2>1
<1> QED
  BY <1>4 DEF First

\* One slot gets another context.
LEMMA OneSlotInv ==
  ASSUME ConstantsOK, DownloadsInv, NEW s \in Slots, NEW ctx,
         downloads' = [downloads EXCEPT ![s] = ctx],
         DOMAIN ctx = Fields, SlotOK(ctx),
         ctx.active => \A t \in Slots \ {s} : downloads[t].active => downloads[t].app # ctx.app,
         late' \in Slots \cup {NoSlot},
         late' # NoSlot => ~HoldsBuffer(IF late' = s THEN ctx ELSE downloads[late']),
         allocated' = allocated + (IF HoldsBuffer(ctx) THEN 1 ELSE 0)
                                - (IF HoldsBuffer(downloads[s]) THEN 1 ELSE 0)
  PROVE  DownloadsInv'
<1>1. /\ DOMAIN downloads' = Slots
      /\ downloads' = [t \in Slots |-> downloads'[t]]
      /\ downloads'[s] = ctx
      /\ \A t \in Slots \ {s} : downloads'[t] = downloads[t]
  BY DEF DownloadsInv
<1>2. \A t \in Slots : SlotOK(downloads'[t]) /\ DOMAIN downloads'[t] = Fields
  BY <1>1 DEF DownloadsInv
<1>3. late' # NoSlot => ~HoldsBuffer(downloads'[late'])
  BY <1>1
<1>4. OneDownloadPerApp'
  BY <1>1 DEF DownloadsInv, OneDownloadPerApp, Active
<1>5. Holders' = IF HoldsBuffer(ctx) THEN Holders \cup {s} ELSE Holders \ {s}
  BY <1>1 DEF Holders, HoldsBuffer
<1>6. IsFiniteSet(Holders) /\ Cardinality(Holders) \in Nat
  BY HoldersFinite, FS_CardinalityType
<1>7. s \in Holders <=> HoldsBuffer(downloads[s])
  BY DEF Holders
<1>8. allocated' = Cardinality(Holders')
  <2>1. CASE HoldsBuffer(ctx) /\ HoldsBuffer(downloads[s])
    <3>1. Cardinality(Holders') = Cardinality(Holders)
      BY <1>5, <1>6, <1>7, <2>1, FS_AddElement
    <3> QED
      BY <1>6, <2>1, <3>1 DEF DownloadsInv
  <2>2. CASE HoldsBuffer(ctx) /\ ~HoldsBuffer(downloads[s])
    <3>1. Cardinality(Holders') = Cardinality(Holders) + 1
      BY <1>5, <1>6, <1>7, <2>2, FS_AddElement
    <3> QED
      BY <1>6, <2>2, <3>1 DEF DownloadsInv
  <2>3. CASE ~HoldsBuffer(ctx) /\ HoldsBuffer(downloads[s])
    <3>1. Cardinality(Holders') = Cardinality(Holders) - 1
      BY <1>5, <1>6, <1>7, <2>3, FS_RemoveElement
    <3> QED
      BY <1>6, <2>3, <3>1 DEF DownloadsInv
  <2>4. CASE ~HoldsBuffer(ctx) /\ ~HoldsBuffer(downloads[s])
    <3>1. Cardinality(Holders') = Cardinality(Holders)
      BY <1>5, <1>6, <1>7, <2>4, FS_RemoveElement
    <3> QED
      BY <1>6, <2>4, <3>1 DEF DownloadsInv
  <2> QED
    BY <2>1, <2>2, <2>3, <2>4
<1> QED
  BY <1>1, <1>2, <1>3, <1>4, <1>8 DEF DownloadsInv

\* complete_download of any set of contexts frees exactly the buffers they hold.
LEMMA CompleteInv ==
  ASSUME ConstantsOK, DownloadsInv, NEW S \in SUBSET Slots, CompleteDownload(S), late' = late
  PROVE  DownloadsInv'
<1>1. /\ DOMAIN downloads' = Slots
      /\ downloads' = [t \in Slots |-> downloads'[t]]
      /\ \A t \in S : downloads'[t] = Cleared(downloads[t].callback)
      /\ \A t \in Slots \ S : downloads'[t] = downloads[t]
  BY DEF CompleteDownload
<1>2. ASSUME NEW c
      PROVE  SlotOK(Cleared(c)) /\ ~HoldsBuffer(Cleared(c)) /\ DOMAIN Cleared(c) = Fields
             /\ Cleared(c).active = FALSE
  BY DEF SlotOK, HoldsBuffer, Cleared, Fields
<1>3. ASSUME NEW t \in Slots PROVE SlotOK(downloads'[t]) /\ DOMAIN downloads'[t] = Fields
  <2>1. CASE t \in S
    <3>1. downloads'[t] = Cleared(downloads[t].callback)
      BY <1>1, <2>1
    <3> QED
      BY <1>2, <3>1
  <2>2. CASE t \notin S
    <3>1. downloads'[t] = downloads[t]
      BY <1>1, <2>2
    <3> QED
      BY <3>1 DEF DownloadsInv
  <2> QED
    BY <2>1, <2>2
<1>4. late' # NoSlot => ~HoldsBuffer(downloads'[late'])
  BY <1>1, <1>2 DEF DownloadsInv
<1>5. OneDownloadPerApp'
  <2>1. ASSUME NEW t \in Active' PROVE t \in Active /\ downloads'[t] = downloads[t]
    <3>1. t \in Slots /\ downloads'[t].active
      BY DEF Active
    <3>2. ASSUME t \in S PROVE FALSE
      <4>1. downloads'[t] = Cleared(downloads[t].callback)
        BY <1>1, <3>2
      <4> QED
        BY <1>2, <3>1, <4>1
    <3>3. downloads'[t] = downloads[t]
      BY <1>1, <3>1, <3>2
    <3> QED
      BY <3>1, <3>3 DEF Active
  <2>2. OneDownloadPerApp
    BY DEF DownloadsInv
  <2> QED
    BY <2>1, <2>2 DEF OneDownloadPerApp
<1>6. \A t \in S : ~HoldsBuffer(downloads'[t])
  BY <1>1, <1>2
<1>7. Holders' = Holders \ S
  BY <1>1, <1>6 DEF Holders, HoldsBuffer
<1>8. {t \in S : HoldsBuffer(downloads[t])} = Holders \cap S
  BY DEF Holders
<1>9. Cardinality(Holders') = Cardinality(Holders) - Held(S)
  BY <1>7, <1>8, HoldersFinite, FS_Difference DEF Held
<1> QED
  BY <1>1, <1>3, <1>4, <1>5, <1>9 DEF DownloadsInv, CompleteDownload

\* cloud_app_download takes a slot that holds nothing, for an app that has none.
LEMMA RequestInv ==
  ASSUME ConstantsOK, DownloadsInv, NEW a \in Apps, NEW auto \in BOOLEAN, Request(a, auto)
  PROVE  DownloadsInv'
<1> DEFINE s == First(FreeSlots)
           ctx == Requested(a, auto)
<1>1. s \in Slots /\ ~downloads[s].active
  BY FirstIn DEF Request, FreeSlots, Active
<1>2. SlotOK(ctx) /\ DOMAIN ctx = Fields /\ ~HoldsBuffer(ctx) /\ ctx.app = a
  BY DEF Requested, Cleared, SlotOK, HoldsBuffer, Fields
<1>3. \A t \in Slots : downloads[t].active => downloads[t].app # a
  BY DEF Request, FindDownload, Active
<1>4. ~HoldsBuffer(downloads[s])
  BY <1>1 DEF DownloadsInv, SlotOK
<1>5. downloads' = [downloads EXCEPT ![s] = ctx] /\ late' = late /\ allocated' = allocated
  BY DEF Request
<1>6. allocated \in Nat
  BY HoldersFinite, FS_CardinalityType DEF DownloadsInv
<1>7. allocated' = allocated + (IF HoldsBuffer(ctx) THEN 1 ELSE 0)
                            - (IF HoldsBuffer(downloads[s]) THEN 1 ELSE 0)
  BY <1>2, <1>4, <1>5, <1>6
<1>8. /\ late' \in Slots \cup {NoSlot}
      /\ late' # NoSlot => ~HoldsBuffer(IF late' = s THEN ctx ELSE downloads[late'])
  BY <1>2, <1>5 DEF DownloadsInv
<1> HIDE DEF s, ctx
<1> QED
  BY <1>1, <1>2, <1>3, <1>5, <1>7, <1>8, OneSlotInv

\* The slot of a metadata message, and what it becomes.
LEMMA MetadataSlotFacts ==
  ASSUME DownloadsInv, NEW a \in Apps, FindDownload(a) # {} \/ FreeSlots # {}
  PROVE  /\ MetadataSlot(a) \in Slots
         /\ \A t \in Slots \ {MetadataSlot(a)} : downloads[t].active => downloads[t].app # a
<1>1. CASE FindDownload(a) # {}
  <2>1. MetadataSlot(a) \in FindDownload(a)
    BY <1>1, FirstIn DEF MetadataSlot, FindDownload, Active
  <2> QED
    BY <2>1 DEF FindDownload, Active, DownloadsInv, OneDownloadPerApp
<1>2. CASE FindDownload(a) = {}
  <2>1. MetadataSlot(a) \in FreeSlots
    BY <1>2, FirstIn DEF MetadataSlot, FreeSlots
  <2> QED
    BY <1>2, <2>1 DEF FindDownload, FreeSlots, Active
<1> QED
  BY <1>1, <1>2

\* A buffer of a size above zero is not NULL.
LEMMA FreshFacts ==
  ASSUME NEW size \in Nat \ {0}
  PROVE  Fresh(size) # NoBuffer /\ DOMAIN Fresh(size) = 0 .. size - 1
<1>1. DOMAIN Fresh(size) = 0 .. size - 1 /\ 0 \in DOMAIN Fresh(size)
  BY DEF Fresh
<1>2. DOMAIN NoBuffer = {}
  BY DEF NoBuffer
<1> QED
  BY <1>1, <1>2

\* A metadata message frees the buffer of its context and gives it a new one.
LEMMA AcceptedInv ==
  ASSUME ConstantsOK, DownloadsInv, NEW src \in Sources, NEW a \in Apps, NEW size \in Sizes,
         MetadataAccepted(src, a, size)
  PROVE  DownloadsInv'
<1> DEFINE s == MetadataSlot(a)
           d == Described(downloads[s], src, a, size)
           ctx == [d EXCEPT !.state = "RECEIVING", !.buffer = Fresh(size)]
<1>1. s \in Slots /\ \A t \in Slots \ {s} : downloads[t].active => downloads[t].app # a
  BY MetadataSlotFacts DEF MetadataAccepted
<1>2. /\ DOMAIN d = Fields /\ d.active = TRUE /\ d.app = a /\ d.total = size
  <2>1. DOMAIN downloads[s] = Fields
    BY <1>1 DEF DownloadsInv
  <2> HIDE DEF s
  <2> QED
    BY <2>1 DEF Described, Fields
<1>3. size \in Nat \ {0}
  BY DEF ConstantsOK
<1>4. downloads' = [downloads EXCEPT ![s] = ctx] /\ late' = NoSlot
      /\ allocated' = allocated + 1 - Held({s})
  BY <1>1 DEF MetadataAccepted, DownloadsInv
<1> HIDE DEF d
<1>5. DOMAIN ctx = Fields /\ ctx.active = TRUE /\ ctx.app = a /\ ctx.total = size
      /\ ctx.state = "RECEIVING" /\ ctx.buffer = Fresh(size)
  BY <1>2 DEF Fields
<1> HIDE DEF s, ctx
<1>6. SlotOK(ctx) /\ HoldsBuffer(ctx)
  BY <1>3, <1>5, FreshFacts DEF SlotOK, HoldsBuffer
<1>7. allocated' = allocated + (IF HoldsBuffer(ctx) THEN 1 ELSE 0)
                            - (IF HoldsBuffer(downloads[s]) THEN 1 ELSE 0)
  BY <1>1, <1>4, <1>6, HeldOne
<1> QED
  BY <1>1, <1>4, <1>5, <1>6, <1>7, OneSlotInv

\* A refused allocation leaves the context without a buffer, for the late write.
LEMMA RefusedInv ==
  ASSUME ConstantsOK, DownloadsInv, NEW src \in Sources, NEW a \in Apps, NEW size \in Sizes,
         MetadataRefused(src, a, size)
  PROVE  DownloadsInv'
<1> DEFINE s == MetadataSlot(a)
           ctx == Described(downloads[s], src, a, size)
<1>1. s \in Slots /\ \A t \in Slots \ {s} : downloads[t].active => downloads[t].app # a
  BY MetadataSlotFacts DEF MetadataRefused
<1>2. /\ DOMAIN ctx = Fields /\ ctx.active = TRUE /\ ctx.app = a /\ ctx.state = "METADATA"
      /\ ctx.buffer = NoBuffer
  <2>1. DOMAIN downloads[s] = Fields
    BY <1>1 DEF DownloadsInv
  <2> HIDE DEF s
  <2> QED
    BY <2>1 DEF Described, Fields
<1>3. downloads' = [downloads EXCEPT ![s] = ctx] /\ late' = s
      /\ allocated' = allocated - Held({s})
  BY <1>1 DEF MetadataRefused, DownloadsInv
<1> HIDE DEF s, ctx
<1>4. SlotOK(ctx) /\ ~HoldsBuffer(ctx)
  BY <1>2 DEF SlotOK, HoldsBuffer
<1>5. allocated \in Nat
  BY HoldersFinite, FS_CardinalityType DEF DownloadsInv
<1>6. allocated' = allocated + (IF HoldsBuffer(ctx) THEN 1 ELSE 0)
                            - (IF HoldsBuffer(downloads[s]) THEN 1 ELSE 0)
  BY <1>1, <1>3, <1>4, <1>5, HeldOne
<1> QED
  BY <1>1, <1>2, <1>3, <1>4, <1>6, OneSlotInv

\* The late write finds no buffer, whatever the slot is used for now.
LEMMA LateInv == ASSUME ConstantsOK, DownloadsInv, LateDeactivate PROVE DownloadsInv'
<1> DEFINE s == late
           ctx == IF downloads[s].active
                    THEN [Cleared(downloads[s].callback) EXCEPT !.buffer = downloads[s].buffer]
                    ELSE downloads[s]
<1>1. s \in Slots /\ ~HoldsBuffer(downloads[s]) /\ SlotOK(downloads[s])
      /\ DOMAIN downloads[s] = Fields
  BY DEF LateDeactivate, DownloadsInv
<1>2. downloads' = [downloads EXCEPT ![s] = ctx] /\ late' = NoSlot /\ allocated' = allocated
  BY <1>1 DEF LateDeactivate, DownloadsInv
<1>3. SlotOK(ctx) /\ ~HoldsBuffer(ctx) /\ DOMAIN ctx = Fields /\ ~ctx.active
  <2>1. CASE downloads[s].active
    <3>1. DOMAIN ctx = Fields /\ ctx.active = FALSE /\ ctx.buffer = downloads[s].buffer
      BY <2>1 DEF Cleared, Fields
    <3> QED
      BY <1>1, <3>1 DEF SlotOK, HoldsBuffer
  <2>2. CASE ~downloads[s].active
    BY <1>1, <2>2
  <2> QED
    BY <2>1, <2>2
<1>4. allocated \in Nat
  BY HoldersFinite, FS_CardinalityType DEF DownloadsInv
<1> HIDE DEF s, ctx
<1>5. allocated' = allocated + (IF HoldsBuffer(ctx) THEN 1 ELSE 0)
                            - (IF HoldsBuffer(downloads[s]) THEN 1 ELSE 0)
  BY <1>1, <1>2, <1>3, <1>4
<1>6. /\ late' \in Slots \cup {NoSlot}
      /\ late' # NoSlot => ~HoldsBuffer(IF late' = s THEN ctx ELSE downloads[late'])
  BY <1>2
<1> QED
  BY <1>1, <1>2, <1>3, <1>5, <1>6, OneSlotInv

\* A chunk that fits leaves the buffer's size alone.
LEMMA ChunkInv ==
  ASSUME ConstantsOK, DownloadsInv, NEW src \in Sources, NEW o \in Offsets, ChunkStored(src, o)
  PROVE  DownloadsInv'
<1> DEFINE s == First(ChunkSlot(src))
           old == downloads[s]
           buf == [p \in DOMAIN old.buffer \cup {o} |-> IF p = o THEN feed[src].app ELSE old.buffer[p]]
           ctx == [old EXCEPT !.buffer = buf, !.received = @ + 1]
<1>1. s \in Slots /\ old.active /\ old.state = "RECEIVING"
  <2>1. s \in ChunkSlot(src)
    BY FirstIn DEF ChunkStored, ChunkSlot, Active
  <2> QED
    BY <2>1 DEF ChunkSlot, Active
<1>2. DOMAIN old = Fields /\ SlotOK(old) /\ HoldsBuffer(old)
  BY <1>1 DEF DownloadsInv, SlotOK
<1>3. old.total \in Nat \ {0} /\ DOMAIN old.buffer = 0 .. old.total - 1
  BY <1>2 DEF SlotOK
<1>4. Cardinality(DOMAIN old.buffer) = old.total
  BY <1>3, FS_Interval
<1>5. o \in 0 .. old.total - 1
  BY <1>3, <1>4 DEF ChunkStored, Fits, Offsets
<1>6. DOMAIN buf = 0 .. old.total - 1 /\ buf # NoBuffer
  <2>1. DOMAIN buf = 0 .. old.total - 1
    BY <1>3, <1>5
  <2>2. 0 \in DOMAIN buf /\ DOMAIN NoBuffer = {}
    BY <1>3, <2>1 DEF NoBuffer
  <2> QED
    BY <2>1, <2>2
<1>7. downloads' = [downloads EXCEPT ![s] = ctx] /\ late' = late /\ late = NoSlot
      /\ allocated' = allocated
  BY <1>1, <1>2 DEF ChunkStored, DownloadsInv, Fields
<1> HIDE DEF buf
<1>8. DOMAIN ctx = Fields /\ ctx.active = old.active /\ ctx.state = old.state /\ ctx.app = old.app
      /\ ctx.total = old.total /\ ctx.buffer = buf
  BY <1>2 DEF Fields
<1>9. SlotOK(ctx) /\ HoldsBuffer(ctx)
  BY <1>1, <1>2, <1>3, <1>6, <1>8 DEF SlotOK, HoldsBuffer
<1>10. ctx.active => \A t \in Slots \ {s} : downloads[t].active => downloads[t].app # ctx.app
  BY <1>1, <1>8 DEF DownloadsInv, OneDownloadPerApp, Active
<1>11. allocated \in Nat
  BY HoldersFinite, FS_CardinalityType DEF DownloadsInv
<1>12. allocated' = allocated + (IF HoldsBuffer(ctx) THEN 1 ELSE 0)
                             - (IF HoldsBuffer(downloads[s]) THEN 1 ELSE 0)
  BY <1>2, <1>7, <1>9, <1>11
<1> HIDE DEF s, ctx
<1> QED
  BY <1>1, <1>7, <1>8, <1>9, <1>10, <1>12, OneSlotInv

\* Dropped messages touch no context.
LEMMA UnchangedInv ==
  ASSUME DownloadsInv, UNCHANGED <<downloads, late, allocated>>
  PROVE  DownloadsInv'
BY DEF DownloadsInv, OneDownloadPerApp, Active, Holders

\* No context is active.
LEMMA InitDownloads == ConstantsOK /\ Init => DownloadsInv
<1> SUFFICES ASSUME Init PROVE DownloadsInv
  OBVIOUS
<1>1. \A s \in Slots : downloads[s] = Cleared(NoRequest)
  BY DEF Init
<1>2. /\ SlotOK(Cleared(NoRequest)) /\ ~HoldsBuffer(Cleared(NoRequest))
      /\ DOMAIN Cleared(NoRequest) = Fields /\ Cleared(NoRequest).active = FALSE
  BY DEF SlotOK, HoldsBuffer, Cleared, Fields
<1>3. Holders = {} /\ Cardinality({}) = 0
  BY <1>1, <1>2, FS_EmptySet DEF Holders
<1> QED
  BY <1>1, <1>2, <1>3 DEF Init, DownloadsInv, OneDownloadPerApp, Active

\* Every step keeps the invariant.
LEMMA NextDownloads == ConstantsOK /\ DownloadsInv /\ [Next]_vars => DownloadsInv'
<1> SUFFICES ASSUME ConstantsOK, DownloadsInv, [Next]_vars PROVE DownloadsInv'
  OBVIOUS
<1>1. ASSUME NEW a \in Apps, NEW auto \in BOOLEAN, Request(a, auto) PROVE DownloadsInv'
  BY <1>1, RequestInv
<1>2. ASSUME NEW A, Cancel(A) PROVE DownloadsInv'
  <2> DEFINE S == {s \in Active : downloads[s].app \in A}
  <2>1. S \in SUBSET Slots /\ CompleteDownload(S) /\ late' = late
    BY <1>2 DEF Cancel, Active
  <2> HIDE DEF S
  <2> QED
    BY <2>1, CompleteInv
<1>3. ASSUME NEW src \in Sources, Message(src) PROVE DownloadsInv'
  <2>1. ASSUME NEW a \in Apps, NEW size \in Sizes, MetadataAccepted(src, a, size)
        PROVE  DownloadsInv'
    BY <2>1, AcceptedInv
  <2>2. ASSUME NEW a \in Apps, NEW size \in Sizes, MetadataRefused(src, a, size)
        PROVE  DownloadsInv'
    BY <2>2, RefusedInv
  <2>3. ASSUME NEW a \in Apps, MetadataDropped(src, a) PROVE DownloadsInv'
    BY <2>3, UnchangedInv DEF MetadataDropped
  <2>4. ASSUME NEW o \in Offsets, ChunkStored(src, o) PROVE DownloadsInv'
    BY <2>4, ChunkInv
  <2>5. ASSUME NEW o \in Offsets, ChunkDropped(src, o) PROVE DownloadsInv'
    BY <2>5, UnchangedInv DEF ChunkDropped
  <2>6. CASE AppComplete(src)
    <3> DEFINE S == {First(CompleteSlot(src))}
    <3>1. S \in SUBSET Slots /\ CompleteDownload(S) /\ late' = late
      BY <2>6, FirstIn DEF AppComplete, CompleteSlot, Active
    <3> HIDE DEF S
    <3> QED
      BY <3>1, CompleteInv
  <2> QED
    BY <1>3, <2>1, <2>2, <2>3, <2>4, <2>5, <2>6 DEF Message
<1>4. CASE LateDeactivate
  BY <1>4, LateInv
<1>5. CASE UNCHANGED vars
  BY <1>5, UnchangedInv DEF vars
<1> QED
  BY <1>1, <1>2, <1>3, <1>4, <1>5 DEF Next

\* The invariant gives the property.
LEMMA DownloadsInvImplies == ConstantsOK /\ DownloadsInv => DownloadsSound
<1> SUFFICES ASSUME ConstantsOK, DownloadsInv PROVE DownloadsSound
  OBVIOUS
<1>1. allocated = Held(Slots)
  BY DEF DownloadsInv, Holders, Held
<1>2. BuffersAreHeld
  BY <1>1 DEF BuffersAreHeld, DownloadsInv, SlotOK, Active
<1> QED
  BY <1>2 DEF DownloadsSound, DownloadsInv

\* No app has two downloads, and every buffer k_malloc gave out is in one active
\* context that receives into it (cloud_app_handler.c), for any number of slots,
\* apps and sources, and whatever is requested, cancelled, sent and refused.
THEOREM BuffersChangeHands == Spec => []DownloadsSound
<1>0. ConstantsOK
  BY SlotsAssumption, SizesAssumption DEF ConstantsOK
<1>1. Init => DownloadsInv
  BY <1>0, InitDownloads
<1>2. DownloadsInv /\ [Next]_vars => DownloadsInv'
  BY <1>0, NextDownloads
<1>3. DownloadsInv => DownloadsSound
  BY <1>0, DownloadsInvImplies
<1> QED
  BY <1>1, <1>2, <1>3, PTL DEF Spec

-----------------------------------------------------------------------------
(* Proofs: clean transfers.                                                *)

\* There is a context, and MSG_SOURCE_UNKNOWN is not a transport.
NamesOK == ConstantsOK /\ MaxDownloads > 0 /\ NoSource \notin Sources

\* Slot s has received exactly what the feed f has sent.
Mirrors(s, f) ==
  /\ downloads[s].state = "RECEIVING" /\ downloads[s].app = f.app
  /\ f.size \in Nat \ {0} /\ downloads[s].total = f.size
  /\ f.sent \subseteq 0 .. f.size - 1
  /\ downloads[s].received = Cardinality(f.sent)
  /\ \A o \in f.sent : downloads[s].buffer[o] = f.app

\* A clean transfer is the only one of its source, and one context mirrors it.
FollowedBy(s, src) == feed[src].clean => CompleteSlot(src) = {s} /\ Mirrors(s, feed[src])

\* Every source has at most one clean transfer, and it is mirrored.
FeedInv ==
  /\ feed = [src \in Sources |-> feed[src]]
  /\ \A src \in Sources : \E s \in Slots : FollowedBy(s, src)

\* The inductive invariant of CleanTransferIsWhole.
CleanInv == DownloadsInv /\ FeedInv /\ CleanTransferIsWhole

\* A step that hands nothing over.
LEMMA OutcomeClean == outcome = NoOutcome => CleanTransferIsWhole
BY DEF NoOutcome, NoFeed, CleanTransferIsWhole

\* A source keeps its transfer if no context of it appears, its own context is
\* left alone, and so is what it has sent.
LEMMA KeptFeed ==
  ASSUME DownloadsInv, NEW src \in Sources, NEW s \in Slots, FollowedBy(s, src),
         feed'[src] = feed[src] \/ ~feed'[src].clean,
         feed'[src].clean => downloads'[s] = downloads[s],
         feed'[src].clean => CompleteSlot(src)' \subseteq CompleteSlot(src)
  PROVE  FollowedBy(s, src)'
<1> SUFFICES ASSUME feed'[src].clean PROVE CompleteSlot(src)' = {s} /\ Mirrors(s, feed[src])'
  BY DEF FollowedBy
<1>1. feed'[src] = feed[src] /\ CompleteSlot(src) = {s} /\ Mirrors(s, feed[src])
  BY DEF FollowedBy
<1>2. downloads'[s] = downloads[s]
  OBVIOUS
<1>3. s \in CompleteSlot(src)'
  BY <1>1, <1>2 DEF CompleteSlot, Active
<1> QED
  BY <1>1, <1>2, <1>3 DEF Mirrors

\* What becomes of the other feeds.
LEMMA DisturbedFacts ==
  ASSUME NEW A, NEW src \in Sources
  PROVE  \/ Disturbed(A)[src] = feed[src] /\ feed[src].app \notin A
         \/ ~Disturbed(A)[src].clean
BY DEF Disturbed, Unclean, NoFeed

\* The contexts of a set of apps go.
LEMMA DroppedFeeds ==
  ASSUME DownloadsInv, FeedInv, NEW S \in SUBSET Active,
         CompleteDownload(S),
         NoSource \notin Sources,
         feed' = [src \in Sources |-> feed'[src]],
         \A src \in Sources :
           \/ feed'[src] = feed[src] /\ \A s \in S : downloads[s].app # feed[src].app
           \/ ~feed'[src].clean
  PROVE  FeedInv'
<1> SUFFICES ASSUME NEW src \in Sources PROVE \E s \in Slots : FollowedBy(s, src)'
  BY DEF FeedInv
<1>1. PICK s \in Slots : FollowedBy(s, src)
  BY DEF FeedInv
<1>2. feed'[src] = feed[src] \/ ~feed'[src].clean
  OBVIOUS
<1>3. S \subseteq Slots
  BY DEF Active
<1>4. \A t \in Slots \ S : downloads'[t] = downloads[t]
  BY DEF CompleteDownload
<1>5. \A t \in S : downloads'[t].active = FALSE
  BY <1>3 DEF CompleteDownload, Cleared
<1>6. CompleteSlot(src)' \subseteq CompleteSlot(src)
  BY <1>4, <1>5 DEF CompleteSlot, Active
<1>7. feed'[src].clean => downloads'[s] = downloads[s]
  BY <1>1, <1>4 DEF FollowedBy, Mirrors
<1> QED
  BY <1>1, <1>2, <1>6, <1>7, KeptFeed

\* A metadata message of another source is about another app, or disturbs.
LEMMA DescribedFeeds ==
  ASSUME DownloadsInv, FeedInv, NEW src \in Sources, NEW a \in Apps, NEW size, NEW ctx,
         FindDownload(a) # {} \/ FreeSlots # {},
         downloads' = [downloads EXCEPT ![MetadataSlot(a)] = ctx], ctx.source = src,
         feed' = [t \in Sources |-> feed'[t]],
         \A t \in Sources \ {src} : feed'[t] = Disturbed({a})[t],
         \E s \in Slots : FollowedBy(s, src)'
  PROVE  FeedInv'
<1> SUFFICES ASSUME NEW t \in Sources \ {src} PROVE \E s \in Slots : FollowedBy(s, t)'
  BY DEF FeedInv
<1>1. PICK s \in Slots : FollowedBy(s, t)
  BY DEF FeedInv
<1> DEFINE m == MetadataSlot(a)
<1>2. \/ feed'[t] = feed[t] /\ feed[t].app # a
      \/ ~feed'[t].clean
  BY DisturbedFacts
<1>3. m \in Slots /\ (downloads[m].active => downloads[m].app = a)
  <2>1. m \in FindDownload(a) \/ m \in FreeSlots
    BY FirstIn DEF MetadataSlot, FindDownload, FreeSlots, Active
  <2> QED
    BY <2>1 DEF FindDownload, FreeSlots, Active
<1> HIDE DEF m
<1>4. downloads' = [downloads EXCEPT ![m] = ctx] /\ DOMAIN downloads = Slots
  BY DEF m, DownloadsInv
<1>5. CompleteSlot(t)' \subseteq CompleteSlot(t)
  BY <1>3, <1>4 DEF CompleteSlot, Active
<1>6. feed'[t].clean => downloads'[s] = downloads[s]
  <2> SUFFICES ASSUME feed'[t].clean PROVE s # m
    BY <1>4
  <2>1. feed[t].clean /\ feed[t].app # a
    BY <1>2
  <2>2. s \in CompleteSlot(t) /\ downloads[s].app = feed[t].app
    BY <1>1, <2>1 DEF FollowedBy, Mirrors
  <2> QED
    BY <1>3, <2>1, <2>2 DEF CompleteSlot, Active
<1> QED
  BY <1>1, <1>2, <1>5, <1>6, KeptFeed

\* cloud_app_download takes a free slot, and its context has no source yet.
LEMMA RequestClean ==
  ASSUME NamesOK, CleanInv, NEW a \in Apps, NEW auto \in BOOLEAN, Request(a, auto)
  PROVE  FeedInv' /\ CleanTransferIsWhole'
<1>1. CleanTransferIsWhole'
  BY OutcomeClean DEF Request, NoOutcome, NoFeed, CleanTransferIsWhole
<1> DEFINE m == First(FreeSlots)
<1>2. m \in Slots /\ ~downloads[m].active
  BY FirstIn DEF Request, FreeSlots, Active
<1>3. Requested(a, auto).source = NoSource
  BY DEF Requested, Cleared
<1>4. downloads' = [downloads EXCEPT ![m] = Requested(a, auto)] /\ feed' = feed /\ DOMAIN downloads = Slots
  BY DEF Request, CleanInv, DownloadsInv
<1> HIDE DEF m
<1>5. FeedInv'
  <2> SUFFICES ASSUME NEW src \in Sources PROVE \E s \in Slots : FollowedBy(s, src)'
    BY <1>4 DEF FeedInv, CleanInv
  <2>1. PICK s \in Slots : FollowedBy(s, src)
    BY DEF FeedInv, CleanInv
  <2>2. CompleteSlot(src)' \subseteq CompleteSlot(src)
    BY <1>2, <1>3, <1>4 DEF CompleteSlot, Active, NamesOK
  <2>3. feed'[src].clean => downloads'[s] = downloads[s]
    <3> SUFFICES ASSUME feed[src].clean PROVE s # m
      BY <1>4
    <3>1. s \in CompleteSlot(src)
      BY <2>1 DEF FollowedBy
    <3> QED
      BY <1>2, <3>1 DEF CompleteSlot, Active
  <2> QED
    BY <1>4, <2>1, <2>2, <2>3, KeptFeed DEF CleanInv
<1> QED
  BY <1>1, <1>5

\* Cancelling an app disturbs whoever is sending it.
LEMMA CancelClean ==
  ASSUME NamesOK, CleanInv, NEW A, Cancel(A)
  PROVE  FeedInv' /\ CleanTransferIsWhole'
<1> DEFINE S == {s \in Active : downloads[s].app \in A}
           B == {downloads[s].app : s \in S}
<1>1. CleanTransferIsWhole'
  BY DEF Cancel, NoOutcome, NoFeed, CleanTransferIsWhole
<1>2. S \in SUBSET Active /\ CompleteDownload(S) /\ feed' = Disturbed(B)
  BY DEF Cancel
<1>3. \A s \in S : downloads[s].app \in B
  OBVIOUS
<1> HIDE DEF S, B
<1>4. feed' = [src \in Sources |-> feed'[src]]
  BY <1>2 DEF Disturbed
<1>5. \A src \in Sources :
           \/ feed'[src] = feed[src] /\ \A s \in S : downloads[s].app # feed[src].app
           \/ ~feed'[src].clean
  BY <1>2, <1>3, DisturbedFacts
<1> QED
  BY <1>1, <1>2, <1>4, <1>5, DroppedFeeds DEF CleanInv, NamesOK

\* A metadata message starts a clean transfer if its source has no other context.
LEMMA AcceptedClean ==
  ASSUME NamesOK, CleanInv, NEW src \in Sources, NEW a \in Apps, NEW size \in Sizes,
         MetadataAccepted(src, a, size)
  PROVE  FeedInv' /\ CleanTransferIsWhole'
<1>0. PICK s \in Slots : s = MetadataSlot(a)
  BY MetadataSlotFacts DEF MetadataAccepted, CleanInv
<1> DEFINE d == Described(downloads[s], src, a, size)
           ctx == [d EXCEPT !.state = "RECEIVING", !.buffer = Fresh(size)]
<1>1. CleanTransferIsWhole'
  BY DEF MetadataAccepted, NoOutcome, NoFeed, CleanTransferIsWhole
<1>2. s \in Slots /\ downloads' = [downloads EXCEPT ![s] = ctx] /\ feed' = Announced(src, a, size)
      /\ (FindDownload(a) # {} \/ FreeSlots # {})
      /\ \A t \in Slots \ {s} : downloads[t].active => downloads[t].app # a
  BY <1>0, MetadataSlotFacts DEF MetadataAccepted, CleanInv, DownloadsInv
<1>3. /\ DOMAIN d = Fields /\ d.active = TRUE /\ d.app = a /\ d.total = size /\ d.received = 0 /\ d.source = src
  <2>1. DOMAIN downloads[s] = Fields
    BY <1>2 DEF CleanInv, DownloadsInv
  <2> QED
    BY <2>1 DEF Described, Fields
<1> HIDE DEF d
<1>4. ctx.active = TRUE /\ ctx.app = a /\ ctx.total = size /\ ctx.received = 0 /\ ctx.source = src
      /\ ctx.state = "RECEIVING"
  BY <1>3 DEF Fields
<1>8. downloads'[s] = ctx /\ \A t \in Slots \ {s} : downloads'[t] = downloads[t]
  BY <1>2 DEF CleanInv, DownloadsInv
<1>9. PICK c : c = ctx
  OBVIOUS
<1>10. /\ c.active = TRUE /\ c.app = a /\ c.total = size /\ c.received = 0 /\ c.source = src
       /\ c.state = "RECEIVING" /\ downloads'[s] = c /\ downloads' = [downloads EXCEPT ![MetadataSlot(a)] = c]
  BY <1>0, <1>2, <1>4, <1>8, <1>9
<1> HIDE DEF ctx
<1>5. /\ feed' = [t \in Sources |-> feed'[t]]
      /\ \A t \in Sources \ {src} : feed'[t] = Disturbed({a})[t]
      /\ feed'[src].clean =>
           /\ CompleteSlot(src) \subseteq FindDownload(a)
           /\ feed'[src] = [app |-> a, size |-> size, sent |-> {}, clean |-> TRUE]
  BY <1>2 DEF Announced, Disturbed, NoFeed
<1>6. FollowedBy(s, src)'
  <2> SUFFICES ASSUME feed'[src].clean PROVE CompleteSlot(src)' = {s} /\ Mirrors(s, feed[src])'
    BY DEF FollowedBy
  <2>1. downloads'[s] = c /\ \A t \in Slots \ {s} : downloads'[t] = downloads[t]
    BY <1>8, <1>10
  <2>2. \A t \in Slots \ {s} : t \notin CompleteSlot(src)'
    BY <1>2, <1>5, <2>1 DEF CompleteSlot, FindDownload, Active
  <2>3. s \in CompleteSlot(src)'
    BY <1>2, <1>10, <2>1 DEF CompleteSlot, Active
  <2>4. CompleteSlot(src)' = {s}
    BY <2>2, <2>3 DEF CompleteSlot, Active
  <2>5. feed'[src].app = a /\ feed'[src].size = size /\ feed'[src].sent = {}
    BY <1>5
  <2>6. size \in Nat \ {0} /\ Cardinality({}) = 0
    BY FS_EmptySet DEF NamesOK, ConstantsOK
  <2>7. Mirrors(s, feed[src])'
    BY <1>10, <2>1, <2>5, <2>6 DEF Mirrors
  <2> QED
    BY <2>4, <2>7
<1>7. \E e \in Slots : FollowedBy(e, src)'
  BY <1>6
<1>11. c.source = src /\ downloads' = [downloads EXCEPT ![MetadataSlot(a)] = c]
  BY <1>10
<1>12. FindDownload(a) # {} \/ FreeSlots # {}
  BY <1>2
<1>13. /\ feed' = [t \in Sources |-> feed'[t]]
       /\ \A t \in Sources \ {src} : feed'[t] = Disturbed({a})[t]
  BY <1>5
<1>14. FeedInv'
  BY <1>7, <1>11, <1>12, <1>13, DescribedFeeds DEF CleanInv
<1> QED
  BY <1>1, <1>14

\* Without memory the transfer of the source is over.
LEMMA RefusedClean ==
  ASSUME NamesOK, CleanInv, NEW src \in Sources, NEW a \in Apps, NEW size \in Sizes,
         MetadataRefused(src, a, size)
  PROVE  FeedInv' /\ CleanTransferIsWhole'
<1>0. PICK s \in Slots : s = MetadataSlot(a)
  BY MetadataSlotFacts DEF MetadataRefused, CleanInv
<1> DEFINE d == Described(downloads[s], src, a, size)
<1>1. CleanTransferIsWhole'
  BY DEF MetadataRefused, NoOutcome, NoFeed, CleanTransferIsWhole
<1>2. s \in Slots /\ downloads' = [downloads EXCEPT ![s] = d] /\ feed' = Unheard(src, a)
      /\ (FindDownload(a) # {} \/ FreeSlots # {})
  BY <1>0, MetadataSlotFacts DEF MetadataRefused, CleanInv, DownloadsInv
<1>3. d.source = src
  <2>1. DOMAIN downloads[s] = Fields
    BY <1>2 DEF CleanInv, DownloadsInv
  <2> QED
    BY <2>1 DEF Described, Fields
<1>4. PICK c : c.source = src /\ downloads' = [downloads EXCEPT ![MetadataSlot(a)] = c]
  BY <1>0, <1>2, <1>3
<1>5. /\ feed' = [t \in Sources |-> feed'[t]]
      /\ \A t \in Sources \ {src} : feed'[t] = Disturbed({a})[t]
      /\ ~feed'[src].clean
  BY <1>2 DEF Unheard, Disturbed, NoFeed
<1>6. FollowedBy(s, src)'
  BY <1>5 DEF FollowedBy
<1> QED
  BY <1>1, <1>2, <1>4, <1>5, <1>6, DescribedFeeds DEF CleanInv

\* The late write disturbs whoever is sending into that slot.
LEMMA LateClean ==
  ASSUME NamesOK, CleanInv, LateDeactivate
  PROVE  FeedInv' /\ CleanTransferIsWhole'
<1>1. CleanTransferIsWhole'
  BY DEF LateDeactivate, NoOutcome, NoFeed, CleanTransferIsWhole
<1> DEFINE c == IF downloads[late].active
                  THEN [Cleared(downloads[late].callback) EXCEPT !.buffer = downloads[late].buffer]
                  ELSE downloads[late]
<1>2. late \in Slots /\ downloads' = [downloads EXCEPT ![late] = c]
      /\ feed' = Disturbed({downloads[late].app})
  BY DEF LateDeactivate, CleanInv, DownloadsInv
<1>3. ~c.active
  BY DEF Cleared
<1> HIDE DEF c
<1>4. feed' = [t \in Sources |-> feed'[t]]
  BY <1>2 DEF Disturbed
<1>5. FeedInv'
  <2> SUFFICES ASSUME NEW src \in Sources PROVE \E s \in Slots : FollowedBy(s, src)'
    BY <1>4 DEF FeedInv
  <2>1. PICK s \in Slots : FollowedBy(s, src)
    BY DEF FeedInv, CleanInv
  <2>2. CompleteSlot(src)' \subseteq CompleteSlot(src)
    BY <1>2, <1>3 DEF CompleteSlot, Active, CleanInv, DownloadsInv
  <2>3. \/ feed'[src] = feed[src] /\ feed[src].app # downloads[late].app
        \/ ~feed'[src].clean
    BY <1>2, DisturbedFacts
  <2>4. feed'[src].clean => downloads'[s] = downloads[s]
    BY <1>2, <2>1, <2>3 DEF FollowedBy, Mirrors, CleanInv, DownloadsInv
  <2> QED
    BY <2>1, <2>2, <2>3, <2>4, KeptFeed DEF CleanInv
<1> QED
  BY <1>1, <1>5

\* The transfer of one source is not by the book any more, the contexts stay.
LEMMA SpoiltFeed ==
  ASSUME CleanInv, downloads' = downloads, outcome' = NoOutcome,
         feed' = [t \in Sources |-> feed'[t]],
         \A src \in Sources : feed'[src] = feed[src] \/ ~feed'[src].clean
  PROVE  FeedInv' /\ CleanTransferIsWhole'
<1>1. CleanTransferIsWhole'
  BY DEF NoOutcome, NoFeed, CleanTransferIsWhole
<1>2. FeedInv'
  <2> SUFFICES ASSUME NEW src \in Sources PROVE \E s \in Slots : FollowedBy(s, src)'
    BY DEF FeedInv
  <2>1. PICK s \in Slots : FollowedBy(s, src)
    BY DEF FeedInv, CleanInv
  <2>2. CompleteSlot(src)' \subseteq CompleteSlot(src)
    BY DEF CompleteSlot, Active
  <2> QED
    BY <2>1, <2>2, KeptFeed DEF CleanInv
<1> QED
  BY <1>1, <1>2

\* No context: the source sends in vain.
LEMMA MetadataDroppedClean ==
  ASSUME NamesOK, CleanInv, NEW src \in Sources, NEW a \in Apps, MetadataDropped(src, a)
  PROVE  FeedInv' /\ CleanTransferIsWhole'
<1>1. feed' = Unheard(src, a) /\ downloads' = downloads /\ outcome' = NoOutcome
  BY DEF MetadataDropped
<1>2. feed' = [t \in Sources |-> feed'[t]]
  BY <1>1 DEF Unheard, Disturbed
<1>3. \A t \in Sources : feed'[t] = feed[t] \/ ~feed'[t].clean
  <2>1. ~feed'[src].clean
    BY <1>1 DEF Unheard, Disturbed, NoFeed
  <2>2. \A t \in Sources \ {src} : feed'[t] = Disturbed({a})[t]
    BY <1>1 DEF Unheard, Disturbed
  <2> QED
    BY <2>1, <2>2, DisturbedFacts
<1> QED
  BY <1>1, <1>2, <1>3, SpoiltFeed

\* A chunk that is not stored is lost.
LEMMA ChunkDroppedClean ==
  ASSUME NamesOK, CleanInv, NEW src \in Sources, NEW o \in Offsets, ChunkDropped(src, o)
  PROVE  FeedInv' /\ CleanTransferIsWhole'
<1>1. feed' = [feed EXCEPT ![src] = Unclean(@)] /\ downloads' = downloads /\ outcome' = NoOutcome
  BY DEF ChunkDropped
<1>2. feed' = [t \in Sources |-> feed'[t]]
  BY <1>1 DEF CleanInv, FeedInv
<1>3. \A t \in Sources : feed'[t] = feed[t] \/ ~feed'[t].clean
  BY <1>1 DEF CleanInv, FeedInv, Unclean, NoFeed
<1> QED
  BY <1>1, <1>2, <1>3, SpoiltFeed

\* What a feed has sent is a finite set of offsets.
LEMMA SentFinite ==
  ASSUME NEW s, NEW f, Mirrors(s, f)
  PROVE  IsFiniteSet(f.sent) /\ Cardinality(f.sent) \in Nat
<1>1. IsFiniteSet(0 .. f.size - 1)
  BY FS_Interval DEF Mirrors
<1> QED
  BY <1>1, FS_Subset, FS_CardinalityType DEF Mirrors

\* A chunk goes to the context that mirrors its source, and to no other.
LEMMA ChunkStoredClean ==
  ASSUME NamesOK, CleanInv, NEW src \in Sources, NEW o \in Offsets, ChunkStored(src, o)
  PROVE  FeedInv' /\ CleanTransferIsWhole'
<1>1. CleanTransferIsWhole'
  BY DEF ChunkStored, NoOutcome, NoFeed, CleanTransferIsWhole
<1>2. PICK m : m = First(ChunkSlot(src))
  OBVIOUS
<1>3. m \in Slots /\ m \in ChunkSlot(src) /\ m \in CompleteSlot(src)
  <2>1. m \in ChunkSlot(src)
    BY <1>2, FirstIn DEF ChunkStored, ChunkSlot, Active
  <2> QED
    BY <2>1 DEF ChunkSlot, CompleteSlot, Active
<1> DEFINE old == downloads[m]
           buf == [p \in DOMAIN old.buffer \cup {o} |-> IF p = o THEN feed[src].app ELSE old.buffer[p]]
<1>4. /\ DOMAIN old = Fields /\ old.active /\ old.source = src
      /\ old.total \in Nat \ {0} /\ DOMAIN old.buffer = 0 .. old.total - 1
  BY <1>3 DEF CleanInv, DownloadsInv, SlotOK, ChunkSlot, Active
<1>5. o \in 0 .. old.total - 1
  <2>1. Cardinality(DOMAIN old.buffer) = old.total
    BY <1>4, FS_Interval
  <2> QED
    BY <1>2, <1>4, <2>1 DEF ChunkStored, Fits, Offsets
<1>6. /\ downloads' = [downloads EXCEPT ![m] = [old EXCEPT !.buffer = buf, !.received = @ + 1]]
      /\ feed' = SendUnit(src, o)
  BY <1>2, <1>3, <1>4 DEF ChunkStored, CleanInv, DownloadsInv, Fields
<1>7. /\ downloads'[m].active = old.active /\ downloads'[m].state = old.state
      /\ downloads'[m].app = old.app /\ downloads'[m].source = src
      /\ downloads'[m].total = old.total /\ downloads'[m].received = old.received + 1
      /\ downloads'[m].buffer = buf
      /\ \A t \in Slots \ {m} : downloads'[t] = downloads[t]
  BY <1>3, <1>4, <1>6 DEF CleanInv, DownloadsInv, Fields
<1>8. \A t \in Sources : CompleteSlot(t)' = CompleteSlot(t)
  <2>1. /\ downloads'[m].active = downloads[m].active
        /\ downloads'[m].source = downloads[m].source
    BY <1>4, <1>7
  <2>2. \A p \in Slots : downloads'[p].active = downloads[p].active
                       /\ downloads'[p].source = downloads[p].source
    BY <1>7, <2>1
  <2> QED
    BY <2>2 DEF CompleteSlot, Active
<1>9. feed' = [t \in Sources |-> feed'[t]] /\ \A t \in Sources \ {src} : feed'[t] = feed[t]
  BY <1>6 DEF SendUnit, CleanInv, FeedInv
<1>10. feed'[src].clean =>
         /\ feed[src].clean /\ o \notin feed[src].sent
         /\ feed'[src].app = feed[src].app /\ feed'[src].size = feed[src].size
         /\ feed'[src].sent = feed[src].sent \cup {o}
  <2>1. feed'[src] = IF feed[src].clean /\ o \notin feed[src].sent
                       THEN [feed[src] EXCEPT !.sent = @ \cup {o}] ELSE Unclean(feed[src])
    BY <1>6 DEF SendUnit, CleanInv, FeedInv
  <2> QED
    BY <2>1 DEF Unclean, NoFeed
<1>11. ASSUME NEW t \in Sources \ {src} PROVE \E s \in Slots : FollowedBy(s, t)'
  <2>1. PICK s \in Slots : FollowedBy(s, t)
    BY DEF CleanInv, FeedInv
  <2>2. feed'[t].clean => s # m
    BY <1>4, <1>9, <2>1 DEF FollowedBy, CompleteSlot
  <2> QED
    BY <1>7, <1>8, <1>9, <2>1, <2>2, KeptFeed DEF CleanInv
<1>12. FollowedBy(m, src)'
  <2> SUFFICES ASSUME feed'[src].clean PROVE CompleteSlot(src)' = {m} /\ Mirrors(m, feed[src])'
    BY DEF FollowedBy
  <2>1. CompleteSlot(src) = {m} /\ Mirrors(m, feed[src])
    BY <1>3, <1>10 DEF CleanInv, FeedInv, FollowedBy
  <2>2. o \notin feed[src].sent
    BY <1>10
  <2>3. feed'[src].app = feed[src].app /\ feed'[src].size = feed[src].size
        /\ feed'[src].sent = feed[src].sent \cup {o}
    BY <1>10
  <2>4. Cardinality(feed'[src].sent) = Cardinality(feed[src].sent) + 1
    BY <2>1, <2>2, <2>3, SentFinite, FS_AddElement
  <2>5. feed[src].sent \subseteq DOMAIN old.buffer
    BY <1>4, <2>1 DEF Mirrors
  <2>6. \A p \in feed'[src].sent : buf[p] = feed[src].app
    BY <2>1, <2>3, <2>5 DEF Mirrors
  <2> HIDE DEF buf
  <2>7. \A p \in feed'[src].sent : downloads'[m].buffer[p] = feed[src].app
    BY <1>7, <2>6
  <2>8. o \in 0 .. feed[src].size - 1
    BY <1>5, <2>1 DEF Mirrors
  <2>9. downloads'[m].received = Cardinality(feed'[src].sent)
    BY <1>7, <2>1, <2>4 DEF Mirrors
  <2>10. downloads'[m].state = "RECEIVING" /\ downloads'[m].app = feed'[src].app
         /\ feed'[src].size \in Nat \ {0} /\ downloads'[m].total = feed'[src].size
         /\ feed'[src].sent \subseteq 0 .. feed'[src].size - 1
    BY <1>7, <2>1, <2>3, <2>8 DEF Mirrors
  <2> QED
    BY <1>8, <2>1, <2>3, <2>7, <2>9, <2>10 DEF Mirrors
<1>13. FeedInv'
  BY <1>3, <1>9, <1>11, <1>12 DEF FeedInv
<1> QED
  BY <1>1, <1>13

\* APP_COMPLETE hands over what the source's context mirrors.
LEMMA AppCompleteClean ==
  ASSUME NamesOK, CleanInv, NEW src \in Sources, AppComplete(src)
  PROVE  FeedInv' /\ CleanTransferIsWhole'
<1>1. PICK m : m = First(CompleteSlot(src))
  OBVIOUS
<1>2. m \in Slots /\ m \in CompleteSlot(src) /\ m \in Active
  BY <1>1, FirstIn DEF AppComplete, CompleteSlot, Active
<1>3. /\ CompleteDownload({m})
      /\ outcome' = [feed |-> IF feed[src].clean THEN feed[src] ELSE NoFeed, app |-> downloads[m].app,
                     buffer |-> downloads[m].buffer,
                     received |-> downloads[m].received, total |-> downloads[m].total,
                     install |-> downloads[m].auto_install /\ HasMagic(downloads[m].buffer)]
      /\ feed' = [Disturbed({downloads[m].app}) EXCEPT ![src] = NoFeed]
  BY <1>1 DEF AppComplete
<1>4. CleanTransferIsWhole'
  <2> SUFFICES ASSUME outcome'.feed.clean, outcome'.feed.sent = 0 .. outcome'.feed.size - 1
               PROVE  /\ outcome'.app = outcome'.feed.app
                      /\ outcome'.received = outcome'.total
                      /\ Units(outcome'.buffer) = {outcome'.app}
    BY DEF CleanTransferIsWhole
  <2>1. feed[src].clean /\ outcome'.feed = feed[src]
    BY <1>3 DEF NoFeed
  <2>2. Mirrors(m, feed[src])
    BY <1>2, <2>1 DEF CleanInv, FeedInv, FollowedBy
  <2>3. outcome'.app = feed[src].app /\ outcome'.total = feed[src].size
        /\ outcome'.received = Cardinality(feed[src].sent) /\ outcome'.buffer = downloads[m].buffer
    BY <1>3, <2>2 DEF Mirrors
  <2>4. feed[src].size \in Nat \ {0} /\ feed[src].sent = 0 .. feed[src].size - 1
    BY <2>1, <2>2 DEF Mirrors
  <2>5. Cardinality(feed[src].sent) = feed[src].size
    BY <2>4, FS_Interval
  <2>6. downloads[m].state = "RECEIVING" /\ downloads[m].active /\ downloads[m].total = feed[src].size
    BY <1>2, <2>2 DEF Mirrors, Active
  <2>7. DOMAIN downloads[m].buffer = 0 .. feed[src].size - 1
    BY <1>2, <2>6 DEF CleanInv, DownloadsInv, SlotOK
  <2>8. \A p \in DOMAIN downloads[m].buffer : downloads[m].buffer[p] = feed[src].app
    BY <2>2, <2>4, <2>7 DEF Mirrors
  <2>9. 0 \in DOMAIN downloads[m].buffer
    BY <2>4, <2>7
  <2>10. Units(downloads[m].buffer) = {feed[src].app}
    BY <2>8, <2>9 DEF Units
  <2> QED
    BY <2>1, <2>3, <2>5, <2>10
<1>5. feed' = [t \in Sources |-> feed'[t]]
  BY <1>3 DEF Disturbed
<1>6. \A t \in Sources :
           \/ feed'[t] = feed[t] /\ \A s \in {m} : downloads[s].app # feed[t].app
           \/ ~feed'[t].clean
  <2>1. ~feed'[src].clean
    BY <1>3 DEF Disturbed, NoFeed
  <2>2. \A t \in Sources \ {src} : feed'[t] = Disturbed({downloads[m].app})[t]
    BY <1>3 DEF Disturbed
  <2> QED
    BY <2>1, <2>2, DisturbedFacts
<1>7. {m} \in SUBSET Active
  BY <1>2
<1>8. FeedInv'
  BY <1>3, <1>5, <1>6, <1>7, DroppedFeeds DEF CleanInv, NamesOK
<1> QED
  BY <1>4, <1>8

\* No transfer yet.
LEMMA InitClean == NamesOK /\ Init => CleanInv
<1> SUFFICES ASSUME NamesOK, Init PROVE CleanInv
  OBVIOUS
<1>1. DownloadsInv
  BY InitDownloads DEF NamesOK
<1>2. CleanTransferIsWhole
  BY DEF Init, NoOutcome, NoFeed, CleanTransferIsWhole
<1>3. FeedInv
  <2>1. 1 \in Slots
    BY DEF NamesOK, ConstantsOK, Slots
  <2>2. feed = [src \in Sources |-> NoFeed] /\ NoFeed.clean = FALSE
    BY DEF Init, NoFeed
  <2> QED
    BY <2>1, <2>2 DEF FeedInv, FollowedBy
<1> QED
  BY <1>1, <1>2, <1>3 DEF CleanInv

\* Every step keeps the invariant.
LEMMA NextClean == NamesOK /\ CleanInv /\ [Next]_vars => CleanInv'
<1> SUFFICES ASSUME NamesOK, CleanInv, [Next]_vars PROVE FeedInv' /\ CleanTransferIsWhole'
  BY NextDownloads DEF CleanInv, NamesOK
<1>1. ASSUME NEW a \in Apps, NEW auto \in BOOLEAN, Request(a, auto)
      PROVE FeedInv' /\ CleanTransferIsWhole'
  BY <1>1, RequestClean
<1>2. ASSUME NEW A, Cancel(A) PROVE FeedInv' /\ CleanTransferIsWhole'
  BY <1>2, CancelClean
<1>3. ASSUME NEW src \in Sources, Message(src) PROVE FeedInv' /\ CleanTransferIsWhole'
  BY <1>3, AcceptedClean, RefusedClean, MetadataDroppedClean, ChunkStoredClean, ChunkDroppedClean,
     AppCompleteClean DEF Message
<1>4. CASE LateDeactivate
  BY <1>4, LateClean
<1>5. CASE UNCHANGED vars
  BY <1>5 DEF vars, CleanInv, FeedInv, FollowedBy, Mirrors, CompleteSlot, Active, CleanTransferIsWhole
<1> QED
  BY <1>1, <1>2, <1>3, <1>4, <1>5 DEF Next

\* A transfer that is carried out by the book is handed over complete, under its own
\* name and with its own data (cloud_app_handler.c), for any number of slots, apps
\* and sources, and whatever is requested, cancelled, sent and refused meanwhile.
THEOREM CleanTransfersAreWhole == Spec => []CleanTransferIsWhole
<1>0. NamesOK
  BY SlotsAssumption, SizesAssumption, SourcesAssumption DEF NamesOK, ConstantsOK
<1>1. Init => CleanInv
  BY <1>0, InitClean
<1>2. CleanInv /\ [Next]_vars => CleanInv'
  BY <1>0, NextClean
<1>3. CleanInv => CleanTransferIsWhole
  BY DEF CleanInv
<1> QED
  BY <1>1, <1>2, <1>3, PTL DEF Spec

-----------------------------------------------------------------------------
(* Proofs: answers.                                                        *)

\* Requests are counted.
CountsOK == ConstantsOK /\ MaxRequests \in Nat

\* Every context has the callback of an accepted request, or none; two active
\* ones never the same unless one was pushed; and only a refused allocation
\* has a late write.
AnswerInv ==
  /\ DownloadsInv
  /\ requests \in 0 .. MaxRequests
  /\ answers = [r \in Requests |-> answers[r]] /\ \A r \in Requests : answers[r] \in 0 .. 2
  /\ \A r \in Requests : r > requests => answers[r] = 0
  /\ \A s \in Slots : downloads[s].callback \in 0 .. requests
  /\ pushed \in BOOLEAN
  /\ ~pushed => \A s, t \in Active : downloads[s].callback = downloads[t].callback => s = t
  /\ refusals \in Nat /\ (late # NoSlot => refusals > 0)
  /\ RequestsAnswered

\* The contexts of a set go, and their requests are answered.
LEMMA DroppedAnswers ==
  ASSUME CountsOK, AnswerInv, NEW S \in SUBSET Active, CompleteDownload(S),
         DownloadsInv', UNCHANGED <<late, requests, pushed, refusals>>
  PROVE  AnswerInv'
<1>1. /\ S \subseteq Slots
      /\ \A t \in Slots \ S : downloads'[t] = downloads[t]
      /\ \A t \in S : downloads'[t].active = FALSE /\ downloads'[t].callback = downloads[t].callback
  BY DEF CompleteDownload, Cleared, Active
<1>2. Active' = Active \ S /\ \A t \in Slots : downloads'[t].callback = downloads[t].callback
  BY <1>1 DEF Active
<1>3. /\ answers' = [r \in Requests |-> answers'[r]]
      /\ \A r \in Requests :
           answers'[r] = IF \E s \in S : downloads[s].callback = r
                           THEN IF answers[r] = 0 THEN 1 ELSE 2 ELSE answers[r]
  BY DEF CompleteDownload, Called
<1>4. \A r \in Requests : answers'[r] \in 0 .. 2
  BY <1>3 DEF AnswerInv
<1>5. 1 .. requests \subseteq Requests
  BY DEF AnswerInv, CountsOK, Requests
<1>6. \A r \in Requests : r > requests => answers'[r] = 0
  BY <1>1, <1>3 DEF AnswerInv, Requests, CountsOK
<1>7. RequestsAnswered'
  <2> SUFFICES ASSUME NEW r \in 1 .. requests
               PROVE  /\ answers'[r] = 0 /\ ~Pending(r)' => refusals > 0
                      /\ answers'[r] > 1 \/ (answers'[r] = 1 /\ Pending(r)') => pushed
    BY DEF RequestsAnswered
  <2>1. Pending(r)' <=> \E s \in Active \ S : downloads[s].callback = r
    BY <1>2 DEF Pending, Active
  <2>2. /\ answers[r] = 0 /\ ~Pending(r) => refusals > 0
        /\ answers[r] > 1 \/ (answers[r] = 1 /\ Pending(r)) => pushed
    BY DEF AnswerInv, RequestsAnswered
  <2>3. r \in Requests /\ answers[r] \in 0 .. 2
    BY <1>5 DEF AnswerInv
  <2>4. CASE \E s \in S : downloads[s].callback = r
    <3>1. Pending(r) /\ answers'[r] = (IF answers[r] = 0 THEN 1 ELSE 2)
      BY <1>3, <2>3, <2>4 DEF Pending
    <3>2. Pending(r)' => pushed
      BY <2>1, <2>4 DEF AnswerInv
    <3> QED
      BY <2>2, <2>3, <3>1, <3>2
  <2>5. CASE ~\E s \in S : downloads[s].callback = r
    <3>1. answers'[r] = answers[r]
      BY <1>3, <2>3, <2>5
    <3>2. Pending(r)' <=> Pending(r)
      BY <2>1, <2>5 DEF Pending
    <3> QED
      BY <2>2, <3>1, <3>2
  <2> QED
    BY <2>4, <2>5
<1>8. ~pushed' => \A s, t \in Active' : downloads'[s].callback = downloads'[t].callback => s = t
  BY <1>2 DEF AnswerInv, Active
<1> QED
  BY <1>2, <1>3, <1>4, <1>6, <1>7, <1>8 DEF AnswerInv

\* One context becomes active, or stays so, for a metadata message.
LEMMA DescribedAnswers ==
  ASSUME CountsOK, AnswerInv, DownloadsInv', NEW m \in Slots, NEW ctx,
         downloads' = [downloads EXCEPT ![m] = ctx],
         ctx.active = TRUE, ctx.callback = downloads[m].callback,
         UNCHANGED <<requests, answers>>,
         pushed' = (pushed \/ downloads[m].active = FALSE),
         refusals' \in Nat, refusals' >= refusals, late' # NoSlot => refusals' > 0
  PROVE  AnswerInv'
<1>1. /\ downloads'[m] = ctx
      /\ \A t \in Slots \ {m} : downloads'[t] = downloads[t]
      /\ Active' = Active \cup {m}
  BY DEF AnswerInv, DownloadsInv, Active
<1>2. \A t \in Slots : downloads'[t].callback = downloads[t].callback
  BY <1>1
<1>3. RequestsAnswered'
  <2> SUFFICES ASSUME NEW r \in 1 .. requests
               PROVE  /\ answers[r] = 0 /\ ~Pending(r)' => refusals' > 0
                      /\ answers[r] > 1 \/ (answers[r] = 1 /\ Pending(r)') => pushed'
    BY DEF RequestsAnswered
  <2>1. /\ answers[r] = 0 /\ ~Pending(r) => refusals > 0
        /\ answers[r] > 1 \/ (answers[r] = 1 /\ Pending(r)) => pushed
    BY DEF AnswerInv, RequestsAnswered
  <2>2. Pending(r) => Pending(r)'
    BY <1>1, <1>2 DEF Pending, Active
  <2>3. ~pushed' => m \in Active
    BY DEF AnswerInv, Active, DownloadsInv, SlotOK
  <2>4. ~pushed' /\ Pending(r)' => Pending(r)
    BY <1>1, <1>2, <2>3 DEF Pending, Active
  <2> QED
    BY <2>1, <2>2, <2>4 DEF AnswerInv
<1>4. ~pushed' => \A s, t \in Active' : downloads'[s].callback = downloads'[t].callback => s = t
  <2>1. ~pushed' => m \in Active /\ ~pushed
    BY DEF AnswerInv, Active, DownloadsInv, SlotOK
  <2> QED
    BY <1>1, <1>2, <2>1 DEF AnswerInv, Active
<1>5. pushed' \in BOOLEAN
  BY DEF AnswerInv
<1> QED
  BY <1>2, <1>3, <1>4, <1>5 DEF AnswerInv

\* No context becomes active or changes its callback, and none stops being
\* active unless an allocation was refused.
LEMMA KeptAnswers ==
  ASSUME CountsOK, AnswerInv, DownloadsInv',
         UNCHANGED <<requests, answers, pushed, refusals>>,
         \A s \in Slots : downloads'[s].callback = downloads[s].callback,
         Active' \subseteq Active, refusals = 0 => Active' = Active,
         late' # NoSlot => refusals > 0
  PROVE  AnswerInv'
<1>1. RequestsAnswered'
  BY DEF AnswerInv, RequestsAnswered, Pending, Active
<1> QED
  BY <1>1 DEF AnswerInv, Active

\* A new request takes a number that no context and no answer has.
LEMMA RequestAnswers ==
  ASSUME CountsOK, AnswerInv, DownloadsInv', NEW a \in Apps, NEW auto \in BOOLEAN, Request(a, auto)
  PROVE  AnswerInv'
<1>1. PICK m \in Slots : m = First(FreeSlots) /\ ~downloads[m].active
  BY FirstIn DEF Request, FreeSlots, Active
<1>2. PICK c : c = Requested(a, auto)
  OBVIOUS
<1>3. c.active = TRUE /\ c.callback = requests + 1
  BY <1>2 DEF Requested, Cleared
<1>4. /\ downloads'[m] = c
      /\ \A t \in Slots \ {m} : downloads'[t] = downloads[t]
      /\ Active' = Active \cup {m}
  BY <1>1, <1>2, <1>3 DEF Request, AnswerInv, DownloadsInv, Active
<1>5. requests' = requests + 1 /\ requests' \in 0 .. MaxRequests
      /\ UNCHANGED <<late, answers, pushed, refusals>> /\ requests \in Nat
  BY DEF Request, AnswerInv, CountsOK
<1>6. \A t \in Slots : downloads'[t].callback \in 0 .. requests'
  BY <1>3, <1>4, <1>5 DEF AnswerInv
<1>7. \A t \in Active : t # m /\ t \in Slots /\ downloads[t].callback # requests + 1
                        /\ downloads'[t].callback = downloads[t].callback
  BY <1>1, <1>4, <1>5 DEF AnswerInv, Active
<1>8. RequestsAnswered'
  <2> SUFFICES ASSUME NEW r \in 1 .. requests'
               PROVE  /\ answers[r] = 0 /\ ~Pending(r)' => refusals > 0
                      /\ answers[r] > 1 \/ (answers[r] = 1 /\ Pending(r)') => pushed
    BY <1>5 DEF RequestsAnswered
  <2>1. CASE r = requests + 1
    <3>1. Pending(r)'
      BY <1>3, <1>4, <2>1 DEF Pending
    <3>2. r \in Requests /\ answers[r] = 0
      BY <1>5, <2>1 DEF AnswerInv, Requests
    <3> QED
      BY <3>1, <3>2
  <2>2. CASE r # requests + 1
    <3>1. r \in 1 .. requests
      BY <1>5, <2>2
    <3>2. Pending(r)' <=> Pending(r)
      BY <1>3, <1>4, <1>7, <2>2 DEF Pending
    <3> QED
      BY <3>1, <3>2 DEF AnswerInv, RequestsAnswered
  <2> QED
    BY <2>1, <2>2
<1>9. ~pushed' => \A s, t \in Active' : downloads'[s].callback = downloads'[t].callback => s = t
  BY <1>3, <1>4, <1>5, <1>7 DEF AnswerInv
<1>10. \A r \in Requests : r > requests' => answers'[r] = 0
  BY <1>5 DEF AnswerInv, Requests
<1> QED
  BY <1>5, <1>6, <1>8, <1>9, <1>10 DEF AnswerInv

\* A metadata message keeps the callback of its slot.
LEMMA AcceptedAnswers ==
  ASSUME CountsOK, AnswerInv, DownloadsInv', NEW src \in Sources, NEW a \in Apps, NEW size \in Sizes,
         MetadataAccepted(src, a, size)
  PROVE  AnswerInv'
<1>1. PICK m \in Slots : m = MetadataSlot(a)
  BY MetadataSlotFacts DEF MetadataAccepted, AnswerInv
<1>2. DOMAIN downloads[m] = Fields
  BY DEF AnswerInv, DownloadsInv
<1>3. PICK c : /\ downloads' = [downloads EXCEPT ![m] = c]
               /\ c.active = TRUE /\ c.callback = downloads[m].callback
  <2> DEFINE d == Described(downloads[m], src, a, size)
             e == [d EXCEPT !.state = "RECEIVING", !.buffer = Fresh(size)]
  <2>1. downloads' = [downloads EXCEPT ![m] = e]
    BY <1>1 DEF MetadataAccepted, AnswerInv, DownloadsInv
  <2>2. DOMAIN d = Fields /\ d.active = TRUE /\ d.callback = downloads[m].callback
    BY <1>2 DEF Described, Fields
  <2> HIDE DEF d
  <2>3. e.active = TRUE /\ e.callback = downloads[m].callback
    BY <2>2 DEF Fields
  <2> QED
    BY <2>1, <2>3
<1>4. /\ UNCHANGED <<late, requests, answers, refusals>> /\ late = NoSlot
      /\ pushed' = (pushed \/ downloads[m].active = FALSE)
  BY <1>1 DEF MetadataAccepted
<1>5. refusals' \in Nat /\ refusals' >= refusals /\ (late' # NoSlot => refusals' > 0)
  BY <1>4 DEF AnswerInv
<1> QED
  BY <1>3, <1>4, <1>5, DescribedAnswers

\* So does a refused one, whose context goes without a word later.
LEMMA RefusedAnswers ==
  ASSUME CountsOK, AnswerInv, DownloadsInv', NEW src \in Sources, NEW a \in Apps, NEW size \in Sizes,
         MetadataRefused(src, a, size)
  PROVE  AnswerInv'
<1>1. PICK m \in Slots : m = MetadataSlot(a)
  BY MetadataSlotFacts DEF MetadataRefused, AnswerInv
<1>2. DOMAIN downloads[m] = Fields
  BY DEF AnswerInv, DownloadsInv
<1>3. PICK c : /\ downloads' = [downloads EXCEPT ![m] = c]
               /\ c.active = TRUE /\ c.callback = downloads[m].callback
  <2> DEFINE d == Described(downloads[m], src, a, size)
  <2>1. downloads' = [downloads EXCEPT ![m] = d]
    BY <1>1 DEF MetadataRefused, AnswerInv, DownloadsInv
  <2>2. d.active = TRUE /\ d.callback = downloads[m].callback
    BY <1>2 DEF Described, Fields
  <2> QED
    BY <2>1, <2>2
<1>4. /\ UNCHANGED <<requests, answers>> /\ refusals' = refusals + 1
      /\ pushed' = (pushed \/ downloads[m].active = FALSE)
  BY <1>1 DEF MetadataRefused
<1>5. refusals' \in Nat /\ refusals' >= refusals /\ (late' # NoSlot => refusals' > 0)
  BY <1>4 DEF AnswerInv
<1> QED
  BY <1>3, <1>4, <1>5, DescribedAnswers

\* The late write answers nobody, and is due to a refused allocation.
LEMMA LateAnswers ==
  ASSUME CountsOK, AnswerInv, DownloadsInv', LateDeactivate
  PROVE  AnswerInv'
<1> DEFINE c == IF downloads[late].active
                  THEN [Cleared(downloads[late].callback) EXCEPT !.buffer = downloads[late].buffer]
                  ELSE downloads[late]
<1>1. /\ late \in Slots /\ downloads' = [downloads EXCEPT ![late] = c] /\ late' = NoSlot
      /\ UNCHANGED <<requests, answers, pushed, refusals>>
  BY DEF LateDeactivate, AnswerInv, DownloadsInv
<1>2. c.callback = downloads[late].callback /\ ~c.active
  BY DEF Cleared
<1> HIDE DEF c
<1>3. /\ \A s \in Slots : downloads'[s].callback = downloads[s].callback
      /\ Active' \subseteq Active
  BY <1>1, <1>2 DEF Active, AnswerInv, DownloadsInv
<1>4. refusals > 0 /\ refusals # 0
  BY <1>1 DEF LateDeactivate, AnswerInv
<1> QED
  BY <1>1, <1>3, <1>4, KeptAnswers

\* A chunk answers nobody.
LEMMA ChunkAnswers ==
  ASSUME CountsOK, AnswerInv, DownloadsInv', NEW src \in Sources, NEW o \in Offsets, ChunkStored(src, o)
  PROVE  AnswerInv'
<1>1. PICK m \in Slots : m = First(ChunkSlot(src))
  BY FirstIn DEF ChunkStored, ChunkSlot, Active
<1>2. DOMAIN downloads[m] = Fields
  BY DEF AnswerInv, DownloadsInv
<1>3. PICK b, n : downloads' = [downloads EXCEPT ![m] = [downloads[m] EXCEPT !.buffer = b, !.received = n]]
  <2> DEFINE buf == [p \in DOMAIN downloads[m].buffer \cup {o} |->
                       IF p = o THEN feed[src].app ELSE downloads[m].buffer[p]]
  <2>1. downloads' = [downloads EXCEPT ![m] =
                        [downloads[m] EXCEPT !.buffer = buf, !.received = downloads[m].received + 1]]
    BY <1>1, <1>2 DEF ChunkStored, AnswerInv, DownloadsInv, Fields
  <2> HIDE DEF buf
  <2> QED
    BY <2>1
<1>4. /\ \A t \in Slots \ {m} : downloads'[t] = downloads[t]
      /\ downloads'[m].active = downloads[m].active /\ downloads'[m].callback = downloads[m].callback
  BY <1>2, <1>3 DEF AnswerInv, DownloadsInv, Fields
<1>5. /\ \A s \in Slots : downloads'[s].callback = downloads[s].callback
                       /\ downloads'[s].active = downloads[s].active
  BY <1>4
<1>6. Active' = Active
  BY <1>5 DEF Active
<1>7. UNCHANGED <<late, requests, answers, pushed, refusals>>
  BY DEF ChunkStored
<1> QED
  BY <1>5, <1>6, <1>7, KeptAnswers DEF AnswerInv

\* Neither does a dropped message.
LEMMA IdleAnswers ==
  ASSUME CountsOK, AnswerInv, UNCHANGED <<downloads, late, allocated, requests, answers, pushed, refusals>>
  PROVE  AnswerInv'
<1>1. DownloadsInv'
  BY UnchangedInv DEF AnswerInv
<1>2. Active' = Active
  BY DEF Active
<1> QED
  BY <1>1, <1>2, KeptAnswers DEF AnswerInv

\* Nobody has asked.
LEMMA InitAnswers == CountsOK /\ Init => AnswerInv
<1> SUFFICES ASSUME CountsOK, Init PROVE AnswerInv
  OBVIOUS
<1>1. DownloadsInv
  BY InitDownloads DEF CountsOK
<1>2. /\ requests = 0 /\ late = NoSlot /\ refusals = 0 /\ pushed = FALSE
      /\ answers = [r \in Requests |-> 0] /\ requests \in 0 .. MaxRequests
  BY DEF Init, CountsOK
<1>3. Active = {}
  BY DEF Init, Active, Cleared
<1>4. \A s \in Slots : downloads[s].callback = 0
  BY DEF Init, Cleared, NoRequest
<1>5. RequestsAnswered
  BY <1>2 DEF RequestsAnswered
<1>6. answers = [r \in Requests |-> answers[r]] /\ \A r \in Requests : answers[r] = 0
  BY <1>2
<1>7. ~pushed => \A s, t \in Active : downloads[s].callback = downloads[t].callback => s = t
  BY <1>3
<1>8. /\ \A r \in Requests : answers[r] \in 0 .. 2
      /\ \A s \in Slots : downloads[s].callback \in 0 .. requests
      /\ refusals \in Nat /\ (late # NoSlot => refusals > 0)
  BY <1>2, <1>4, <1>6
<1> QED
  BY <1>1, <1>2, <1>5, <1>6, <1>7, <1>8 DEF AnswerInv

\* Every step keeps the invariant.
LEMMA NextAnswers == CountsOK /\ AnswerInv /\ [Next]_vars => AnswerInv'
<1> SUFFICES ASSUME CountsOK, AnswerInv, [Next]_vars PROVE AnswerInv'
  OBVIOUS
<1>0. DownloadsInv'
  BY NextDownloads DEF CountsOK, AnswerInv
<1>1. ASSUME NEW a \in Apps, NEW auto \in BOOLEAN, Request(a, auto) PROVE AnswerInv'
  BY <1>0, <1>1, RequestAnswers
<1>2. ASSUME NEW A, Cancel(A) PROVE AnswerInv'
  <2> DEFINE S == {s \in Active : downloads[s].app \in A}
  <2>1. S \in SUBSET Active /\ CompleteDownload(S) /\ UNCHANGED <<late, requests, pushed, refusals>>
    BY <1>2 DEF Cancel
  <2> HIDE DEF S
  <2> QED
    BY <1>0, <2>1, DroppedAnswers
<1>3. ASSUME NEW src \in Sources, Message(src) PROVE AnswerInv'
  <2>1. ASSUME NEW a \in Apps, NEW size \in Sizes, MetadataAccepted(src, a, size)
        PROVE  AnswerInv'
    BY <1>0, <2>1, AcceptedAnswers
  <2>2. ASSUME NEW a \in Apps, NEW size \in Sizes, MetadataRefused(src, a, size)
        PROVE  AnswerInv'
    BY <1>0, <2>2, RefusedAnswers
  <2>3. ASSUME NEW a \in Apps, MetadataDropped(src, a) PROVE AnswerInv'
    BY <2>3, IdleAnswers DEF MetadataDropped
  <2>4. ASSUME NEW o \in Offsets, ChunkStored(src, o) PROVE AnswerInv'
    BY <1>0, <2>4, ChunkAnswers
  <2>5. ASSUME NEW o \in Offsets, ChunkDropped(src, o) PROVE AnswerInv'
    BY <2>5, IdleAnswers DEF ChunkDropped
  <2>6. CASE AppComplete(src)
    <3>1. PICK m \in Active : m = First(CompleteSlot(src))
      BY <2>6, FirstIn DEF AppComplete, CompleteSlot, Active
    <3>2. CompleteDownload({m}) /\ UNCHANGED <<late, requests, pushed, refusals>>
      BY <2>6, <3>1 DEF AppComplete
    <3> QED
      BY <1>0, <3>2, DroppedAnswers
  <2> QED
    BY <1>3, <2>1, <2>2, <2>3, <2>4, <2>5, <2>6 DEF Message
<1>4. CASE LateDeactivate
  BY <1>0, <1>4, LateAnswers
<1>5. CASE UNCHANGED vars
  BY <1>5, IdleAnswers DEF vars
<1> QED
  BY <1>1, <1>2, <1>3, <1>4, <1>5 DEF Next

\* A request whose context is gone has been answered, once, unless an allocation was
\* refused or a slot was reused for an unrequested transfer (cloud_app_handler.c),
\* for any number of slots, apps, sources, requests and refusals.
THEOREM RequestsAreAnswered == Spec => []RequestsAnswered
<1>0. CountsOK
  BY SlotsAssumption, SizesAssumption, BoundsAssumption DEF CountsOK, ConstantsOK
<1>1. Init => AnswerInv
  BY <1>0, InitAnswers
<1>2. AnswerInv /\ [Next]_vars => AnswerInv'
  BY <1>0, NextAnswers
<1>3. AnswerInv => RequestsAnswered
  BY DEF AnswerInv
<1> QED
  BY <1>1, <1>2, <1>3, PTL DEF Spec
=============================================================================
