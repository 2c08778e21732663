---------------------------- MODULE CloudClient ----------------------------
(***************************************************************************)
(* The cloud client (src/connectivity/cloud/cloud_client.c): Bluetooth and *)
(* the web server each bring messages on a thread of their own.  The       *)
(* client follows the firmware and the app transfer in one record each,    *)
(* without a lock and whoever sends, and then gives the message to the     *)
(* registered handlers, which are left out: they are the modules           *)
(* OtaClients and CloudAppHandler.                                         *)
(*                                                                         *)
(* History: of each transfer, opener is who sent its metadata last, handed *)
(* the chunks its handler was given since, and mixed says that somebody    *)
(* else sent a message of the kind while one was open or in the works.     *)
(***************************************************************************)
EXTENDS Integers

CONSTANTS
  Sources,   \* "bt" and "web"; the worker's queue is never filled
  Kinds,     \* "ota" and "app"
  MaxChunks  \* bound: chunks handed to a transfer's handler

VARIABLES
  initialized, \* client.initialized
  link,        \* the sources that are connected
  active,      \* xxx_transfer.active
  owner,       \* xxx_transfer.source
  received,    \* xxx_transfer.received_chunks
  call,        \* the message each source is in the middle of
  acks,        \* chunks acknowledged to each source since the metadata
  opener, handed, mixed \* history

transfers == <<active, owner, received, acks, opener, handed, mixed>>
vars == <<initialized, link, call, transfers>>

Idle == [type |-> "none", kind |-> "none", at |-> "idle"]
Goes(s, to) == call' = [call EXCEPT ![s].at = to]
Handling(s, type) == call[s].at = "transfer" /\ call[s].type = type

-----------------------------------------------------------------------------
(* Initialisation and connections.                                         *)

\* cloud_client_init() wipes the client, whatever a source is doing.
ClientInit ==
  /\ ~initialized /\ initialized' = TRUE /\ link' = {}
  /\ active' = [k \in Kinds |-> FALSE] /\ received' = [k \in Kinds |-> 0]
  /\ owner' = [k \in Kinds |-> "none"] /\ acks' = [k \in Kinds |-> 0]
  /\ handed' = [k \in Kinds |-> 0] /\ opener' = [k \in Kinds |-> "none"]
  /\ mixed' = [k \in Kinds |-> \E s \in Sources : call[s].kind = k]
  /\ UNCHANGED call

\* cloud_client_deinit() aborts the worker and leaves the rest as it is.
ClientDeinit ==
  /\ initialized /\ initialized' = FALSE
  /\ UNCHANGED <<link, call, transfers>>

\* cloud_client_bt_connected(): nothing ever sets web_state.
BtConnected(up) ==
  /\ link' = IF up THEN link \union {"bt"} ELSE link \ {"bt"}
  /\ UNCHANGED <<initialized, call, transfers>>

-----------------------------------------------------------------------------
(* Messages: cloud_client_bt_receive(), cloud_client_ws_receive().         *)

Receive(s, kind, type) ==
  /\ initialized /\ call[s].at = "idle"
  /\ call' = [call EXCEPT ![s] = [type |-> type, kind |-> kind, at |-> "transfer"]]
  /\ mixed' = [mixed EXCEPT ![kind] = @ \/ (\E o \in Sources \ {s} : call[o].kind = kind)
                                        \/ (active[kind] /\ owner[kind] # s)]
  /\ UNCHANGED <<initialized, link, active, owner, received, acks, opener, handed>>

\* MSG_TYPE_FW_METADATA, MSG_TYPE_APP_METADATA: the transfer starts over.
CountedFromBug(k) == received[k]  \* mutation: the count goes on
CountedFrom(k) == 0
Metadata(s) ==
  LET k == call[s].kind
  IN /\ Handling(s, "metadata") /\ Goes(s, "dispatch")
     /\ active' = [active EXCEPT ![k] = TRUE] /\ owner' = [owner EXCEPT ![k] = s]
     /\ received' = [received EXCEPT ![k] = CountedFrom(k)]
     /\ opener' = [opener EXCEPT ![k] = s] /\ handed' = [handed EXCEPT ![k] = 0]
     /\ acks' = [acks EXCEPT ![k] = 0]
     /\ mixed' = [mixed EXCEPT ![k] = \E o \in Sources \ {s} : call[o].kind = k]
     /\ UNCHANGED <<initialized, link>>

\* MSG_TYPE_FW_CHUNK, MSG_TYPE_APP_CHUNK: a transfer that is active has its
\* handler called, whatever the source; one that is not lets the chunk go.
Chunk(s) ==
  LET k == call[s].kind
  IN /\ Handling(s, "chunk")
     /\ IF active[k]
        THEN /\ handed[k] < MaxChunks /\ handed' = [handed EXCEPT ![k] = @ + 1] /\ Goes(s, "count")
        ELSE Goes(s, "dispatch") /\ UNCHANGED handed
     /\ UNCHANGED <<initialized, link, active, owner, received, acks, opener, mixed>>

\* It is counted, and acknowledged to the source if that is connected.
ChunkCounted(s) ==
  LET k == call[s].kind
  IN /\ call[s].at = "count" /\ Goes(s, "dispatch")
     /\ received' = [received EXCEPT ![k] = @ + 1]
     /\ acks' = IF s \in link THEN [acks EXCEPT ![k] = @ + 1] ELSE acks
     /\ UNCHANGED <<initialized, link, active, owner, opener, handed, mixed>>

\* MSG_TYPE_FW_COMPLETE, MSG_TYPE_APP_COMPLETE: active or not, whole or not.
ActiveAfter(k) == FALSE
Complete(s) ==
  LET k == call[s].kind
  IN /\ Handling(s, "complete") /\ Goes(s, "dispatch")
     /\ active' = [active EXCEPT ![k] = ActiveAfter(k)]
     /\ UNCHANGED <<initialized, link, owner, received, acks, opener, handed, mixed>>

\* The handlers are given the message, under the mutex, and it is freed.
Return(s) ==
  /\ call[s].at = "dispatch" /\ call' = [call EXCEPT ![s] = Idle]
  /\ UNCHANGED <<initialized, link, transfers>>

-----------------------------------------------------------------------------
Init ==
  /\ initialized = FALSE /\ link = {}
  /\ active = [k \in Kinds |-> FALSE] /\ owner = [k \in Kinds |-> "none"]
  /\ received = [k \in Kinds |-> 0] /\ acks = [k \in Kinds |-> 0]
  /\ call = [s \in Sources |-> Idle]
  /\ opener = [k \in Kinds |-> "none"] /\ handed = [k \in Kinds |-> 0]
  /\ mixed = [k \in Kinds |-> FALSE]

Next ==
  \/ ClientInit \/ ClientDeinit
  \/ \E up \in BOOLEAN : BtConnected(up)
  \/ \E s \in Sources :
       \/ \E k \in Kinds, t \in {"metadata", "chunk", "complete"} : Receive(s, k, t)
       \/ Metadata(s) \/ Chunk(s) \/ ChunkCounted(s) \/ Complete(s) \/ Return(s)

Spec == Init /\ [][Next]_vars

-----------------------------------------------------------------------------
(* Properties.                                                             *)

\* The variables keep their types.
TypeOK ==
  /\ link \subseteq Sources /\ active \in [Kinds -> BOOLEAN]
  /\ owner \in [Kinds -> Sources \union {"none"}] /\ received \in [Kinds -> 0 .. 2 * MaxChunks]
  /\ \A s \in Sources : call[s].at \in {"idle", "transfer", "count", "dispatch"}

\* While one source at a time sends messages of a kind, the transfer is that
\* of the source that opened it, counts the chunks its handler was given,
\* and acknowledges no chunk that it did not count.
TransferIsOwn ==
  \A k \in Kinds : ~mixed[k] =>
    /\ (active[k] => owner[k] = opener[k])
    /\ ((\A s \in Sources : call[s].kind = k => call[s].at # "count") =>
         received[k] = handed[k] /\ acks[k] <= received[k])
    /\ \A s \in Sources : (call[s].kind = k /\ call[s].at = "count") => s = owner[k]
=============================================================================
