----------------------------- MODULE MCDownloads -----------------------------
(* What brings apps and firmware to the device for TLC, side by side: the     *)
(* downloads of apps, the clients of the OTA manager, and the OTA transports  *)
(* with their registry.  The one in focus runs while the others rest.         *)
EXTENDS CloudAppHandler, TLC

CONSTANT Third \* an app more than there are contexts, which is only announced

VARIABLES
  focus, \* the component that runs
  state, expected, open, image, pending, web, ble, dl,     \* OtaClients
  apply, reboot, owner, orderly, told, starts,
  clientsFaults,
  initialized, transports, count, holder, call,            \* OtaRegistry
  registered, total,
  tr, update, handler, upload, aborting, crossed,          \* OtaTransports
  usbFaults

clientsVars == <<state, expected, open, image, pending, web, ble, dl, apply, reboot,
        owner, orderly, told, starts, clientsFaults>>
registryVars == <<initialized, transports, count, holder, call, registered, total>>
usbVars == <<tr, update, handler, upload, aborting, crossed, usbFaults>>

Clients == INSTANCE OtaClients WITH
  Size <- 2, Capacity <- 4, NoClient <- "nobody", MaxStarts <- 1,
  MaxFaults <- 1, faults <- clientsFaults

Restarts == INSTANCE OtaClients WITH
  Size <- 1, Capacity <- 2, NoClient <- "nobody", MaxStarts <- 2,
  MaxFaults <- 0, faults <- clientsFaults

Registry == INSTANCE OtaRegistry WITH
  Threads <- {"main", "b"}, Main <- "main",
  Sources <- {"ble", "http", "usb"}, Nothing <- "none", MaxTransports <- 2,
  MaxRegistered <- 2

Usb == INSTANCE OtaTransports WITH
  Sources <- {"http", "ble", "usb"}, NoSource <- "none", MaxFaults <- 1,
  faults <- usbFaults

Cloud == INSTANCE OtaTransports WITH
  Sources <- {"http", "ble", "cloud"}, NoSource <- "none", MaxFaults <- 1,
  faults <- usbFaults

Symmetry == Permutations(Apps \ {Third}) \cup Permutations(Sources)

\* Two apps, whatever happens to them, or more apps than there are contexts,
\* of which only the announcements arrive.
TwoApps ==
  Third \notin {downloads[s].app : s \in Slots} \cup {feed[src].app : src \in Sources}
                 \cup {outcome.app}
OnlyAnnounced ==
  requests = 0 /\ refusals = 0 /\ \A s \in Slots : downloads[s].received = 0

\* The clients of the OTA manager run with one start and a fault and with two
\* starts, the transports in a build with USB and in one with the cloud.
DownloadsInit ==
  /\ focus \in {"apps", "full", "clients", "registry", "usb", "restarts", "cloud"}
  /\ Init
  /\ IF focus = "restarts" THEN Restarts!Init ELSE Clients!Init
  /\ IF focus = "cloud" THEN Cloud!Init ELSE Usb!Init
  /\ Registry!Init

DownloadsNext ==
  /\ UNCHANGED focus
  /\ \/ /\ focus \in {"apps", "full"} /\ Next
        /\ IF focus = "full" THEN OnlyAnnounced' ELSE TwoApps'
        /\ UNCHANGED <<clientsVars, registryVars, usbVars>>
     \/ /\ focus = "clients" /\ Clients!Next
        /\ UNCHANGED <<vars, registryVars, usbVars>>
     \/ /\ focus = "registry" /\ Registry!Next
        /\ UNCHANGED <<vars, clientsVars, usbVars>>
     \/ /\ focus = "usb" /\ Usb!Next
        /\ UNCHANGED <<vars, clientsVars, registryVars>>
     \/ /\ focus = "restarts" /\ Restarts!Next
        /\ UNCHANGED <<vars, registryVars, usbVars>>
     \/ /\ focus = "cloud" /\ Cloud!Next
        /\ UNCHANGED <<vars, clientsVars, registryVars>>
DownloadsSpec ==
  DownloadsInit
    /\ [][DownloadsNext]_<<focus, vars, clientsVars, registryVars, usbVars>>

-----------------------------------------------------------------------------
(* Properties.                                                             *)

\* Every component's variables keep their types.
DownloadsTyped ==
  /\ TypeOK
  /\ focus = "clients" => Clients!TypeOK
  /\ focus = "registry" => Registry!TypeOK
  /\ focus = "usb" => Usb!TypeOK
  /\ focus = "restarts" => Restarts!TypeOK
  /\ focus = "cloud" => Cloud!TypeOK

\* A client of the OTA manager that told success has the whole image in the
\* slot, and counts what was written (web_server.c, bt_ota.c,
\* cloud_ota_handler.c).
UploadsSound ==
  /\ focus = "clients" => Clients!SuccessIsWhole /\ Clients!CountIsImage
  /\ focus = "restarts" => Restarts!SuccessIsWhole /\ Restarts!CountIsImage

\* The table of transports holds what was registered, and a transport that is
\* receiving has the update of the OTA manager (ota_transport.c, ota_http.c,
\* ota_ble.c, ota_usb.c, ota_cloud.c).
TransportsSound ==
  /\ focus = "registry" => Registry!RegistrySound
  /\ focus = "usb" => Usb!TransportsSound
  /\ focus = "cloud" => Cloud!TransportsSound
=============================================================================
