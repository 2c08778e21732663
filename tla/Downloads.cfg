SPECIFICATION DownloadsSpec
CONSTANTS
  Apps = {a, b, c}
  NoApp = NoApp
  Third = c
  Sources = {bt, web}
  NoSource = NoSource
  MaxDownloads = 2
  Sizes = {2}
  MaxRequests = 1
  MaxRefusals = 1
  MaxReceived = 2
SYMMETRY Symmetry
INVARIANTS
  DownloadsTyped
  DownloadsSound
  CleanTransferIsWhole
  RequestsAnswered
  UploadsSound
  TransportsSound
