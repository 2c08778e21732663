SPECIFICATION DownloadsSpec
CONSTANTS
  Apps = {a, b}
  NoApp = NoApp
  Third = c
  Sources = {bt, web}
  NoSource = NoSource
  MaxDownloads = 2
  Sizes = {2}
  MaxRequests = 1
  MaxRefusals = 0
  MaxReceived = 2
INVARIANT InstalledIsWhole
