\* The server update alone.
SPECIFICATION HistorySpec
CONSTANTS
  Jobs <- UpdateJob
  MaxMods = 1
PROPERTY ManagerRestartHeldBack
