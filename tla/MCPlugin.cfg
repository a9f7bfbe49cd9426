SPECIFICATION PluginSpec
CONSTANTS
  MaxInputs = 4
  MaxFaults = 2
  OfflineLimit = 2
INVARIANT StartedOnRequest PromptedOnce AnnouncedInOrder
PROPERTY LastUploadAnnounced ShownSettles PendingSettles
