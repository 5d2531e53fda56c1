SPECIFICATION ConfigSpec
CONSTANTS
  Apps = {a1}
  Versions = {v1}
  NoVersion = nothing
  Placed <- InManifestRepo
  MaxEdits = 1
PROPERTY
  OnlyRemovedIsTornDown
