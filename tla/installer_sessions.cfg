SPECIFICATION Spec
CONSTANTS
  Release = {1, 2}
  Build = {1, 2}
  None = None
INVARIANTS PluginFits EventTellsTruth
PROPERTIES NoDowngrade
