\* Three clients: one primary, one to fall back to and one to tell them apart.
\* Sessions are destroyed and created again, of the same kind or of the other.
CONSTANTS
  MaxClients = 3
  MayRecreate = TRUE
SPECIFICATION Spec
INVARIANTS TypeOK OnlyPrimaryShown PrimaryDisplayable NoIdleWithApplications
  CompositorAgrees OverlayKnowsMainApp
VIEW View
