SPECIFICATION Spec
CONSTANTS
  EMPTY_PASSES = 3
INVARIANTS TypeOK CreationTracked CoversOnlyWhenActive ViewFollowsOverlay
PROPERTIES GameCloseEndsOverlay CloseServed WantedOverlayOpens
