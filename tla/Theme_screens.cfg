SPECIFICATION Spec
INVARIANT TypeOK
INVARIANT OnShowInTheme
PROPERTY OnlySwitchChangesTheme
