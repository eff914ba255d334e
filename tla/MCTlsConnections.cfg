\* Sixteen TLS stacks, three GREASE values, every order of the extensions.
CONSTANTS
    Stacks <- MCStacks
    DrawnGrease <- MCDrawnGrease
SPECIFICATION Spec
INVARIANTS
    TypeOK
    OneFingerprintPerBrowser
    StacksAreTold
    ResumptionShows
