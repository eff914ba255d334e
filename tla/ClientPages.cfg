\* Two submissions in flight, of two names.
CONSTANTS
    Submissions = {r1, r2}
    Names = {ann, bob}
    Nil = Nil
SPECIFICATION Spec
INVARIANTS
    LoadingTracksRequest
    PagesShowTheirAnswer
    SentAsShown
PROPERTY FormsAreReleased
