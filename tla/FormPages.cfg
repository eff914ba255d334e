SPECIFICATION FormSpec
CONSTANTS
    Submissions = {r1}
    Names = {ann}
    Passwords = {p, q}
    Nil = Nil
INVARIANTS
    FormTypeOK
    RegisteredAsConfirmed
    AcknowledgedKeepsPassword
PROPERTY NoSilentFailure
