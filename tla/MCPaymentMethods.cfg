\* Two enrollments, two requests and a lost answer.
SPECIFICATION FairSpec
CONSTANTS
    visa = visa
    master = master
    None = None
    Principal = {p1}
    Enrollment = {e1, e2}
    Card = {visa, master}
    lfd <- OwnDigits
    Call = {c1, c2}
    MaxFailures = 2
INVARIANTS
    OneMethodPerEnrollment
    OneDefault

    
CHECK_DEADLOCK FALSE
