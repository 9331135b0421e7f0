SPECIFICATION Spec
CONSTANTS
    Regs <- TwoAnns
    Report <- Participants
    Worker = {w1, w2}
    MaxRequests = 5
    MaxFaults = 1
SYMMETRY WorkerSymmetry
CHECK_DEADLOCK FALSE
INVARIANTS SummaryIsOfReports FeedbackCertified
PROPERTY CertificateKept
