SPECIFICATION ReviewSpec
CONSTANTS
    Findings = {f1, f2, f3}
    Redacted = {f3}
    Reviewers = {r1, r2}
    Owners = {r2}
    MaxRedactions = 5
PROPERTY ApprovalIsRecorded
CHECK_DEADLOCK FALSE
