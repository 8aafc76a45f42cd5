SPECIFICATION Spec
CONSTANTS
    Names = {"a"}
    Spares <- MCOne
    Granted = {"get_time", "web_fetch", "job_create", "job_reschedule", "job_cancel", "relay", "mail_draft"}
    WebAccess = TRUE
    Denied <- MCDenied
    Asked <- MCCalls
    Keep = 1
    MaxRounds = 1
    Breadth = 2
INVARIANTS OutsideTextWaits PreviewedRuns
