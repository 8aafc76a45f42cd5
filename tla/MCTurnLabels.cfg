SPECIFICATION Spec
CONSTANTS
    Names = {"a", "b"}
    Spares <- MCSpares
    Granted = {"get_time", "web_fetch", "job_create", "job_reschedule", "job_cancel", "relay", "mail_draft"}
    WebAccess = TRUE
    Denied <- MCDenied
    Asked <- MCReads
    Keep = 3
    MaxRounds = 2
    Breadth = 2
INVARIANTS ExchangesWhole LabelsAgree AnswersLabelled
