\* Two sessions, with re-notification as if something scheduled it.
CONSTANTS
    AlertId = {a1}
    MaxRenotifications = 3
    Worker = {w1, w2}
    Scheduled = TRUE
    NoRow = NoRow
SPECIFICATION Spec
INVARIANTS TypeOK AcknowledgedIsQuiet AcknowledgementStands
