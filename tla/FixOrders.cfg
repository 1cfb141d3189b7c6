SPECIFICATION Spec
CONSTANTS
    MaxSeq = 3
    MaxTime = 3
    Heartbeat = 1
    Grace = 1
    Disconnect = 2
    Slip = 0
    MakerBps = 0
    TakerBps = 0
    Ids = {1, 2, 3}
    Unknown = 9
    Templates <- MCTemplates
    Bars <- MCBars
    Spot = TRUE
    Held = 1
    FaultTypes = {"drop_before_logon", "drop_after_ack", "drop_active_order", "heartbeat_loss", "duplicate_inbound", "sequence_gap", "delayed_report", "reconnect_delay"}
    MaxFaults = 1
    ReconnectDelay = 1
    ReportDelay = 1
    MaxOut = 2
    AccountingFails = TRUE
CHECK_DEADLOCK FALSE
INVARIANTS
    OrdersSound
    ViewFollowsBroker
PROPERTIES
    AcceptedKept
    NoLateRestore
