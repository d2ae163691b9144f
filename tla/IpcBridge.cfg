SPECIFICATION Spec
CONSTANTS
    MaxCalls = 2
    Commands = {"login", "logout", "pause_or_resume", "trigger_sync", "change_files",
        "user_info", "list_files", "system_and_raid", "update_settings", "start_server", "read_vpn",
        "set_dev_mode", "unknown"}
    None = None
INVARIANTS
    OwnAnswer
    AnswersArrive
    SignedOutIsRefused
PROPERTIES
    
    EveryPromiseSettles
CHECK_DEADLOCK FALSE
