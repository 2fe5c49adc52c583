\* The aging thread between search_list and reset_aging_time.
CONSTANTS
    Clients = {c1}
    LongestMsg = 2
    MAX_QUEUE_SIZE = 1
    AGING_TIME = 2
    NULL = NULL
SPECIFICATION Spec
PROPERTY ResponseRemembered
CHECK_DEADLOCK TRUE
