CONSTANTS
    UBOOT_CMD_RETRIES <- MC_UBOOT_CMD_RETRIES
    UBOOT_CMD_RESPONSE_RETRIES <- MC_UBOOT_CMD_RESPONSE_RETRIES
    TFTP_DONE_RETRIES <- MC_TFTP_DONE_RETRIES
    WAIT_FOR_IP_RETRIES <- MC_WAIT_FOR_IP_RETRIES
    MaxNoise = 3
    MaxIntr = 2
    AppOutputBounded = FALSE
    CtrlCAtDialog = FALSE
SPECIFICATION Spec
PROPERTY
    BoundedWaits
