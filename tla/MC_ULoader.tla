---------------------------- MODULE MC_ULoader ----------------------------
(* Model-checking instance of ULoader: the retry budgets of uloader.py     *)
(* (60, 60, 10, 60) scaled down.  check_for_token only ever tests whether  *)
(* its budget minus one is zero, so any budget of 2 or more behaves as 60. *)
EXTENDS ULoader

MC_UBOOT_CMD_RETRIES == 2
MC_UBOOT_CMD_RESPONSE_RETRIES == 2
MC_TFTP_DONE_RETRIES == 2
MC_WAIT_FOR_IP_RETRIES == 2
=============================================================================
