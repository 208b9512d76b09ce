------------------------------ MODULE ULoader ------------------------------
(***************************************************************************)
(* The bring-up run of uloader.py: the phase chain that __main__ builds    *)
(* (Connect -> Load -> Start [-> AutoDetectIP]), the U-Boot dialogue of    *)
(* class UBootSerial, the TFTP server thread started by the load phase,    *)
(* the Cancel button of the power-cycle dialog, and the target board as    *)
(* the source of the lines readline() returns.                             *)
(*                                                                         *)
(* A line is abstracted to its kind.  "Empty" is the "" readline() returns *)
(* when the serial read times out; "Prompt" is the partial line "U-Boot> "; *)
(* "TftpT" any line holding a capital T (U-Boot's TFTP retransmit marks);  *)
(* "Other" any other line without a marker.                                *)
(***************************************************************************)
EXTENDS Integers, FiniteSets

CONSTANTS
    UBOOT_CMD_RETRIES,          \* 60 in uloader.py
    UBOOT_CMD_RESPONSE_RETRIES, \* 60
    TFTP_DONE_RETRIES,          \* 10
    WAIT_FOR_IP_RETRIES,        \* 60
    MaxNoise,         \* bound on marker-less lines the target prints
    MaxIntr,          \* Ctrl-C's the target holds unanswered; more are lost
    AppOutputBounded, \* does the started application print finitely many lines?
    CtrlCAtDialog     \* may the operator press Ctrl-C while the dialog is shown?

ASSUME /\ {UBOOT_CMD_RETRIES, UBOOT_CMD_RESPONSE_RETRIES,
           TFTP_DONE_RETRIES, WAIT_FOR_IP_RETRIES, MaxNoise, MaxIntr} \subseteq Nat
       /\ AppOutputBounded \in BOOLEAN /\ CtrlCAtDialog \in BOOLEAN

Lines   == {"Interrupt", "Prompt", "Other", "TftpT", "Empty", "DhcpBound",
            "LoadAddr", "Done", "LinkDown", "AppStart", "IpLine"}
Noise   == {"Prompt", "Other", "TftpT"}
OneShot == {"DhcpBound", "LoadAddr", "Done", "LinkDown", "AppStart", "IpLine"}
\* lines for which line.find(TFTP_TIMEOUT) != -1 ("<INTERRUPT>" holds a T)
TLines  == {"TftpT", "Interrupt"}
NoExit  == -1

VARIABLES
    pc, caller, cftRet, cftPrompt, line, tries, ok, exitCode,
    prompt,            \* global UBOOT_PROMPT, re-learned by check_for_token
    userAbort, dialog, \* global USER_ABORT and the ShowDialog window
    interrupted,       \* a KeyboardInterrupt reached __main__
    srv, served,       \* TFTP server thread; the image has been delivered
    dhcpCmd, serverIp, tftpCmd, goSent, \* commands written to U-Boot
    intr, noise, emitted,               \* the target's output state
    serialSpec, startAddr, proxy, tftpBusy \* command line and host state

mainVars == <<pc, caller, cftRet, cftPrompt, line, tries, ok, exitCode, prompt>>
dlgVars  == <<userAbort, dialog, interrupted>>
srvVars  == <<srv, served>>
cmdVars  == <<dhcpCmd, serverIp, tftpCmd, goSent>>
tgtVars  == <<intr, noise, emitted>>
inputs   == <<serialSpec, startAddr, proxy, tftpBusy>>
vars == <<mainVars, dlgVars, srvVars, cmdVars, tgtVars, inputs>>

-----------------------------------------------------------------------------
(* The target.  Lines it can print next, given i unanswered Ctrl-C's.      *)

Readable(i) ==
    (IF ~goSent
     THEN {"Empty"} \cup {l \in {"Interrupt"} : i > 0}
          \cup {l \in Noise : noise < MaxNoise}
          \cup {l \in {"DhcpBound"} : dhcpCmd}
          \cup {l \in {"LoadAddr"} : tftpCmd}
          \cup {l \in {"LinkDown"} : tftpCmd /\ ~served}
          \cup {l \in {"Done"} : served /\ "LinkDown" \notin emitted}
     ELSE {"Empty", "AppStart"}
          \cup {l \in {"IpLine"} : "AppStart" \in emitted}
          \cup {l \in {"Other"} : ~AppOutputBounded \/ noise < MaxNoise})
    \ emitted

\* readline() returns l; i is the count of unanswered Ctrl-C's at the time
Deliver(l, i) ==
    /\ l \in Readable(i)
    /\ intr' = IF l = "Interrupt" THEN i - 1 ELSE i
    /\ noise' = IF l \in Noise /\ noise < MaxNoise THEN noise + 1 ELSE noise
    /\ emitted' = IF l \in OneShot THEN emitted \cup {l} ELSE emitted

\* self.write(UBOOT_CMD_CTRL_C)
CtrlC == IF intr < MaxIntr THEN intr + 1 ELSE intr

-----------------------------------------------------------------------------
(* Control helpers of the main thread.                                     *)

Exit(code) == pc' = "Exited" /\ exitCode' = code

\* line.find(token) == 0; every string starts with "" (a learned empty prompt)
StartsWith(l, tok) == tok = "Empty" \/ l = tok

\* the tries argument of the check_for_token call sites
CftTries(isPrompt) == IF isPrompt THEN UBOOT_CMD_RETRIES ELSE UBOOT_CMD_RESPONSE_RETRIES
CftToken(isPrompt) == IF isPrompt THEN prompt ELSE "LoadAddr"

\* check_for_token(l0, token, tries) up to its first read: it returns at
\* once when l0 already starts with the token or tries is 0.
CallCft(l0, isPrompt, ret) ==
    LET tok == CftToken(isPrompt)
        T   == CftTries(isPrompt)
    IN  IF StartsWith(l0, tok) \/ T = 0
        THEN /\ pc' = ret
             /\ ok' = (StartsWith(l0, tok) /\ T # 0)
             /\ UNCHANGED <<cftRet, cftPrompt>>
        ELSE /\ pc' = "CftRead"
             /\ cftRet' = ret
             /\ cftPrompt' = isPrompt
             /\ UNCHANGED ok

\* wait_for_prompt() returns res to the phase that called it
PromptReturn(res) ==
    IF res THEN /\ pc' = IF caller = "connect" THEN "EnvRead" ELSE "Start"
                /\ UNCHANGED exitCode
           ELSE Exit(2)

\* a plausible bug: the chain built without UBootAutoDetectIPPhase
AfterStart_NoAutoDetect == Exit(0) /\ UNCHANGED tries

\* the phase after UBootStartApplicationPhase in the chain __main__ builds
AfterStart ==
    IF proxy THEN /\ pc' = "IpOuter"
                  /\ tries' = WAIT_FOR_IP_RETRIES
                  /\ UNCHANGED exitCode
             ELSE /\ Exit(0)
                  /\ UNCHANGED tries

-----------------------------------------------------------------------------
(* UBootConnectPhase.executePhase.  check_serial_connect finds no          *)
(* disconnect service here (the relay processes are not part of this      *)
(* module) and returns True.                                               *)

ConnectPhase ==
    /\ pc = "Connect"
    /\ \/ serialSpec = "fieldCount" /\ Exit(2) /\ UNCHANGED caller
       \* int() and cliToPySerial[] raise outside the SerialException handler
       \/ serialSpec = "badValue" /\ Exit(1) /\ UNCHANGED caller
       \/ /\ serialSpec = "ok"
          /\ \/ Exit(2) /\ UNCHANGED caller            \* SerialException
             \/ pc' = "PromptTry" /\ caller' = "connect" /\ UNCHANGED exitCode
    /\ UNCHANGED <<cftRet, cftPrompt, line, tries, ok, prompt>>
    /\ UNCHANGED <<dlgVars, srvVars, cmdVars, tgtVars, inputs>>

\* a plausible bug: the loop condition without "USER_ABORT == 0"
KeepPolling_IgnoresAbort == TRUE

\* the while-condition of loop_for_prompt (tries is never 0 in the loop)
KeepPolling == ~userAbort

(* wait_for_prompt: loop_for_prompt(1); on failure the dialog and          *)
(* loop_for_prompt(0), which loops until <INTERRUPT> or USER_ABORT.        *)

PromptTry ==
    /\ pc = "PromptTry"
    /\ \/ /\ ~KeepPolling               \* while-condition false at once
          /\ pc' = "PromptIndef" /\ dialog' = TRUE
          /\ UNCHANGED <<line, tgtVars, exitCode>>
       \/ /\ KeepPolling
          /\ \E l \in Lines :
               /\ Deliver(l, CtrlC)
               /\ line' = l
               /\ IF l = "Interrupt"
                  THEN PromptReturn(TRUE) /\ UNCHANGED dialog
                  ELSE pc' = "PromptIndef" /\ dialog' = TRUE /\ UNCHANGED exitCode
    /\ UNCHANGED <<caller, cftRet, cftPrompt, tries, ok, prompt, userAbort, interrupted>>
    /\ UNCHANGED <<srvVars, cmdVars, inputs>>

\* one pass of loop_for_prompt(0): Ctrl-C, then readline
PromptPoll ==
    /\ pc = "PromptIndef"
    /\ KeepPolling
    /\ \E l \in Lines :
         /\ Deliver(l, CtrlC)
         /\ line' = l
         /\ ok' = (l = "Interrupt")
         /\ pc' = IF l = "Interrupt" THEN "PromptFinish" ELSE "PromptIndef"
    /\ UNCHANGED <<caller, cftRet, cftPrompt, tries, exitCode, prompt, dlgVars>>
    /\ UNCHANGED <<srvVars, cmdVars, inputs>>

\* the while-condition of loop_for_prompt(0) fails: it returns None
PromptAborted ==
    /\ pc = "PromptIndef"
    /\ ~KeepPolling
    /\ pc' = "PromptFinish" /\ ok' = FALSE
    /\ UNCHANGED <<caller, cftRet, cftPrompt, line, tries, exitCode, prompt, dlgVars>>
    /\ UNCHANGED <<srvVars, cmdVars, tgtVars, inputs>>

\* warn.finish(), then the result of loop_for_prompt(0) is returned
PromptFinish ==
    /\ pc = "PromptFinish"
    /\ dialog' = FALSE
    /\ PromptReturn(ok)
    /\ UNCHANGED <<caller, cftRet, cftPrompt, line, tries, ok, prompt, userAbort, interrupted>>
    /\ UNCHANGED <<srvVars, cmdVars, tgtVars, inputs>>

\* ShowDialog.userCancel: Cancel, Return, Escape or closing the window
UserCancel ==
    /\ dialog /\ ~userAbort
    /\ userAbort' = TRUE
    /\ UNCHANGED <<mainVars, dialog, interrupted, srvVars, cmdVars, tgtVars, inputs>>

\* __main__ returns with status code.  ShowDialog is a non-daemon
\* threading.Thread whose mainloop only finish() ends, so while the dialog
\* is up the interpreter waits for it at exit: the process hangs.
MainReturns(code) ==
    IF dialog THEN pc' = "Hung" /\ UNCHANGED exitCode ELSE Exit(code)

\* Ctrl-C in the console: KeyboardInterrupt leaves whatever the main thread
\* runs (warn.finish() included) for "except KeyboardInterrupt, SystemExit:
\* pass", and __main__ falls off its end
KeyboardInterrupt ==
    /\ pc \notin {"Exited", "Hung"} /\ ~interrupted
    /\ CtrlCAtDialog \/ ~dialog
    /\ interrupted' = TRUE
    /\ MainReturns(0)
    /\ UNCHANGED <<caller, cftRet, cftPrompt, line, tries, ok, prompt, userAbort, dialog>>
    /\ UNCHANGED <<srvVars, cmdVars, tgtVars, inputs>>

(* check_for_token after its first read.  With temp_prompt still the int 0 *)
(* (token is not UBOOT_PROMPT) and a line that starts with the token,      *)
(* line.find(temp_prompt) raises TypeError, which nothing catches.         *)

CftRead ==
    /\ pc = "CftRead"
    /\ \E l \in Lines :
         /\ Deliver(l, intr)
         /\ line' = l
         /\ LET T == CftTries(cftPrompt) IN
            IF StartsWith(l, CftToken(cftPrompt)) /\ ~cftPrompt
            THEN Exit(1) /\ UNCHANGED <<ok, prompt>>
            ELSE /\ pc' = cftRet
                 /\ ok' = (T - 1 # 0)
                 \* the first, unmatched line becomes UBOOT_PROMPT
                 /\ prompt' = IF cftPrompt /\ T - 1 # 0 THEN line ELSE prompt
                 /\ UNCHANGED exitCode
    /\ UNCHANGED <<caller, cftRet, cftPrompt, tries, dlgVars, srvVars, cmdVars, inputs>>


(* set_uboot_env                                                           *)

\* line = self.readline(); tries = UBOOT_CMD_RESPONSE_RETRIES
EnvRead ==
    /\ pc = "EnvRead"
    /\ \E l \in Lines : Deliver(l, intr) /\ line' = l
    /\ tries' = UBOOT_CMD_RESPONSE_RETRIES
    /\ pc' = "EnvSkip"
    /\ UNCHANGED <<caller, cftRet, cftPrompt, ok, exitCode, prompt>>
    /\ UNCHANGED <<dlgVars, srvVars, cmdVars, inputs>>

\* skip <INTERRUPT> lines, then check_for_token(line, UBOOT_PROMPT, ...)
EnvSkip ==
    /\ pc = "EnvSkip"
    /\ \/ /\ line = "Interrupt" /\ tries > 0
          /\ \E l \in Lines : Deliver(l, intr) /\ line' = l
          /\ tries' = tries - 1
          /\ UNCHANGED <<pc, cftRet, cftPrompt, ok>>
       \/ /\ ~(line = "Interrupt" /\ tries > 0)
          /\ CallCft(line, TRUE, "EnvCft")
          /\ UNCHANGED <<line, tries, tgtVars>>
    /\ UNCHANGED <<caller, exitCode, prompt, dlgVars, srvVars, cmdVars, inputs>>

\* if check_for_token(...) and tries: write "setenv autoload no;dhcp"
EnvCft ==
    /\ pc = "EnvCft"
    /\ \/ /\ ok /\ tries > 0
          /\ dhcpCmd' = TRUE
          /\ pc' = "EnvDhcpRead"
          /\ UNCHANGED exitCode
       \/ /\ ~(ok /\ tries > 0)
          /\ Exit(2)
          /\ UNCHANGED dhcpCmd
    /\ UNCHANGED <<caller, cftRet, cftPrompt, line, tries, ok, prompt>>
    /\ UNCHANGED <<dlgVars, srvVars, serverIp, tftpCmd, goSent, tgtVars, inputs>>

EnvDhcpRead ==
    /\ pc = "EnvDhcpRead"
    /\ \E l \in Lines : Deliver(l, intr) /\ line' = l
    /\ tries' = UBOOT_CMD_RESPONSE_RETRIES
    /\ pc' = "EnvDhcp"
    /\ UNCHANGED <<caller, cftRet, cftPrompt, ok, exitCode, prompt>>
    /\ UNCHANGED <<dlgVars, srvVars, cmdVars, inputs>>

(* Wait for "DHCP client bound to address"; a match read as the last try   *)
(* is still a failure (the loop leaves tries at 0).  Then extract_ip_addr  *)
(* of that line, and gethost_addr, whose outcome depends on the host's     *)
(* interfaces: found is a choice of the environment.                       *)
EnvDhcp ==
    /\ pc = "EnvDhcp"
    /\ \/ /\ line # "DhcpBound" /\ tries > 0
          /\ \E l \in Lines : Deliver(l, intr) /\ line' = l
          /\ tries' = tries - 1
          /\ UNCHANGED <<pc, exitCode>>
       \/ /\ ~(line # "DhcpBound" /\ tries > 0)
          /\ \/ tries = 0 /\ Exit(2)
             \/ tries > 0 /\ Exit(2)              \* gethost_addr finds no subnet match
             \/ tries > 0 /\ pc' = "SvrRead" /\ UNCHANGED exitCode
          /\ UNCHANGED <<line, tries, tgtVars>>
    /\ UNCHANGED <<caller, cftRet, cftPrompt, ok, prompt, dlgVars, srvVars, cmdVars, inputs>>

(* set_svr_ip: readline; if check_for_token: write "setenv serverip";      *)
(* readline; return check_for_token.                                       *)
SvrRead ==
    /\ pc = "SvrRead"
    /\ \E l \in Lines : Deliver(l, intr) /\ line' = l /\ CallCft(l, TRUE, "SvrSet")
    /\ UNCHANGED <<caller, tries, exitCode, prompt, dlgVars, srvVars, cmdVars, inputs>>

SvrSet ==
    /\ pc = "SvrSet"
    /\ serverIp' = (serverIp \/ ok)
    /\ \E l \in Lines : Deliver(l, intr) /\ line' = l /\ CallCft(l, TRUE, "SvrDone")
    /\ UNCHANGED <<caller, tries, exitCode, prompt, dlgVars, srvVars>>
    /\ UNCHANGED <<dhcpCmd, tftpCmd, goSent, inputs>>

\* env_correct: the connect phase returns it; True runs the load phase
SvrDone ==
    /\ pc = "SvrDone"
    /\ IF ok THEN pc' = "Load" /\ UNCHANGED exitCode ELSE Exit(2)
    /\ UNCHANGED <<caller, cftRet, cftPrompt, line, tries, ok, prompt>>
    /\ UNCHANGED <<dlgVars, srvVars, cmdVars, tgtVars, inputs>>

(* UBootLoadApplicationPhase.executePhase.  The probe bind of localhost:69 *)
(* fails when another TFTP server runs; its error message applies "% msg"  *)
(* to a format without a conversion, so TypeError escapes before           *)
(* sys.exit(2).  Otherwise the server thread is started and the tftp       *)
(* command written, with no wait for the thread.                           *)
LoadPhase ==
    /\ pc = "Load"
    /\ \/ /\ tftpBusy
          /\ Exit(1)
          /\ UNCHANGED <<srv, tftpCmd>>
       \/ /\ ~tftpBusy
          /\ srv' = "starting"
          /\ tftpCmd' = TRUE
          /\ pc' = "TftpRead"
          /\ UNCHANGED exitCode
    /\ UNCHANGED <<caller, cftRet, cftPrompt, line, tries, ok, prompt>>
    /\ UNCHANGED <<dlgVars, served, dhcpCmd, serverIp, goSent, tgtVars, inputs>>

\* wait_for_tftp_done: readline, then check_for_token(line, "Load address:", ...)
TftpRead ==
    /\ pc = "TftpRead"
    /\ \E l \in Lines : Deliver(l, intr) /\ line' = l /\ CallCft(l, FALSE, "TftpLoop")
    /\ tries' = TFTP_DONE_RETRIES
    /\ UNCHANGED <<caller, exitCode, prompt, dlgVars, srvVars, cmdVars, inputs>>

(* The while(tries) loop.  "Bytes transferred =" breaks, "link down" sets  *)
(* tries to 0, a T line or "" costs a try, any other line costs nothing.   *)
(* When check_for_token returned False the loop is skipped and, tries      *)
(* being untouched, the transfer is reported complete.                     *)
\* a plausible bug: "link down" breaks without clearing tries (line 313 lost)
TftpLineStep_LinkDownKeepsTries(l) ==
    CASE l \in {"Done", "LinkDown"} -> pc' = "PromptTry" /\ caller' = "load"
                                       /\ UNCHANGED <<tries, exitCode>>
      [] l \in TLines \/ l = "Empty" -> tries' = tries - 1 /\ UNCHANGED <<pc, caller, exitCode>>
      [] OTHER -> UNCHANGED <<pc, caller, tries, exitCode>>

\* a plausible bug: an empty read costs no try ("or (not line)" lost)
TftpLineStep_EmptyFree(l) ==
    CASE l = "Done"     -> pc' = "PromptTry" /\ caller' = "load" /\ UNCHANGED <<tries, exitCode>>
      [] l = "LinkDown" -> Exit(2) /\ tries' = 0 /\ UNCHANGED caller
      [] l \in TLines   -> tries' = tries - 1 /\ UNCHANGED <<pc, caller, exitCode>>
      [] OTHER          -> UNCHANGED <<pc, caller, tries, exitCode>>

\* one pass of the while(tries) loop on line l
TftpLineStep(l) ==
    CASE l = "Done"     -> pc' = "PromptTry" /\ caller' = "load" /\ UNCHANGED <<tries, exitCode>>
      [] l = "LinkDown" -> Exit(2) /\ tries' = 0 /\ UNCHANGED caller
      [] l \in TLines \/ l = "Empty"
                        -> tries' = tries - 1 /\ UNCHANGED <<pc, caller, exitCode>>
      [] OTHER          -> UNCHANGED <<pc, caller, tries, exitCode>>

TftpLoop ==
    /\ pc = "TftpLoop"
    /\ \/ /\ ok /\ tries > 0
          /\ \E l \in Lines : Deliver(l, intr) /\ line' = l /\ TftpLineStep(l)
       \/ /\ ~(ok /\ tries > 0)
          /\ IF tries = 0 THEN Exit(2) /\ UNCHANGED caller
                          ELSE pc' = "PromptTry" /\ caller' = "load" /\ UNCHANGED exitCode
          /\ UNCHANGED <<line, tries, tgtVars>>
    /\ UNCHANGED <<cftRet, cftPrompt, ok, prompt, dlgVars, srvVars, cmdVars, inputs>>

(* start_tftpserver: listen() binds 0.0.0.0:69 while the probe socket      *)
(* still holds localhost:69, which succeeds or not by platform; a bind     *)
(* error or a TftpException ends the thread only (sys.exit in a thread).   *)
(* The threads stop when the process exits.                                *)
SrvListen ==
    /\ srv = "starting" /\ pc # "Exited"
    /\ srv' \in {"listening", "dead"}
    /\ UNCHANGED <<mainVars, dlgVars, served, cmdVars, tgtVars, inputs>>

SrvServe ==
    /\ srv = "listening" /\ pc # "Exited"
    /\ tftpCmd /\ ~served /\ "LinkDown" \notin emitted
    /\ served' = TRUE
    /\ UNCHANGED <<mainVars, dlgVars, srv, cmdVars, tgtVars, inputs>>

SrvFail ==
    /\ srv = "listening" /\ pc # "Exited"
    /\ srv' = "dead"
    /\ UNCHANGED <<mainVars, dlgVars, served, cmdVars, tgtVars, inputs>>

(* UBootStartApplicationPhase: no go command for start address 0xFFFFFFFF; *)
(* issue_go_cmd writes "go" when check_for_token passes, and the phase     *)
(* returns True either way.                                                *)
StartPhase ==
    /\ pc = "Start"
    /\ \/ /\ startAddr = "FFFFFFFF"
          /\ AfterStart
       \/ /\ startAddr # "FFFFFFFF"
          /\ pc' = "GoRead"
          /\ UNCHANGED <<tries, exitCode>>
    /\ UNCHANGED <<caller, cftRet, cftPrompt, line, ok, prompt>>
    /\ UNCHANGED <<dlgVars, srvVars, cmdVars, tgtVars, inputs>>

GoRead ==
    /\ pc = "GoRead"
    /\ \E l \in Lines : Deliver(l, intr) /\ line' = l /\ CallCft(l, TRUE, "GoCmd")
    /\ UNCHANGED <<caller, tries, exitCode, prompt, dlgVars, srvVars, cmdVars, inputs>>

GoCmd ==
    /\ pc = "GoCmd"
    /\ goSent' = ok
    /\ AfterStart
    /\ UNCHANGED <<caller, cftRet, cftPrompt, line, ok, prompt>>
    /\ UNCHANGED <<dlgVars, srvVars, dhcpCmd, serverIp, tftpCmd, tgtVars, inputs>>

(* UBootAutoDetectIPPhase: wait_for_IP, then verify_server.  Each pass of  *)
(* the outer loop looks for "## Starting application" again, and after the *)
(* marker only the first non-empty line is tested by is_valid_ipv4.        *)
IpOuter ==
    /\ pc = "IpOuter"
    /\ \/ /\ tries > 0
          /\ \E l \in Lines : Deliver(l, intr) /\ line' = l
          /\ pc' = "IpMarker"
          /\ UNCHANGED exitCode
       \/ /\ tries = 0
          /\ Exit(2)
          /\ UNCHANGED <<line, tgtVars>>
    /\ UNCHANGED <<caller, cftRet, cftPrompt, tries, ok, prompt>>
    /\ UNCHANGED <<dlgVars, srvVars, cmdVars, inputs>>

IpMarker ==
    /\ pc = "IpMarker"
    /\ \E l \in Lines : Deliver(l, intr) /\ line' = l
    /\ \/ /\ line # "AppStart" /\ tries > 0
          /\ tries' = tries - 1
          /\ UNCHANGED pc
       \/ /\ ~(line # "AppStart" /\ tries > 0)
          /\ tries' = WAIT_FOR_IP_RETRIES
          /\ pc' = "IpEmpty"
    /\ UNCHANGED <<caller, cftRet, cftPrompt, ok, exitCode, prompt>>
    /\ UNCHANGED <<dlgVars, srvVars, cmdVars, inputs>>

\* a plausible bug: "and (tries)" dropped from the validity test
IpRetry_NoTriesGuard == line # "IpLine"

\* is_valid_ipv4(line) != True and tries: another pass of the outer loop
IpRetry == line # "IpLine" /\ tries > 0

\* verify_server(ip, port): after a 3 s sleep, up to three connects to the
\* target's GDB server; True as soon as one succeeds, False after three
\* failures
VerifyServer == BOOLEAN

\* UBootAutoDetectIPPhase.executePhase once wait_for_IP returned: None
\* (tries ran out) fails the phase; else the phase passes iff
\* verify_server does.  It is the last phase, so the run then exits.
AutoDetectDone ==
    IF tries = 0 THEN Exit(2)
    ELSE \E up \in VerifyServer : Exit(IF up THEN 0 ELSE 2)

IpEmpty ==
    /\ pc = "IpEmpty"
    /\ \/ /\ line = "Empty" /\ tries > 0
          /\ \E l \in Lines : Deliver(l, intr) /\ line' = l
          /\ tries' = tries - 1
          /\ UNCHANGED <<pc, exitCode>>
       \/ /\ ~(line = "Empty" /\ tries > 0)
          /\ \/ /\ IpRetry
                /\ tries' = tries - 1
                /\ pc' = "IpOuter"
                /\ UNCHANGED exitCode
             \/ /\ ~IpRetry
                /\ UNCHANGED tries
                /\ AutoDetectDone
          /\ UNCHANGED <<line, tgtVars>>
    /\ UNCHANGED <<caller, cftRet, cftPrompt, ok, prompt>>
    /\ UNCHANGED <<dlgVars, srvVars, cmdVars, inputs>>

\* the process has exited (sys.exit or an uncaught exception), or hangs
Terminated ==
    /\ pc \in {"Exited", "Hung"}
    /\ UNCHANGED vars

-----------------------------------------------------------------------------

Init ==
    /\ pc = "Connect" /\ caller = "connect"
    /\ cftRet = "EnvCft" /\ cftPrompt = TRUE
    /\ line = "Empty" /\ tries = 0 /\ ok = FALSE /\ exitCode = NoExit
    /\ prompt = "Prompt"
    /\ userAbort = FALSE /\ dialog = FALSE /\ interrupted = FALSE
    /\ srv = "none" /\ served = FALSE
    /\ dhcpCmd = FALSE /\ serverIp = FALSE /\ tftpCmd = FALSE /\ goSent = FALSE
    /\ intr = 0 /\ noise = 0 /\ emitted = {}
    /\ serialSpec \in {"ok", "fieldCount", "badValue"}
    /\ startAddr \in {"addr", "FFFFFFFF"}
    /\ proxy \in BOOLEAN
    /\ tftpBusy \in BOOLEAN

\* every step of the main thread but a poll of loop_for_prompt(0)
MainProgress ==
    \/ ConnectPhase \/ PromptTry \/ PromptAborted \/ PromptFinish \/ CftRead
    \/ EnvRead \/ EnvSkip \/ EnvCft \/ EnvDhcpRead \/ EnvDhcp
    \/ SvrRead \/ SvrSet \/ SvrDone
    \/ LoadPhase \/ TftpRead \/ TftpLoop
    \/ StartPhase \/ GoRead \/ GoCmd
    \/ IpOuter \/ IpMarker \/ IpEmpty

Main == MainProgress \/ PromptPoll

Server == SrvListen \/ SrvServe \/ SrvFail

Next == Main \/ Server \/ UserCancel \/ KeyboardInterrupt \/ Terminated

\* readline() always returns within the serial timeout, so the main thread
\* keeps stepping and loop_for_prompt(0) re-tests USER_ABORT on every pass;
\* the server thread runs whenever it can.  Nothing obliges the board to
\* answer a Ctrl-C (it may be off) or the operator to click Cancel.
Spec == Init /\ [][Next]_vars /\ WF_vars(MainProgress) /\ WF_vars(Server)

-----------------------------------------------------------------------------
TypeOK ==
    /\ pc \in {"Connect", "PromptTry", "PromptIndef", "PromptFinish", "CftRead",
               "EnvRead", "EnvSkip", "EnvCft", "EnvDhcpRead", "EnvDhcp",
               "SvrRead", "SvrSet", "SvrDone", "Load", "TftpRead", "TftpLoop",
               "Start", "GoRead", "GoCmd", "IpOuter", "IpMarker", "IpEmpty", "Exited", "Hung"}
    /\ caller \in {"connect", "load"}
    /\ line \in Lines /\ prompt \in Lines
    /\ tries \in Nat /\ ok \in BOOLEAN /\ interrupted \in BOOLEAN
    /\ exitCode \in {NoExit, 0, 1, 2}
    /\ srv \in {"none", "starting", "listening", "dead"}
    /\ intr \in 0..MaxIntr /\ noise \in 0..MaxNoise /\ emitted \subseteq OneShot



\* The run exits 0 only when the TFTP server thread really delivered the
\* image: the foreground wait_for_tftp_done and the background server are
\* not synchronised, so success must come from the target's own
\* "Bytes transferred =" report, never from the foreground's retry budget.
\* (A Ctrl-C also exits 0: a user abort, which the spec does not count as
\* an error.)
SuccessImpliesServed == exitCode = 0 /\ ~interrupted => served

IpWaitPcs == {"IpOuter", "IpMarker", "IpEmpty"}

\* Spec 4.2 (IP wait): wait_for_IP reads lines until one is a valid IPv4
\* address, so once the application has printed its address the wait never
\* goes on having passed over it.
AddressLineNotSkipped ==
    (pc \in IpWaitPcs /\ "IpLine" \in emitted) => line = "IpLine"

\* Spec section 8: with start address 0xFFFFFFFF the run is load-only and,
\* once the image is loaded, reports success at the start phase: the main
\* thread's step out of UBootStartApplicationPhase (the server thread's
\* steps leave pc alone) is the exit with status 0, not a further phase.
LoadOnlyReportsSuccess ==
    [][pc = "Start" /\ pc' # "Start" /\ startAddr = "FFFFFFFF"
          => pc' = "Exited" /\ exitCode' = 0]_vars

\* Every wait of the run is bounded except loop_for_prompt(0), the one the
\* Cancel button ends: from any other point the run reaches an exit or that
\* loop.  A T-less line costs no TFTP try and each pass of wait_for_IP
\* resets its budget, so this depends on the target's output being finite.
BoundedWaits == (pc \notin {"PromptIndef", "Exited"}) ~> (pc \in {"PromptIndef", "Exited"})

\* A Cancel click (USER_ABORT, never cleared) ends the run, including one
\* made after the board already answered and before warn.finish().
AbortHonoured == userAbort ~> (pc = "Exited")

\* Spec section 7: a user abort is a graceful, silent exit, so a Ctrl-C in
\* the console ends the process wherever the run is, also while the
\* power-cycle dialog is up.
InterruptEndsRun == interrupted ~> (pc = "Exited")


-----------------------------------------------------------------------------
(* Refinement: the run implements the phase chain of BootstrapPipeline.   *)

ConnectPcs == {"Connect", "EnvRead", "EnvSkip", "EnvCft", "EnvDhcpRead",
               "EnvDhcp", "SvrRead", "SvrSet", "SvrDone"}
PhaseOfPc(p) ==
    CASE p \in ConnectPcs                  -> "Connect"
      [] p \in {"Load", "TftpRead", "TftpLoop"} -> "Load"
      [] p \in {"Start", "GoRead", "GoCmd"} -> "Start"
      [] p \in IpWaitPcs                   -> "AutoDetect"

\* the phase whose executePhase is on the stack
StageOf ==
    CASE pc \in {"Exited", "Hung"} -> "Done"
      [] pc \in {"PromptTry", "PromptIndef", "PromptFinish"} ->
             IF caller = "connect" THEN "Connect" ELSE "Load"
      [] pc = "CftRead" -> PhaseOfPc(cftRet)
      [] OTHER -> PhaseOfPc(pc)

Pipeline == INSTANCE BootstrapPipeline
                WITH stage <- StageOf, status <- exitCode, proxy <- proxy,
                     aborted <- interrupted,
                     FailCodes <- {1, 2}

\* The bring-up runs Connect, Load, Start and (with --proxy) AutoDetectIP
\* in this order, each only after its predecessor returned True, and exits
\* 0 only once the last phase of the chain has passed or on a Ctrl-C.
PipelineRefined == Pipeline!Spec

=============================================================================
