--------------------------- MODULE SerialHandoff ---------------------------
(***************************************************************************)
(* The processes that pass the one serial port between them, over         *)
(* successive bring-up sessions: uloader.py (U), the pinhole2.py serial   *)
(* relay it launches (P2) and the pinhole.py network relay it execs into  *)
(* (P).  They share the serial device, the disconnect service's port 2156 *)
(* (check_serial_connect / Serial_Disconnect / release_serial_connect),   *)
(* and the GDB port pinhole listens on.  The bring-up itself (ULoader)    *)
(* and the byte copying (Relay) are reduced to their outcomes here.       *)
(*                                                                         *)
(* Timing: time.sleep(1) after a rendezvous is modelled as long enough     *)
(* for every process already signalled on 2156 to accept and os._exit;    *)
(* whether pinhole2's start-up outlasts uloader's own sleep(1) and execl  *)
(* is the constant P2StartsSlowerThanExecl.                                *)
(***************************************************************************)
EXTENDS Naturals, FiniteSets

CONSTANTS
    NSessions,               \* uloader runs, one after another
    P2StartsSlowerThanExecl, \* pinhole2 opens the port only after uloader exec'd
    OperatorPaced            \* no run is started while a pinhole2 starts up

ASSUME NSessions \in Nat \ {0} /\ P2StartsSlowerThanExecl \in BOOLEAN
       /\ OperatorPaced \in BOOLEAN

S == 1..NSessions
U(s)  == <<"U", s>>
P2(s) == <<"P2", s>>
P(s)  == <<"P", s>>
Procs == {U(s) : s \in S} \cup {P2(s) : s \in S} \cup {P(s) : s \in S}
None  == <<"none", 0>>

VARIABLES
    u, p2, p,     \* the state of each session's three processes
    holder,       \* the process that has the serial device open
    listener,     \* the Serial_Disconnect bound to port 2156
    gdb,          \* the session whose pinhole has the GDB port bound (0: none)
    signalled,    \* processes connected to on 2156, not yet exited
    killedBy,     \* who signalled each session's pinhole2 (None: nobody)
    busyOpen      \* processes whose serial open found the device held

vars == <<u, p2, p, holder, listener, gdb, signalled, killedBy, busyOpen>>

-----------------------------------------------------------------------------
(* Shared steps.                                                           *)

\* a plausible bug: a refused connection taken for a signalled holder
Signal_RefusedCounts(x) ==
    IF listener \notin signalled
    THEN /\ signalled' = signalled \cup {listener}
         /\ killedBy' = [killedBy EXCEPT ![listener[2]] = x]
    ELSE UNCHANGED <<signalled, killedBy>>

\* x connects to localhost:2156.  A bound Serial_Disconnect accepts it
\* (the holder will os._exit); refused otherwise.  Either way True.
Signal(x) ==
    IF listener # None /\ listener \notin signalled
    THEN /\ signalled' = signalled \cup {listener}
         /\ killedBy' = [killedBy EXCEPT ![listener[2]] = x]
    ELSE UNCHANGED <<signalled, killedBy>>

\* check_serial_connect / release_serial_connect: False only when socket()
\* fails (no descriptor left); otherwise x connects and the result is True
CheckSerialConnect(x, chk) ==
    IF chk THEN Signal(x) ELSE UNCHANGED <<signalled, killedBy>>

\* a plausible bug: the settle delay dropped
Settled_NoDelay == TRUE

\* time.sleep(1) after the rendezvous: every signalled process is gone
Settled == signalled = {}

\* x opens the serial device; it fails while another process has it open
OpenSerial(x) ==
    IF holder = None THEN holder' = x /\ UNCHANGED busyOpen
                     ELSE busyOpen' = busyOpen \cup {x} /\ UNCHANGED holder

\* x's process ends and the OS closes what it held
Free(x) ==
    /\ holder' = IF holder = x THEN None ELSE holder
    /\ listener' = IF listener = x THEN None ELSE listener
    /\ signalled' = signalled \ {x}

-----------------------------------------------------------------------------
(* uloader.py.  The operator starts a run once the previous one ended;   *)
(* with OperatorPaced, not within the second a pinhole2 takes to start up *)
(* (a run started then finds no disconnect service bound yet).           *)

Starting(s) == p2[s] \in {"check", "settle", "open"}

UStart(s) ==
    /\ u[s] = "idle" /\ (s > 1 => u[s - 1] = "done")
    /\ OperatorPaced => \A t \in S : ~Starting(t)
    /\ u' = [u EXCEPT ![s] = "check"]
    /\ UNCHANGED <<p2, p, holder, listener, gdb, signalled, killedBy, busyOpen>>

\* UBootConnectPhase: check_serial_connect("localhost", 2156); False is
\* "Failed to open Serial Port" and sys.exit(2)
UCheck(s) ==
    /\ u[s] = "check"
    /\ \E chk \in BOOLEAN :
         /\ CheckSerialConnect(U(s), chk)
         /\ u' = [u EXCEPT ![s] = IF chk THEN "settle" ELSE "done"]
    /\ UNCHANGED <<p2, p, holder, listener, gdb, busyOpen>>

\* time.sleep(1); UBootSerial(port, ...): a SerialException fails the run
UOpen(s) ==
    /\ u[s] = "settle" /\ Settled
    /\ OpenSerial(U(s))
    /\ u' = [u EXCEPT ![s] = IF holder = None THEN "boot" ELSE "done"]
    /\ UNCHANGED <<p2, p, listener, gdb, signalled, killedBy>>

\* the phases run; on success with --proxy, Popen(pinhole2.bat 2155 COM)
UBoot(s) ==
    /\ u[s] = "boot"
    /\ \/ u' = [u EXCEPT ![s] = "done"] /\ Free(U(s)) /\ UNCHANGED p2
       \/ u' = [u EXCEPT ![s] = "launch"] /\ p2' = [p2 EXCEPT ![s] = "check"]
          /\ UNCHANGED <<holder, listener, signalled>>
    /\ UNCHANGED <<p, gdb, killedBy, busyOpen>>

\* time.sleep(1); Popen(puttytel); os.execl(pinhole.bat port ip)
UExec(s) ==
    /\ u[s] = "launch"
    /\ u' = [u EXCEPT ![s] = "done"] /\ Free(U(s))
    /\ p' = [p EXCEPT ![s] = "bind"]
    /\ UNCHANGED <<p2, gdb, killedBy, busyOpen>>
-----------------------------------------------------------------------------
(* pinhole2.py __main__, Serial_Disconnect and Pinhole2.                   *)

\* check_serial_connect("localhost", 2156); on False __main__ only writes
\* "Problem encountered while releasing the serial port" and ends
P2Check(s) ==
    /\ p2[s] = "check"
    /\ \E chk \in BOOLEAN :
         /\ CheckSerialConnect(P2(s), chk)
         /\ p2' = [p2 EXCEPT ![s] = IF chk THEN "settle" ELSE "exited"]
    /\ UNCHANGED <<u, p, holder, listener, gdb, busyOpen>>

\* a plausible bug: Pinhole2 opens the port before the disconnect service
\* is bound (here: never bound)
P2Disconnect_NotBound(s) ==
    /\ p2[s] = "settle" /\ Settled
    /\ p2' = [p2 EXCEPT ![s] = "open"]
    /\ UNCHANGED <<u, p, holder, listener, gdb, signalled, killedBy, busyOpen>>

\* time.sleep(1); Serial_Disconnect(2156): bind, or os._exit(0) if bound
P2Disconnect(s) ==
    /\ p2[s] = "settle" /\ Settled
    /\ IF listener = None
       THEN listener' = P2(s) /\ p2' = [p2 EXCEPT ![s] = "open"]
       ELSE p2' = [p2 EXCEPT ![s] = "exited"] /\ UNCHANGED listener
    /\ UNCHANGED <<u, p, holder, gdb, signalled, killedBy, busyOpen>>

\* Pinhole2(port, connString): Serial_Connect.execute, result ignored, then
\* bind(('', 2155)) with no SO_REUSEADDR.  The bind fails while the last
\* relay's connection is in TIME_WAIT (or another program has 2155): the
\* error leaves __main__, but the non-daemon Serial_Disconnect thread keeps
\* the process alive ("stuck"), holding the port with no relay
P2Open(s) ==
    /\ p2[s] = "open"
    /\ P2StartsSlowerThanExecl => u[s] # "launch"
    /\ OpenSerial(P2(s))
    /\ \E bound \in BOOLEAN : p2' = [p2 EXCEPT ![s] = IF bound THEN "serve" ELSE "stuck"]
    /\ UNCHANGED <<u, p, listener, gdb, signalled, killedBy>>

\* Serial_Disconnect.run: accept() returned; os._exit(0)
P2Killed(s) ==
    /\ P2(s) \in signalled
    /\ p2' = [p2 EXCEPT ![s] = "exited"] /\ Free(P2(s))
    /\ UNCHANGED <<u, p, gdb, killedBy, busyOpen>>

\* a relay leg ends (the terminal hung up, or the port is None): os._exit(0)
P2RelayEnds(s) ==
    /\ p2[s] = "serve"
    /\ p2' = [p2 EXCEPT ![s] = "exited"] /\ Free(P2(s))
    /\ UNCHANGED <<u, p, gdb, killedBy, busyOpen>>

-----------------------------------------------------------------------------
(* pinhole.py.                                                             *)

\* Pinhole(port, ...): bind the GDB port; socket.error ends the process
\* before release_serial_connect
PBind(s) ==
    /\ p[s] = "bind"
    /\ IF gdb = 0 THEN gdb' = s /\ p' = [p EXCEPT ![s] = "accept"]
                  ELSE p' = [p EXCEPT ![s] = "exited"] /\ UNCHANGED gdb
    /\ UNCHANGED <<u, p2, holder, listener, signalled, killedBy, busyOpen>>

\* accept(): the debugger connects, or HOSTCONNECT expires
PAccept(s) ==
    /\ p[s] = "accept"
    /\ p' \in {[p EXCEPT ![s] = r] : r \in {"relay", "release"}}
    /\ UNCHANGED <<u, p2, holder, listener, gdb, signalled, killedBy, busyOpen>>

\* the debug session ends (or fwd.connect failed): both legs joined
PRelayEnds(s) ==
    /\ p[s] = "relay"
    /\ p' = [p EXCEPT ![s] = "release"]
    /\ UNCHANGED <<u, p2, holder, listener, gdb, signalled, killedBy, busyOpen>>

\* release_serial_connect("localhost", 2156); sys.exit(0)
PRelease(s) ==
    /\ p[s] = "release"
    /\ \E chk \in BOOLEAN : CheckSerialConnect(P(s), chk)
    /\ gdb' = IF gdb = s THEN 0 ELSE gdb
    /\ p' = [p EXCEPT ![s] = "exited"]
    /\ UNCHANGED <<u, p2, holder, listener, busyOpen>>

-----------------------------------------------------------------------------

Init ==
    /\ u = [s \in S |-> "idle"]
    /\ p2 = [s \in S |-> "none"]
    /\ p = [s \in S |-> "none"]
    /\ holder = None /\ listener = None /\ gdb = 0
    /\ signalled = {} /\ killedBy = [s \in S |-> None] /\ busyOpen = {}

\* every process step but what an outside party decides
Processes(s) ==
    \/ UCheck(s) \/ UOpen(s) \/ UBoot(s) \/ UExec(s)
    \/ P2Check(s) \/ P2Disconnect(s) \/ P2Open(s) \/ P2Killed(s)
    \/ PBind(s) \/ PAccept(s) \/ PRelease(s)

\* the operator starts a run; a terminal or a debug session ends
Outside(s) == UStart(s) \/ P2RelayEnds(s) \/ PRelayEnds(s)

\* all processes have exited, but a stuck pinhole2 that waits on 2156
\* for a next session that never comes
Quiet ==
    /\ \A s \in S : u[s] = "done" /\ p2[s] \in {"none", "exited", "stuck"} /\ p[s] \in {"none", "exited"}
    /\ UNCHANGED vars

Next == \E s \in S : Processes(s) \/ Outside(s) \/ Quiet

\* Each process is scheduled; accept() in pinhole.py is bounded by
\* HOSTCONNECT.  Nobody has to start a run or end a session.
Spec == Init /\ [][Next]_vars /\ \A s \in S : WF_vars(Processes(s))

-----------------------------------------------------------------------------
TypeOK ==
    /\ u \in [S -> {"idle", "check", "settle", "boot", "launch", "done"}]
    /\ p2 \in [S -> {"none", "check", "settle", "open", "serve", "stuck", "exited"}]
    /\ p \in [S -> {"none", "bind", "accept", "relay", "release", "exited"}]
    /\ holder \in Procs \cup {None} /\ listener \in Procs \cup {None}
    /\ gdb \in S \cup {0}
    /\ signalled \subseteq Procs /\ killedBy \in [S -> Procs \cup {None}]
    /\ busyOpen \subseteq Procs

\* Spec 4.5: a pinhole2 that holds the serial device can always be made
\* to let go of it: its disconnect service is bound (or has already been
\* signalled).  This is what lets the next run reclaim the port; it rests
\* on pinhole2's __main__ binding 2156 before Pinhole2 opens the port.
HolderSignalable ==
    \A s \in S : holder = P2(s) => listener = P2(s) \/ P2(s) \in signalled

\* Spec 2 and 4.5: the rendezvous gives the serial port to one process at a
\* time, so a process that went through check_serial_connect and the
\* settle delay never finds the device still held when it opens it.
OpenNeverFindsPortHeld == busyOpen = {}

\* Spec 4.5: a connection on 2156 means "another session wants the port",
\* so a session's pinhole2 is only ever terminated by its own session's
\* pinhole (the end of the debug session) or by a later session's
\* uloader or pinhole2 that takes the port over.
RelayKilledOnlyByItsSession ==
    \A s \in S : killedBy[s] \in {None, P(s)} \cup {U(t) : t \in s + 1..NSessions}
                                               \cup {P2(t) : t \in s + 1..NSessions}
====
