------------------------------- MODULE Relay -------------------------------
(***************************************************************************)
(* One tunnel of the port relays: PipeThread, Pinhole and the process      *)
(* around them.  variant "net" is pinhole.py (localhost port <-> target    *)
(* host:port, legs sharing the EXITING flag, one-shot accept with the      *)
(* HOSTCONNECT timeout, release_serial_connect on exit); variant "serial"  *)
(* is pinhole2.py (localhost port <-> the serial device, a leg ends the    *)
(* whole process with os._exit).                                           *)
(*                                                                         *)
(* Leg "up" copies client -> far, leg "down" far -> client; "far" is the   *)
(* forwarded socket or the serial port.  Data is counted in chunks.        *)
(***************************************************************************)
EXTENDS Naturals

CONSTANTS
    Variants,   \* relays checked: "net" (pinhole.py), "serial" (pinhole2.py)
    MaxChunks   \* chunks each peer sends at most

ASSUME Variants \subseteq {"net", "serial"} /\ MaxChunks \in Nat

Legs == {"up", "down"}
Ends == {"client", "far"}
Src(g) == IF g = "up" THEN "client" ELSE "far"
Dst(g) == IF g = "up" THEN "far" ELSE "client"

(* Endpoint states: "none" not opened (or Serial_Connect failed and        *)
(* serialPort is None), "open", "eof" the peer shut down, "err" reset or   *)
(* device error, "closed" closed by this process.                          *)
EndStates == {"none", "open", "eof", "err", "closed"}

VARIABLES
    variant,    \* which relay program this tunnel runs; fixed in Init
    proc,       \* where the hosting process is
    leg,        \* each PipeThread: "idle", "top" (loop head), "got", "exit", "done"
    sock,       \* endpoint states
    pending,    \* chunks the peer sent that are not read yet
    sent,       \* chunks the peer sent in all
    exiting,    \* global EXITING of pinhole.py
    delivered,  \* chunks each leg forwarded
    released    \* release_serial_connect was called

vars == <<variant, proc, leg, sock, pending, sent, exiting, delivered, released>>

\* a read of an empty serial port returns "" with no end-of-stream meaning
SerialOrigin(g) == variant = "serial" /\ Src(g) = "far"

\* recv/read/send/write on e raises (closed socket, None port, device error)
Raises(e) == sock[e] \in {"none", "err", "closed"}

ToExit(g) == leg' = [leg EXCEPT ![g] = "exit"]

\* a plausible bug: the chunk read stays in the source buffer
Consume_Nothing(s) == UNCHANGED pending

\* recv/read takes one chunk from the source
Consume(s) == pending' = [pending EXCEPT ![s] = @ - 1]

-----------------------------------------------------------------------------
(* The legs: PipeThread.run.                                               *)

\* a plausible bug: every empty read ends the leg, timeouts included
EmptyRead_AlwaysEnds(g) == ToExit(g)

\* the read returned nothing: "" at end of stream, or a timeout
EmptyRead(g) ==
    IF sock[Src(g)] = "eof" /\ ~SerialOrigin(g)
    THEN ToExit(g)          \* recv returned "": break
    ELSE UNCHANGED leg      \* socket timeout: continue; serial "": pass

\* one pass of the loop head: the EXITING test (pinhole.py), then a read
Recv(g) ==
    /\ proc = "relaying" /\ leg[g] = "top"
    /\ LET s == Src(g) IN
       \/ variant = "net" /\ exiting /\ ToExit(g) /\ UNCHANGED pending
       \/ /\ variant = "serial" \/ ~exiting
          /\ \/ Raises(s) /\ ToExit(g) /\ UNCHANGED pending
             \/ /\ ~Raises(s) /\ pending[s] > 0
                /\ leg' = [leg EXCEPT ![g] = "got"]
                /\ Consume(s)
             \/ ~Raises(s) /\ pending[s] = 0 /\ EmptyRead(g) /\ UNCHANGED pending
    /\ UNCHANGED <<variant, proc, sock, sent, exiting, delivered, released>>

\* sink.send(data) / sink.write(data); a send to a socket whose peer has
\* gone may still succeed (the data is lost) or raise
Send(g) ==
    /\ proc = "relaying" /\ leg[g] = "got"
    /\ LET d == Dst(g) IN
       \/ Raises(d) /\ ToExit(g) /\ UNCHANGED delivered
       \/ /\ sock[d] = "open"
          /\ leg' = [leg EXCEPT ![g] = "top"]
          /\ delivered' = [delivered EXCEPT ![g] = @ + 1]
       \/ /\ sock[d] = "eof"
          /\ \E r \in {"top", "exit"} : leg' = [leg EXCEPT ![g] = r]
          /\ UNCHANGED delivered
    /\ UNCHANGED <<variant, proc, sock, pending, sent, exiting, released>>

\* the endpoints a leg closes on its way out: pinhole.py closes source and
\* sink; pinhole2.py closes only the network socket
LegCloses(g) == IF variant = "net" THEN {Src(g), Dst(g)} ELSE {"client"}

\* a plausible bug: the leg closes only its source and does not set EXITING
Cleanup_NoSignal(g) ==
    /\ proc = "relaying" /\ leg[g] = "exit"
    /\ sock' = [sock EXCEPT ![Src(g)] = "closed"]
    /\ leg' = [leg EXCEPT ![g] = "done"]
    /\ IF variant = "net" THEN UNCHANGED <<proc, exiting>>
                          ELSE proc' = "exited" /\ UNCHANGED exiting
    /\ UNCHANGED <<variant, pending, sent, delivered, released>>

\* after the loop: close, deregister; EXITING = 1 and the thread ends
\* (pinhole.py), or os._exit(0) ends the process (pinhole2.py)
Cleanup(g) ==
    /\ proc = "relaying" /\ leg[g] = "exit"
    /\ sock' = [e \in Ends |-> IF e \in LegCloses(g) THEN "closed" ELSE sock[e]]
    /\ leg' = [leg EXCEPT ![g] = "done"]
    /\ IF variant = "net" THEN exiting' = TRUE /\ UNCHANGED proc
                          ELSE proc' = "exited" /\ UNCHANGED exiting
    /\ UNCHANGED <<variant, pending, sent, delivered, released>>

-----------------------------------------------------------------------------
(* The server thread and the process.                                      *)

StartLegs == leg' = [g \in Legs |-> "top"]

\* Pinhole2.__init__: Serial_Connect().execute(connString), result ignored
OpenSerial ==
    /\ proc = "opening"
    /\ sock' \in {[sock EXCEPT !["far"] = s] : s \in {"open", "none"}}
    /\ proc' = "accepting"
    /\ UNCHANGED <<variant, leg, pending, sent, exiting, delivered, released>>

\* accept() returns a client: pinhole.py goes on to connect the far side,
\* pinhole2.py starts both legs on the serial port
AcceptClient ==
    /\ proc = "accepting"
    /\ sock' = [sock EXCEPT !["client"] = "open"]
    /\ IF variant = "net" THEN proc' = "connecting" /\ UNCHANGED leg
                          ELSE proc' = "relaying" /\ StartLegs
    /\ UNCHANGED <<variant, pending, sent, exiting, delivered, released>>

\* pinhole.py: no client within HOSTCONNECT; the thread exits
AcceptTimeout ==
    /\ proc = "accepting" /\ variant = "net"
    /\ proc' = "releasing"
    /\ UNCHANGED <<variant, leg, sock, pending, sent, exiting, delivered, released>>

\* pinhole.py: fwd.connect((newhost, newport)); an error ends the thread
Connect ==
    /\ proc = "connecting"
    /\ \/ sock' = [sock EXCEPT !["far"] = "open"] /\ proc' = "relaying" /\ StartLegs
       \/ proc' = "releasing" /\ UNCHANGED <<sock, leg>>
    /\ UNCHANGED <<variant, pending, sent, exiting, delivered, released>>

\* pinhole.py: host.join(); target.join(); the thread exits
Join ==
    /\ proc = "relaying" /\ variant = "net"
    /\ \A g \in Legs : leg[g] = "done"
    /\ proc' = "releasing"
    /\ UNCHANGED <<variant, leg, sock, pending, sent, exiting, delivered, released>>

\* pinhole.py main: server.join(); release_serial_connect("localhost", 2156)
Release ==
    /\ proc = "releasing"
    /\ released' = TRUE /\ proc' = "exited"
    /\ UNCHANGED <<variant, leg, sock, pending, sent, exiting, delivered>>
-----------------------------------------------------------------------------
(* The peers: the client of the local port and the far side (target host  *)
(* or serial device).  A serial line has no end of stream: it only fails. *)

PeerSend(e) ==
    /\ sock[e] = "open" /\ sent[e] < MaxChunks
    /\ pending' = [pending EXCEPT ![e] = @ + 1]
    /\ sent' = [sent EXCEPT ![e] = @ + 1]
    /\ UNCHANGED <<variant, proc, leg, sock, exiting, delivered, released>>

PeerClose(e) ==
    /\ sock[e] = "open" /\ (variant = "net" \/ e = "client")
    /\ sock' = [sock EXCEPT ![e] = "eof"]
    /\ UNCHANGED <<variant, proc, leg, pending, sent, exiting, delivered, released>>

PeerFail(e) ==
    /\ sock[e] = "open"
    /\ sock' = [sock EXCEPT ![e] = "err"]
    /\ UNCHANGED <<variant, proc, leg, pending, sent, exiting, delivered, released>>

\* the process has exited
Exited ==
    /\ proc = "exited"
    /\ UNCHANGED vars

-----------------------------------------------------------------------------

Init ==
    /\ variant \in Variants
    /\ proc = IF variant = "net" THEN "accepting" ELSE "opening"
    /\ leg = [g \in Legs |-> "idle"]
    /\ sock = [e \in Ends |-> "none"]
    /\ pending = [e \in Ends |-> 0]
    /\ sent = [e \in Ends |-> 0]
    /\ exiting = FALSE
    /\ delivered = [g \in Legs |-> 0]
    /\ released = FALSE

LegStep(g) == Recv(g) \/ Send(g) \/ Cleanup(g)

Server == OpenSerial \/ AcceptTimeout \/ Connect \/ Join \/ Release

Peers == AcceptClient \/ \E e \in Ends : PeerSend(e) \/ PeerClose(e) \/ PeerFail(e)

Next == (\E g \in Legs : LegStep(g)) \/ Server \/ Peers \/ Exited

\* Every thread is scheduled: each leg's reads time out (3 s on sockets,
\* the serial timeout on the port) so a leg never blocks for good, and
\* HOSTCONNECT bounds pinhole.py's accept.  Peers owe nothing: a client
\* may never connect, and nobody has to send or hang up.
Spec == Init /\ [][Next]_vars
        /\ \A g \in Legs : WF_vars(LegStep(g))
        /\ WF_vars(Server)

-----------------------------------------------------------------------------
TypeOK ==
    /\ variant \in Variants
    /\ proc \in {"opening", "accepting", "connecting", "relaying", "releasing", "exited"}
    /\ leg \in [Legs -> {"idle", "top", "got", "exit", "done"}]
    /\ sock \in [Ends -> EndStates]
    /\ pending \in [Ends -> 0..MaxChunks] /\ sent \in [Ends -> 0..MaxChunks]
    /\ delivered \in [Legs -> 0..MaxChunks]
    /\ exiting \in BOOLEAN /\ released \in BOOLEAN

\* Spec 4.4: the session is one-shot.  Once either endpoint of a running
\* tunnel is lost (the client hangs up or resets, the target host goes
\* away, the serial device fails), both legs end and the process
\* terminates, in pinhole.py after release_serial_connect.  The second leg learns of the first leg's end
\* only from the closed sockets or EXITING.
EndpointLossEndsRelay ==
    (proc = "relaying" /\ \E e \in Ends : sock[e] \in {"eof", "err"})
        ~> (proc = "exited")

\* Spec 4.4: a leg never ends while both endpoints are healthy: a socket
\* timeout is retried and an empty serial read is "no data yet".  A leg
\* starts its cleanup only when an endpoint is gone or EXITING is set.
LegEndsOnlyOnLoss ==
    [][\A g \in Legs :
         (leg[g] # "exit" /\ leg'[g] = "exit")
            => exiting \/ \E e \in Ends : sock[e] # "open"]_vars
====
