------------------------------ MODULE ParentLink ------------------------------
(***************************************************************************)
(* The websocket between the enclave process (WSClient, ParentClient) and  *)
(* the parent (WSServer, ParentServer): reconnection, calls, and the       *)
(* operator's shutdown signal, which travels as a file and then as an      *)
(* event (src/src/modules/ws-client.ts, ws-server.ts, parent-client.ts,    *)
(* src/src/parent/index.ts, src/src/enclave/index.ts).                     *)
(*                                                                         *)
(* Connections are numbered in the order the client opens them.  When one  *)
(* breaks, each side notices in its own time: the sockets meet over socat  *)
(* and vsock.  A client socket that fails before it opened emits "error",  *)
(* which WSClient does not listen to: that ends the process, as does a     *)
(* timed out call that nobody awaits; supervisord restarts it.             *)
(***************************************************************************)
EXTENDS Naturals

CONSTANTS
  MaxFaults,  \* bound: broken connections, dead processes
  MaxCalls    \* bound: calls made

ASSUME BoundAssumption == MaxFaults \in Nat /\ MaxCalls \in Nat

VARIABLES
  proc,     \* enclave process: "down", "up", "halting", "off"
  cli,      \* cli[i]: the client's socket: "none", "connecting", "open", "closed"
  srv,      \* srv[i]: the server's socket: "none", "open", "closed"
  broken,   \* connections that no longer carry anything
  wire,     \* connections with a shutdown event on its way
  cur,      \* WSClient.ws (0: none)
  opened,   \* WSClient.openPromise is resolved
  timer,    \* the reconnect timer of onclose is set
  ws,       \* ParentServer.ws (0: undefined)
  file,     \* the shutdown file exists
  call,     \* a call: [pc, conn]
  calls, faults,
  asked,    \* the operator asked for a shutdown
  hurt      \* a fault happened since then

client == <<cli, cur, opened, timer>>
server == <<srv, ws>>
vars == <<proc, client, server, broken, wire, file, call, calls, faults, asked,
          hurt>>

Conns  == 1..(MaxFaults + 1)
NoCall == [pc |-> "idle", conn |-> 0]

Init ==
  /\ proc = "down" /\ cli = [i \in Conns |-> "none"]
  /\ srv = [i \in Conns |-> "none"]
  /\ broken = {} /\ wire = {} /\ cur = 0 /\ opened = FALSE /\ timer = FALSE
  /\ ws = 0 /\ file = FALSE /\ call = NoCall /\ calls = 0 /\ faults = 0
  /\ asked = FALSE /\ hurt = FALSE

Fault == faults < MaxFaults /\ faults' = faults + 1 /\ hurt' = asked
NoFault == UNCHANGED <<faults, asked, hurt>>
-----------------------------------------------------------------------------
(* WSClient                                                                *)

Running == proc \in {"up", "halting"}

\* connect: a new socket and a new promise
Connect ==
  \E i \in Conns :
    /\ cli[i] = "none" /\ \A j \in Conns : j < i => cli[j] # "none"
    /\ cli' = [cli EXCEPT ![i] = "connecting"]
    /\ cur' = i /\ opened' = FALSE /\ timer' = FALSE

\* supervisord starts the process, startEnclave makes the client
Start ==
  /\ proc = "down" /\ proc' = "up" /\ Connect
  /\ UNCHANGED <<server, broken, wire, file, call, calls>> /\ NoFault

Reconnect ==
  /\ Running /\ timer /\ Connect
  /\ UNCHANGED <<proc, server, broken, wire, file, call, calls>> /\ NoFault

\* onopen: the promise resolves and the calls that awaited it go out
Open ==
  /\ Running /\ cur # 0 /\ cli[cur] = "connecting" /\ srv[cur] = "open"
  /\ cur \notin broken
  /\ cli' = [cli EXCEPT ![cur] = "open"] /\ opened' = TRUE
  /\ call' = IF call.pc = "wait" THEN [pc |-> "sent", conn |-> cur] ELSE call
  /\ UNCHANGED <<proc, cur, timer, server, broken, wire, file, calls>> /\ NoFault

\* Mutation: the socket that broke is tried again at once, beside the timer.
OnClose_Twice ==
  \E i \in Conns : /\ cli[i] = "none" /\ \A j \in Conns : j < i => cli[j] # "none"
                   /\ cli' = [cli EXCEPT ![cur] = "closed", ![i] = "connecting"]
                   /\ timer' = TRUE
\* Mutation: a lost connection is not opened again.
OnClose_NoTimer == cli' = [cli EXCEPT ![cur] = "closed"] /\ UNCHANGED timer
\* onclose of an open socket
OnClose == cli' = [cli EXCEPT ![cur] = "closed"] /\ timer' = TRUE
Close ==
  /\ Running /\ cur \in broken /\ cli[cur] = "open" /\ OnClose
  /\ UNCHANGED <<proc, cur, opened, server, broken, wire, file, call, calls>>
  /\ NoFault

\* The process ends: its socket goes with it.
Die ==
  /\ proc' = "down" /\ cur' = 0 /\ opened' = FALSE /\ timer' = FALSE
  /\ broken' = broken \cup {i \in Conns : cli[i] \in {"connecting", "open"}}
  /\ cli' = [i \in Conns |-> IF cli[i] = "none" THEN "none" ELSE "closed"]
  /\ call' = NoCall
  /\ UNCHANGED <<server, wire, file, calls>>

\* A connection attempt fails: an "error" without a listener.
ConnectFails ==
  /\ Running /\ cur \in broken /\ cli[cur] = "connecting" /\ Die /\ NoFault
Crash == Running /\ Fault /\ Die /\ UNCHANGED asked
-----------------------------------------------------------------------------
(* Calls                                                                   *)

\* send: wait for the promise, then hand the request to the socket, which
\* drops it silently when it is not open.
Call ==
  /\ proc = "up" /\ cur # 0 /\ call.pc = "idle" /\ calls < MaxCalls
  /\ calls' = calls + 1
  /\ call' = IF ~opened THEN [pc |-> "wait", conn |-> 0]
             ELSE [pc |-> IF cli[cur] = "open" THEN "sent" ELSE "lost",
                   conn |-> cur]
  /\ UNCHANGED <<proc, client, server, broken, wire, file>> /\ NoFault

\* handle replies on the connection of the request
Reply ==
  /\ call.pc = "sent" /\ call.conn \notin broken /\ srv[call.conn] = "open"
  /\ call' = NoCall
  /\ UNCHANGED <<proc, client, server, broken, wire, file, calls>> /\ NoFault

\* "Request timeout": caught by the caller, or an unhandled rejection
Timeout ==
  /\ call.pc \in {"sent", "lost"}
  /\ \/ call' = NoCall /\ NoFault
        /\ UNCHANGED <<proc, client, server, broken, wire, file, calls>>
     \/ Fault /\ Die /\ UNCHANGED asked
-----------------------------------------------------------------------------
(* ParentServer                                                            *)

\* onConnect, onConnected
Accept(i) ==
  /\ cli[i] = "connecting" /\ srv[i] = "none" /\ i \notin broken
  /\ srv' = [srv EXCEPT ![i] = "open"] /\ ws' = i
  /\ UNCHANGED <<proc, client, broken, wire, file, call, calls>> /\ NoFault

\* the close handler forgets the current socket, whichever socket closed
OnServerClose(i) == ws' = 0
ServerClose(i) ==
  /\ srv[i] = "open" /\ i \in broken
  /\ srv' = [srv EXCEPT ![i] = "closed"] /\ OnServerClose(i)
  /\ UNCHANGED <<proc, client, broken, wire, file, call, calls>> /\ NoFault

\* Mutation: the file is looked for, and left where it is.
Consume_Kept == UNCHANGED file
Consume == file' = FALSE
\* checkShutdown, every second
CheckShutdown ==
  /\ ws # 0 /\ file /\ Consume
  /\ wire' = wire \cup ({ws} \ broken)
  /\ UNCHANGED <<proc, client, server, broken, call, calls>> /\ NoFault

\* The parent process ends and is restarted by its supervisord.
ParentCrash ==
  /\ \E i \in Conns : srv[i] = "open"
  /\ Fault /\ ws' = 0
  /\ broken' = broken \cup {i \in Conns : srv[i] = "open"}
  /\ srv' = [i \in Conns |-> IF srv[i] = "open" THEN "closed" ELSE srv[i]]
  /\ UNCHANGED <<proc, client, wire, file, call, calls, asked>>
-----------------------------------------------------------------------------
(* The signal                                                              *)

\* shutdown-enclave.sh
Ask ==
  /\ proc # "off" /\ ~asked /\ asked' = TRUE /\ file' = TRUE
  /\ UNCHANGED <<proc, client, server, broken, wire, call, calls, faults, hurt>>

\* Mutation: the event is not understood.
OnShutdown_Ignored == UNCHANGED proc
OnShutdown == proc' = "halting"
\* onmessage, ParentClient.onEvent
Deliver ==
  /\ Running /\ cur \in wire \ broken /\ cli[cur] = "open"
  /\ wire' = wire \ {cur} /\ OnShutdown
  /\ UNCHANGED <<client, server, broken, file, call, calls>> /\ NoFault

\* the containers are down: supervisord ends everything
Halt ==
  /\ proc = "halting" /\ proc' = "off" /\ cur' = 0 /\ timer' = FALSE
  /\ opened' = FALSE /\ call' = NoCall
  /\ cli' = [i \in Conns |-> IF cli[i] = "none" THEN "none" ELSE "closed"]
  /\ broken' = broken \cup {i \in Conns : cli[i] \in {"connecting", "open"}}
  /\ UNCHANGED <<server, wire, file, calls>> /\ NoFault

\* A socat, or the vsock, drops a connection.
Break(i) ==
  /\ cli[i] \in {"connecting", "open"} /\ i \notin broken /\ Fault
  /\ broken' = broken \cup {i}
  /\ UNCHANGED <<proc, client, server, wire, file, call, calls, asked>>
-----------------------------------------------------------------------------
Link   == \/ Start \/ Reconnect \/ Open \/ Close \/ ConnectFails
          \/ \E i \in Conns : Accept(i)
Parent == CheckShutdown
Signal == Deliver \/ Halt
Next == \/ Link \/ Parent \/ Signal \/ Call \/ Reply \/ Timeout
        \/ Crash \/ ParentCrash \/ Ask
        \/ \E i \in Conns : ServerClose(i) \/ Break(i)
Spec == Init /\ [][Next]_vars

\* Timers run and connections that are not broken deliver; nothing is said
\* about when a side notices a broken connection, except that it does.
FairSpec == /\ Spec /\ WF_vars(Link) /\ WF_vars(Parent) /\ WF_vars(Signal)
            /\ WF_vars(Reply) /\ WF_vars(Timeout)
            /\ \A i \in Conns : WF_vars(ServerClose(i))
-----------------------------------------------------------------------------
TypeOK ==
  /\ proc \in {"down", "up", "halting", "off"}
  /\ cli \in [Conns -> {"none", "connecting", "open", "closed"}]
  /\ srv \in [Conns -> {"none", "open", "closed"}]
  /\ broken \subseteq Conns /\ wire \subseteq Conns
  /\ cur \in Conns \cup {0} /\ ws \in Conns \cup {0}
  /\ opened \in BOOLEAN /\ timer \in BOOLEAN /\ file \in BOOLEAN
  /\ asked \in BOOLEAN /\ hurt \in BOOLEAN
  /\ call \in [pc : {"idle", "wait", "sent", "lost"}, conn : Conns \cup {0}]
  /\ calls \in Nat /\ faults \in Nat

\* The reconnect timer and the sockets never give the client two links: at
\* most one socket is alive, it is the current one, and a running process
\* without one is about to connect (29-37).
OneLink ==
  /\ \A i \in Conns : cli[i] \in {"connecting", "open"} => i = cur
  /\ Running <=> cur # 0
  /\ Running => timer = (cli[cur] = "closed")

\* The parent never signals a connection it has seen close: its current socket
\* is one of those it holds open, across reconnects and its own restarts.
SignalsOpenSocket == ws # 0 => srv[ws] = "open"

\* The inductive invariant of the link.
IInv == TypeOK /\ OneLink /\ SignalsOpenSocket

\* One request of the operator stops the enclave at most once and nothing else
\* does: the signal is in one place, the file or a connection, and an enclave
\* that halts was asked to.
OneSignal ==
  /\ file \/ wire # {} \/ proc \in {"halting", "off"} => asked
  /\ \A i, j \in wire : i = j
  /\ file => wire = {} /\ proc \notin {"halting", "off"}

Connected == cur # 0 /\ cli[cur] = "open"
\* However connections break and processes die, the enclave comes back to an
\* open connection.
Reconnects == (proc = "up") ~> (Connected \/ proc = "off")

\* A shutdown asked for while the parent holds only sound connections is
\* carried out unless something fails afterwards: no timer, call or reconnect
\* loses the signal on the way.
Sound == ws # 0 /\ \A i \in Conns : srv[i] = "open" => i \notin broken
SoundLinkDelivers == (file /\ Sound) ~> (hurt \/ proc \in {"halting", "off"})

\* enclave/index.ts:52 "keep connection to receive shutdown events": a shutdown
\* asked for while the parent and the enclave hold the same, unbroken connection
\* is carried out unless something fails afterwards.
ShutdownIsDelivered ==
  (file /\ Connected /\ ws = cur /\ cur \notin broken)
    ~> (hurt \/ proc \in {"halting", "off"})
=============================================================================
