--------------------------- MODULE EadSupervisor ---------------------------
(***************************************************************************)
(* The main process of ead, the emergency access daemon                    *)
(* (package/network/services/ead/src/ead.c): it forks one server process   *)
(* for each interface, watches which bridge the interface belongs to, and  *)
(* replaces the server when that changes, because a server opens its       *)
(* capture handles once, on the bridge it was forked for.                  *)
(*                                                                         *)
(* Bridges are listed one after the other from sysfs, so a port that moves *)
(* meanwhile can be seen in two bridges or in none.                        *)
(***************************************************************************)
EXTENDS Naturals

CONSTANTS
  Instances,    \* the interfaces given with -d
  BridgeCount,  \* bridges of the system, in the order of their names
  MaxMoves      \* bound: how often a port changes its bridge or a server dies

ASSUME SupervisorAssumption == BridgeCount \in Nat /\ MaxMoves \in Nat

VARIABLES
  inst,    \* struct ead_instance of each interface, in the main process
  proc,    \* the server process of each interface
  port,    \* the bridge each interface belongs to
  sup,     \* where the main loop is
  moves    \* history: changes of port and deaths so far

svars == <<inst, proc, port, sup, moves>>

Bridges == 1 .. BridgeCount
NoBridge == 0
Dead == [alive |-> FALSE, bridge |-> NoBridge]

\* pid > 0 is all that the supervisor looks at.
InstanceRecords == [pid: BOOLEAN, bridge: Bridges \cup {NoBridge}, br_check: BOOLEAN]
Processes == [alive: BOOLEAN, bridge: Bridges \cup {NoBridge}]
Positions == [at: {"list", "sweep", "start", "exited"},
              bridge: Nat, todo: SUBSET Instances]

\* main calls start_servers before it looks at bridges for the first time.
SupInit ==
  /\ inst = [i \in Instances |-> [pid |-> FALSE, bridge |-> NoBridge, br_check |-> FALSE]]
  /\ proc = [i \in Instances |-> Dead]
  /\ port \in [Instances -> Bridges \cup {NoBridge}]
  /\ sup = [at |-> "start", bridge |-> 1, todo |-> Instances]
  /\ moves = 0

\* The processes after stop_server for every instance of S.  The signal of
\* their end changes nothing: server_handle_sigchld compares the status that
\* wait() stores, not a process id, with in->pid.
Stopped(S) == [i \in Instances |-> IF i \in S THEN Dead ELSE proc[i]]

\* Mutant: a port that changes its bridge keeps its old server.
ListKeepsServer ==
  /\ sup.at = "list" /\ sup.bridge \in Bridges
  /\ inst' = [i \in Instances |->
                IF port[i] = sup.bridge
                  THEN [inst[i] EXCEPT !.bridge = sup.bridge, !.br_check = TRUE]
                  ELSE inst[i]]
  /\ sup' = [sup EXCEPT !.bridge = @ + 1]
  /\ UNCHANGED <<proc, port, moves>>

\* check_bridge and check_bridge_port for the ports of one bridge.
check_bridge ==
  /\ sup.at = "list" /\ sup.bridge \in Bridges
  /\ LET ports == {i \in Instances : port[i] = sup.bridge}
         moved == {i \in ports : inst[i].bridge # sup.bridge}
     IN  /\ inst' = [i \in Instances |->
                       IF i \in ports
                         THEN [pid |-> inst[i].pid /\ i \notin moved,
                               bridge |-> sup.bridge, br_check |-> TRUE]
                         ELSE inst[i]]
         /\ proc' = Stopped(moved)
  /\ sup' = [sup EXCEPT !.bridge = @ + 1]
  /\ UNCHANGED <<port, moves>>

BridgesListed ==
  /\ sup.at = "list" /\ sup.bridge \notin Bridges
  /\ sup' = [sup EXCEPT !.at = "sweep"]
  /\ UNCHANGED <<inst, proc, port, moves>>

\* Mutant: br_check is set once and for all.
SweepKeepsCheck ==
  /\ sup.at = "sweep"
  /\ LET gone == {i \in Instances : ~inst[i].br_check /\ inst[i].bridge # NoBridge}
     IN  /\ inst' = [i \in Instances |->
                       IF i \in gone THEN [inst[i] EXCEPT !.pid = FALSE, !.bridge = NoBridge]
                                     ELSE inst[i]]
         /\ proc' = Stopped(gone)
  /\ sup' = [sup EXCEPT !.at = "start", !.todo = Instances]
  /\ UNCHANGED <<port, moves>>

\* The rest of check_all_interfaces: interfaces no bridge was found for.
Sweep ==
  /\ sup.at = "sweep"
  /\ LET gone == {i \in Instances : ~inst[i].br_check /\ inst[i].bridge # NoBridge}
     IN  /\ inst' = [i \in Instances |->
                       IF i \in gone
                         THEN [pid |-> FALSE, bridge |-> NoBridge, br_check |-> FALSE]
                         ELSE [inst[i] EXCEPT !.br_check = FALSE]]
         /\ proc' = Stopped(gone)
  /\ sup' = [sup EXCEPT !.at = "start", !.todo = Instances]
  /\ UNCHANGED <<port, moves>>

\* start_servers and start_server for one interface; where fork fails the
\* next pass tries again.
StartServer(i, fork) ==
  /\ sup.at = "start" /\ i \in sup.todo
  /\ sup' = [sup EXCEPT !.todo = @ \ {i}]
  /\ IF inst[i].pid \/ ~fork
       THEN UNCHANGED <<inst, proc>>
       ELSE /\ inst' = [inst EXCEPT ![i].pid = TRUE]
            /\ proc' = [proc EXCEPT ![i] = [alive |-> TRUE, bridge |-> inst[i].bridge]]
  /\ UNCHANGED <<port, moves>>

\* The pause of the main loop is over.  A pass that begins with every server in
\* its place, and during which no port moves, changes nothing and is left out.
NextPass ==
  /\ sup.at = "start" /\ sup.todo = {}
  /\ moves < MaxMoves \/ \E i \in Instances : ~inst[i].pid \/ inst[i].bridge # port[i]
  /\ sup' = [sup EXCEPT !.at = "list", !.bridge = 1]
  /\ UNCHANGED <<inst, proc, port, moves>>

\* server_handle_sigint: SIGINT or SIGTERM ends the daemon and its servers.
server_handle_sigint ==
  /\ sup.at # "exited"
  /\ sup' = [sup EXCEPT !.at = "exited", !.todo = {}]
  /\ proc' = Stopped(Instances)
  /\ inst' = [i \in Instances |-> [inst[i] EXCEPT !.pid = FALSE]]
  /\ UNCHANGED <<port, moves>>

\* The administrator moves an interface.
MovePort(i) ==
  /\ moves < MaxMoves /\ moves' = moves + 1
  /\ \E b \in (Bridges \cup {NoBridge}) \ {port[i]} : port' = [port EXCEPT ![i] = b]
  /\ UNCHANGED <<inst, proc, sup>>

\* A server ends without being told to.  Its record still says that it runs:
\* server_handle_sigchld, see Stopped, does not recognise it.
ServerDies(i) ==
  /\ proc[i].alive /\ moves < MaxMoves /\ moves' = moves + 1
  /\ proc' = Stopped({i})
  /\ UNCHANGED <<inst, port, sup>>

\* A server that receives what is broadcast on its interface.
Hears(i) == proc[i].alive /\ proc[i].bridge = port[i]

SupTypeOK ==
  /\ inst \in [Instances -> InstanceRecords] /\ proc \in [Instances -> Processes]
  /\ port \in [Instances -> Bridges \cup {NoBridge}]
  /\ sup \in Positions /\ moves \in 0 .. MaxMoves

\* check_bridge_port, start_server and stop_server: a server that runs is known
\* to the main process, and was opened for the bridge its record names.
RecordsTrue ==
  \A i \in Instances :
    proc[i].alive => inst[i].pid /\ proc[i].bridge = inst[i].bridge

\* check_all_interfaces and start_servers: once ports stop moving, every
\* interface gets a server on the bridge it is in, and keeps it -- unless the
\* server has died by itself since the port last moved.
FollowsBridge ==
  <>[](sup.at = "exited" \/ \A i \in Instances :
         Hears(i) \/ (inst[i].pid /\ ~proc[i].alive /\ inst[i].bridge = port[i]))
=============================================================================
