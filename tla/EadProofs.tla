----------------------------- MODULE EadProofs -----------------------------
(***************************************************************************)
(* Theorems about Ead for any number of clients and interfaces, any number *)
(* of lost, doubled and late datagrams, and a server that may be killed    *)
(* and forked again at any point: a command runs at most once and only for *)
(* a client that knows the password, what ead-client reports is true, no   *)
(* handler works on a session that is not open, and the last answer to a   *)
(* command follows its end.                                                *)
(***************************************************************************)
EXTENDS Ead, TLAPS

\* The session that the server is in is the last one opened, for a user that the
\* passwd file knows; B and the key are of it.
SessionInv ==
  /\ srv.ts <= last
  /\ srv.state >= GET_PRIME => srv.user = "root" /\ srv.ts = last /\ srv.ts > 0
  /\ srv.state >= SEND_A => srv.B = srv.ts
  /\ srv.state >= SEND_AUTH => srv.key.b = srv.ts /\ srv.key.v = "root"

\* The number of a session whose B has left the server: not of the present one,
\* as long as that has not derived its key.
Revealed(b) == b <= last /\ (srv.state \in {GET_PRIME, SEND_A} => b < last)

\* While a command is streamed, it is one that was started, and child_pending is
\* reset when it has ended, or by another child.  tv is set for the first tick only.
StreamInv ==
  /\ srv.pc # "loop" => srv.cur \in Clients /\ kid[srv.cur].runs >= 1
  /\ srv.pc # "loop" /\ ~srv.child_pending => srv.foreign \/ kid[srv.cur].st # "running"
  /\ srv.tv = 1 => srv.elapsed = 0
  /\ srv.pc = "select" /\ srv.elapsed = CmdTimeout => srv.tv = 0 /\ srv.burst = 0

\* A command that was not started has written nothing.
ChildInv ==
  \A c \in Clients :
    /\ kid[c].runs = 0 => kid[c].st = "none" /\ kid[c].pipe = 0 /\ kid[c].out = 0
    /\ kid[c].st = "running" => kid[c].pipe <= kid[c].out

\* A client's key stands for what it knows.
ClientInv ==
  \A c \in Clients :
    cli[c].pc \in {"auth", "cmd"} =>
      cli[c].key.v = Verifier(cli[c].cred) /\ Revealed(cli[c].key.b)

CmdSent(c) == cli[c].pc \in {"cmd", "ok", "failed"}

\* The command of a client runs only after the client has asked for it.
StartedInv == \A c \in Clients : kid[c].runs >= 1 => CmdSent(c)

\* What a datagram says of the one that sent it.
Truthful(m) ==
  /\ m.type = Answer(SEND_A) => Revealed(m.b)
  /\ m.type = Answer(SEND_AUTH) => m.key.v = "root"
  /\ m.type = Answer(SEND_CMD) => kid[m.cl].runs >= 1
  /\ m.type = SEND_CMD =>
       m.key.v = Verifier(cli[m.cl].cred) /\ Revealed(m.key.b) /\ CmdSent(m.cl)

NetInv == \A m \in net : Truthful(m)

\* A client's request to run its command, and the one that has had its effect: its
\* counter is behind the server's for as long as the server has its key, and no
\* later session has it.
IsCmd(m, c) == m.type = SEND_CMD /\ m.cl = c
Spent(m) == srv.state >= SEND_AUTH /\ srv.key = m.key => m.iv <= srv.rx_iv

CmdInv ==
  \A c \in Clients :
    /\ \A m1, m2 \in net : IsCmd(m1, c) /\ IsCmd(m2, c) => m1 = m2
    /\ kid[c].runs >= 1 => \A m \in net : IsCmd(m, c) => Spent(m)

\* RecordsTrue is an invariant of the supervisor by itself.
IndInv ==
  /\ TypeOK /\ RecordsTrue /\ SessionInv /\ StreamInv /\ ChildInv /\ ClientInv
  /\ StartedInv /\ NetInv /\ CmdInv /\ RunsOnce /\ SuccessIsTrue

-----------------------------------------------------------------------------
(* The supervisor.                                                         *)

SupInv == SupTypeOK /\ RecordsTrue

\* What it records, forks and stops are records and processes.
LEMMA SupValues ==
  /\ Dead \in Processes /\ ~Dead.alive
  /\ \A b \in Bridges \cup {NoBridge} : [alive |-> TRUE, bridge |-> b] \in Processes
  /\ NoBridge \in Bridges \cup {NoBridge}
BY DEF Dead, Processes

\* stop_server ends the servers it is called for and no others.
LEMMA StoppedServers ==
  ASSUME SupTypeOK, NEW S, proc' = Stopped(S)
  PROVE  /\ proc' \in [Instances -> Processes]
         /\ \A i \in Instances : proc'[i].alive => i \notin S /\ proc'[i] = proc[i]
BY SupValues DEF SupTypeOK, Stopped

\* check_bridge: a server whose interface moved to the bridge is stopped as the
\* record is changed.
LEMMA CheckBridgeSup == SupInv /\ check_bridge => SupInv'
<1> SUFFICES ASSUME SupInv, check_bridge PROVE SupInv'
  OBVIOUS
<1> DEFINE ports == {i \in Instances : port[i] = sup.bridge}
           moved == {i \in ports : inst[i].bridge # sup.bridge}
<1>1. /\ sup.at = "list" /\ sup.bridge \in Bridges /\ proc' = Stopped(moved)
      /\ inst' = [i \in Instances |->
                    IF i \in ports
                      THEN [pid |-> inst[i].pid /\ i \notin moved,
                            bridge |-> sup.bridge, br_check |-> TRUE]
                      ELSE inst[i]]
      /\ sup' = [sup EXCEPT !.bridge = @ + 1] /\ UNCHANGED <<port, moves>>
  BY DEF check_bridge
<1>2. SupTypeOK
  BY DEF SupInv
<1>3. /\ proc' \in [Instances -> Processes]
      /\ \A i \in Instances : proc'[i].alive => i \notin moved /\ proc'[i] = proc[i]
  BY <1>1, <1>2, StoppedServers
<1>4. \A i \in Instances :
        [pid |-> inst[i].pid /\ i \notin moved, bridge |-> sup.bridge, br_check |-> TRUE]
          \in InstanceRecords
  BY <1>1, <1>2 DEF SupTypeOK, InstanceRecords
<1>5. inst' \in [Instances -> InstanceRecords]
  BY <1>1, <1>2, <1>4 DEF SupTypeOK
<1>6. sup' \in Positions
  BY <1>1, <1>2 DEF SupTypeOK, Positions
<1>7. SupTypeOK'
  BY <1>1, <1>2, <1>3, <1>5, <1>6 DEF SupTypeOK
<1>8. RecordsTrue'
  <2> SUFFICES ASSUME NEW i \in Instances, proc'[i].alive
               PROVE  inst'[i].pid /\ proc'[i].bridge = inst'[i].bridge
    BY DEF RecordsTrue
  <2>1. i \notin moved /\ proc[i].alive /\ inst[i].pid /\ proc[i].bridge = inst[i].bridge
        /\ proc'[i] = proc[i]
    BY <1>3 DEF SupInv, RecordsTrue
  <2> QED BY <1>1, <2>1
<1> QED BY <1>7, <1>8 DEF SupInv

\* Sweep: a server whose interface is in no bridge any more is stopped.
LEMMA SweepSup == SupInv /\ Sweep => SupInv'
<1> SUFFICES ASSUME SupInv, Sweep PROVE SupInv'
  OBVIOUS
<1> DEFINE gone == {i \in Instances : ~inst[i].br_check /\ inst[i].bridge # NoBridge}
<1>1. /\ proc' = Stopped(gone)
      /\ inst' = [i \in Instances |->
                    IF i \in gone
                      THEN [pid |-> FALSE, bridge |-> NoBridge, br_check |-> FALSE]
                      ELSE [inst[i] EXCEPT !.br_check = FALSE]]
      /\ sup' = [sup EXCEPT !.at = "start", !.todo = Instances]
      /\ UNCHANGED <<port, moves>>
  BY DEF Sweep
<1>2. SupTypeOK
  BY DEF SupInv
<1>3. /\ proc' \in [Instances -> Processes]
      /\ \A i \in Instances : proc'[i].alive => i \notin gone /\ proc'[i] = proc[i]
  BY <1>1, <1>2, StoppedServers
<1>4. /\ [pid |-> FALSE, bridge |-> NoBridge, br_check |-> FALSE] \in InstanceRecords
      /\ \A i \in Instances :
           /\ [inst[i] EXCEPT !.br_check = FALSE] \in InstanceRecords
           /\ [inst[i] EXCEPT !.br_check = FALSE].pid = inst[i].pid
           /\ [inst[i] EXCEPT !.br_check = FALSE].bridge = inst[i].bridge
  BY <1>2 DEF SupTypeOK, InstanceRecords
<1>5. inst' \in [Instances -> InstanceRecords]
  BY <1>1, <1>4
<1>6. sup' \in Positions
  BY <1>1, <1>2 DEF SupTypeOK, Positions
<1>7. SupTypeOK'
  BY <1>1, <1>2, <1>3, <1>5, <1>6 DEF SupTypeOK
<1>8. RecordsTrue'
  <2> SUFFICES ASSUME NEW i \in Instances, proc'[i].alive
               PROVE  inst'[i].pid /\ proc'[i].bridge = inst'[i].bridge
    BY DEF RecordsTrue
  <2>1. i \notin gone /\ proc[i].alive /\ inst[i].pid /\ proc[i].bridge = inst[i].bridge
        /\ proc'[i] = proc[i]
    BY <1>3 DEF SupInv, RecordsTrue
  <2> QED BY <1>1, <1>4, <2>1
<1> QED BY <1>7, <1>8 DEF SupInv

\* StartServer: a server that is forked is recorded, with the bridge it opens.
LEMMA StartServerSup ==
  ASSUME NEW i \in Instances, NEW fork \in BOOLEAN PROVE SupInv /\ StartServer(i, fork) => SupInv'
<1> SUFFICES ASSUME SupInv, StartServer(i, fork) PROVE SupInv'
  OBVIOUS
<1>1. sup' = [sup EXCEPT !.todo = @ \ {i}] /\ UNCHANGED <<port, moves>>
  BY DEF StartServer
<1>2. SupTypeOK
  BY DEF SupInv
<1>3. sup' \in Positions
  BY <1>1, <1>2 DEF SupTypeOK, Positions
<1>4. CASE UNCHANGED <<inst, proc>>
  <2>1. SupTypeOK'
    BY <1>1, <1>2, <1>3, <1>4 DEF SupTypeOK
  <2>2. RecordsTrue'
    BY <1>4 DEF SupInv, RecordsTrue
  <2> QED BY <2>1, <2>2 DEF SupInv
<1>5. CASE /\ inst' = [inst EXCEPT ![i].pid = TRUE]
           /\ proc' = [proc EXCEPT ![i] = [alive |-> TRUE, bridge |-> inst[i].bridge]]
  <2>1. /\ inst' \in [Instances -> InstanceRecords]
        /\ inst'[i].pid = TRUE /\ inst'[i].bridge = inst[i].bridge
        /\ \A j \in Instances \ {i} : inst'[j] = inst[j]
    BY <1>2, <1>5 DEF SupTypeOK, InstanceRecords
  <2>2. inst[i].bridge \in Bridges \cup {NoBridge}
    BY <1>2 DEF SupTypeOK, InstanceRecords
  <2>3. /\ proc' \in [Instances -> Processes] /\ proc'[i].bridge = inst[i].bridge
        /\ \A j \in Instances \ {i} : proc'[j] = proc[j]
    BY <1>2, <1>5, <2>2, SupValues DEF SupTypeOK
  <2>4. SupTypeOK'
    BY <1>1, <1>2, <1>3, <2>1, <2>3 DEF SupTypeOK
  <2>5. RecordsTrue'
    BY <2>1, <2>3 DEF SupInv, RecordsTrue
  <2> QED BY <2>4, <2>5 DEF SupInv
<1> QED BY <1>4, <1>5 DEF StartServer

\* server_handle_sigint stops all servers.
LEMMA SigintSup == SupInv /\ server_handle_sigint => SupInv'
<1> SUFFICES ASSUME SupInv, server_handle_sigint PROVE SupInv'
  OBVIOUS
<1>1. /\ sup' = [sup EXCEPT !.at = "exited", !.todo = {}] /\ proc' = Stopped(Instances)
      /\ inst' = [i \in Instances |-> [inst[i] EXCEPT !.pid = FALSE]]
      /\ UNCHANGED <<port, moves>>
  BY DEF server_handle_sigint
<1>2. SupTypeOK
  BY DEF SupInv
<1>3. inst' \in [Instances -> InstanceRecords]
  BY <1>1, <1>2 DEF SupTypeOK, InstanceRecords
<1>4. sup' \in Positions
  BY <1>1, <1>2 DEF SupTypeOK, Positions
<1>5. proc' \in [Instances -> Processes] /\ \A i \in Instances : ~proc'[i].alive
  BY <1>1, <1>2, StoppedServers
<1>6. SupTypeOK'
  BY <1>1, <1>2, <1>3, <1>4, <1>5 DEF SupTypeOK
<1> QED BY <1>5, <1>6 DEF SupInv, RecordsTrue

\* The other steps of the supervisor, of the administrator, and a server that dies.
LEMMA OtherSup ==
  ASSUME SupInv,
         \/ BridgesListed \/ NextPass
         \/ \E i \in Instances : MovePort(i) \/ ServerDies(i)
  PROVE  SupInv'
<1>1. SupTypeOK
  BY DEF SupInv
<1>2. CASE BridgesListed \/ NextPass
  <2>1. sup' \in {[sup EXCEPT !.at = "sweep"], [sup EXCEPT !.at = "list", !.bridge = 1]}
        /\ UNCHANGED <<inst, proc, port, moves>>
    BY <1>2 DEF BridgesListed, NextPass
  <2>2. sup' \in Positions
    <3>1. /\ [sup EXCEPT !.at = "sweep"] \in Positions
          /\ [sup EXCEPT !.at = "list", !.bridge = 1] \in Positions
      BY <1>1 DEF SupTypeOK, Positions
    <3> QED BY <2>1, <3>1
  <2> QED BY <1>1, <2>1, <2>2 DEF SupInv, SupTypeOK, RecordsTrue
<1>3. ASSUME NEW i \in Instances, MovePort(i) PROVE SupInv'
  <2>1. moves' \in 0 .. MaxMoves
    BY <1>1, <1>3, SupervisorAssumption DEF MovePort, SupTypeOK
  <2>2. port' \in [Instances -> Bridges \cup {NoBridge}]
    BY <1>1, <1>3 DEF MovePort, SupTypeOK
  <2>3. UNCHANGED <<inst, proc, sup>>
    BY <1>3 DEF MovePort
  <2> QED BY <1>1, <2>1, <2>2, <2>3 DEF SupInv, SupTypeOK, RecordsTrue
<1>4. ASSUME NEW i \in Instances, ServerDies(i) PROVE SupInv'
  <2>1. moves' \in 0 .. MaxMoves
    BY <1>1, <1>4, SupervisorAssumption DEF ServerDies, SupTypeOK
  <2>2. UNCHANGED <<inst, port, sup>> /\ proc' = Stopped({i})
    BY <1>4 DEF ServerDies
  <2>3. /\ proc' \in [Instances -> Processes]
        /\ \A j \in Instances : proc'[j].alive => proc'[j] = proc[j]
    BY <1>1, <2>2, StoppedServers
  <2>4. SupTypeOK'
    BY <1>1, <2>1, <2>2, <2>3 DEF SupTypeOK
  <2>5. RecordsTrue'
    BY <2>2, <2>3 DEF SupInv, RecordsTrue
  <2> QED BY <2>4, <2>5 DEF SupInv
<1> QED BY <1>2, <1>3, <1>4

\* The invariant of the supervisor holds when it starts.
LEMMA SupInvInit == SupInit => SupInv
<1> SUFFICES ASSUME SupInit PROVE SupInv
  OBVIOUS
<1>1. inst \in [Instances -> InstanceRecords] /\ proc \in [Instances -> Processes]
  BY SupValues DEF SupInit, InstanceRecords
<1>2. sup \in Positions /\ moves \in 0 .. MaxMoves
  BY SupervisorAssumption DEF SupInit, Positions
<1>3. \A i \in Instances : ~proc[i].alive
  BY SupValues DEF SupInit
<1> QED BY <1>1, <1>2, <1>3 DEF SupInit, SupInv, SupTypeOK, RecordsTrue

-----------------------------------------------------------------------------
(* What the actions of the protocol have in common.                        *)

USE DEF PING, SET_USERNAME, GET_PRIME, SEND_A, SEND_AUTH, SEND_CMD, Answer

\* The fields of a key that two ends compare.
LEMMA KeyFields ==
  /\ NoKey \in Keys
  /\ \A k \in Keys : k.b \in Nat
BY DEF NoKey, Keys

\* Message: a datagram with nothing in it but its type.
LEMMA MessageFields ==
  ASSUME NEW type \in 0 .. 11, NEW c \in Clients
  PROVE  LET m == Message(type, c)
         IN  /\ m \in Messages /\ m.type = type /\ m.cl = c /\ m.b = 0 /\ m.key = NoKey
             /\ m.iv = 0 /\ ~m.done
BY KeyFields DEF Message, Messages, EadKinds

\* The counters of a server, and where it is.
LEMMA ServerFields ==
  ASSUME TypeOK
  PROVE  /\ srv.state \in States /\ srv.ts \in Nat /\ srv.B \in Nat /\ last \in Nat
         /\ srv.key \in Keys /\ srv.key.b \in Nat /\ srv.rx_iv \in Nat /\ srv.tx_iv \in Nat
         /\ srv.elapsed \in 0 .. CmdTimeout /\ srv.tv \in {0, 1} /\ srv.burst \in Nat
BY KeyFields DEF TypeOK, Servers

\* The counts of a client's command.
LEMMA ChildFields ==
  ASSUME TypeOK, NEW c \in Clients
  PROVE  /\ kid[c] \in Children /\ kid[c].runs \in Nat
         /\ kid[c].pipe \in 0 .. MaxOutput /\ kid[c].out \in 0 .. MaxOutput
BY DEF TypeOK, Children

\* The numbers in a datagram.
LEMMA MessageNumbers ==
  ASSUME TypeOK, NEW m \in net
  PROVE  /\ m \in Messages /\ m.type \in 0 .. 11 /\ m.cl \in Clients /\ m.b \in Nat
         /\ m.key \in Keys /\ m.key.b \in Nat /\ m.iv \in Nat
         /\ m.kind \in EadKinds
<1>1. m \in Messages
  BY DEF TypeOK
<1>2. /\ m.cl \in Clients /\ m.b \in Nat /\ m.key \in Keys /\ m.iv \in Nat
      /\ m.kind \in EadKinds
  BY <1>1 DEF Messages
<1>3. m.type \in 0 .. 11
  <2>1. m.type \in 0 .. Answer(SEND_CMD)
    BY <1>1, Zenon DEF Messages
  <2> QED BY <2>1
<1> QED BY <1>1, <1>2, <1>3, KeyFields

\* The password is what makes a client's key the server's.
LEMMA VerifierRoot ==
  ASSUME TypeOK, NEW c \in Clients, Verifier(cli[c].cred) = "root"
  PROVE  cli[c].cred = "right"
<1>1. cli[c].cred \in {"right", "wrong", "stranger"}
  BY EadAssumption DEF TypeOK, ClientRecords
<1> QED BY <1>1 DEF Verifier

\* Datagrams stay truthful while sessions, commands and clients only go forward.
LEMMA NetKept ==
  ASSUME TypeOK, TypeOK', NetInv, NEW A, net' \subseteq net \cup A,
         \A m \in A : Truthful(m)',
         \A b \in Nat : Revealed(b) => Revealed(b)',
         \A c \in Clients : /\ kid[c].runs >= 1 => kid'[c].runs >= 1
                            /\ CmdSent(c) => CmdSent(c)' /\ cli'[c].cred = cli[c].cred
  PROVE  NetInv'
<1> SUFFICES ASSUME NEW m \in net PROVE Truthful(m)'
  BY DEF NetInv
<1>1. Truthful(m)
  BY DEF NetInv
<1>2. m.cl \in Clients /\ m.b \in Nat /\ m.key.b \in Nat
  BY MessageNumbers
<1> QED BY <1>1, <1>2 DEF Truthful

\* No command is requested twice, and one that has run stays spent.
LEMMA CmdKept ==
  ASSUME CmdInv, NEW A, net' \subseteq net \cup A, \A m \in A : m.type # SEND_CMD,
         \A c \in Clients : kid'[c].runs >= 1 => kid[c].runs >= 1,
         \A m \in net : m.type = SEND_CMD /\ Spent(m) => Spent(m)'
  PROVE  CmdInv'
BY DEF CmdInv, IsCmd

\* A client's key is of a session that has been revealed, and stays so.
LEMMA ClientKept ==
  ASSUME TypeOK, ClientInv, UNCHANGED cli, \A b \in Nat : Revealed(b) => Revealed(b)'
  PROVE  ClientInv'
<1> SUFFICES ASSUME NEW c \in Clients, cli[c].pc \in {"auth", "cmd"}
             PROVE  cli[c].key.v = Verifier(cli[c].cred) /\ Revealed(cli[c].key.b)'
  BY DEF ClientInv
<1>1. cli[c].key.b \in Nat
  BY KeyFields DEF TypeOK, ClientRecords
<1> QED BY <1>1 DEF ClientInv

\* What a step that leaves the server's session, the clients and their commands
\* alone may do to the network: take datagrams away, and add truthful ones.
LEMMA AnswerStep ==
  ASSUME IndInv, TypeOK', NEW A, net' \subseteq net \cup A,
         \A m \in A : m.type # SEND_CMD /\ Truthful(m)',
         UNCHANGED <<inst, proc, cli, kid>>,
         SessionInv', StreamInv', \A b \in Nat : Revealed(b) => Revealed(b)',
         \A m \in net : m.type = SEND_CMD /\ Spent(m) => Spent(m)'
  PROVE  IndInv'
<1>1. NetInv'
  BY NetKept DEF IndInv, CmdSent
<1>2. CmdInv'
  BY CmdKept DEF IndInv
<1>3. ClientInv'
  BY ClientKept DEF IndInv
<1>4. RecordsTrue' /\ ChildInv' /\ StartedInv' /\ RunsOnce' /\ SuccessIsTrue'
  BY DEF IndInv, RecordsTrue, ChildInv, StartedInv, CmdSent, RunsOnce, SuccessIsTrue
<1> QED BY <1>1, <1>2, <1>3, <1>4 DEF IndInv

\* Only a datagram is lost.
LEMMA LossStep ==
  ASSUME IndInv, net' \subseteq net, faults' \in 0 .. MaxFaults,
         UNCHANGED <<svars, srv, cli, kid, last>>
  PROVE  IndInv'
<1>1. UNCHANGED <<inst, proc, port, sup, moves>>
  BY DEF svars
<1>2. TypeOK'
  BY <1>1 DEF IndInv, TypeOK, SupTypeOK
<1>3. SessionInv' /\ StreamInv'
  BY DEF IndInv, SessionInv, StreamInv
<1>4. \A b : Revealed(b) => Revealed(b)'
  BY DEF Revealed
<1>5. \A m : Spent(m) => Spent(m)'
  BY DEF Spent
<1> DEFINE none == {}
<1>6. net' \subseteq net \cup none /\ \A m \in none : m.type # SEND_CMD /\ Truthful(m)'
  OBVIOUS
<1> HIDE DEF none
<1> QED BY <1>1, <1>2, <1>3, <1>4, <1>5, <1>6, AnswerStep

-----------------------------------------------------------------------------
(* The server: requests.                                                   *)

\* The variables of handle_send_cmd's loop.
SameLoop(s) ==
  /\ s.pc = srv.pc /\ s.child_pending = srv.child_pending /\ s.cur = srv.cur
  /\ s.elapsed = srv.elapsed /\ s.tv = srv.tv /\ s.burst = srv.burst /\ s.foreign = srv.foreign

\* set_state changes the state and the session of a server.
Moved(s, n, t) == [[s EXCEPT !.state = n] EXCEPT !.ts = t]

\* That is all it changes when it closes a session or opens one.
LEMMA SessionMoves ==
  ASSUME NEW s \in Servers, NEW n \in States, NEW t \in Nat
  PROVE  /\ Moved(s, n, t) \in Servers /\ Moved(s, n, t).state = n /\ Moved(s, n, t).ts = t
         /\ Moved(s, n, t).user = s.user /\ Moved(s, n, t).B = s.B
         /\ Moved(s, n, t).key = s.key /\ Moved(s, n, t).rx_iv = s.rx_iv
         /\ SameLoop(s) => SameLoop(Moved(s, n, t))
<1>1. Moved(s, n, t) \in Servers
  BY DEF Servers, Moved
<1> QED BY <1>1 DEF Servers, SameLoop, Moved

\* set_state and handle_set_username: any session is closed, and one is opened for
\* a user that the passwd file knows.
LEMMA SetUsername ==
  ASSUME TypeOK, NEW m \in net
  PROVE  LET s == handle_set_username(m).s
         IN  /\ s \in Servers /\ SameLoop(s) /\ s.user = m.user
             /\ \/ s.state = GET_PRIME /\ s.user = "root" /\ s.ts = last + 1
                \/ s.state = SET_USERNAME /\ s.ts \in {0, srv.ts}
             /\ s.key = srv.key /\ s.rx_iv = srv.rx_iv
<1> DEFINE back == set_state(srv, SET_USERNAME)
           named == [back EXCEPT !.user = m.user]
<1>1. srv \in Servers /\ last + 1 \in Nat /\ m.user \in {"none", "root", "stranger"}
  <2>1. m \in Messages
    BY DEF TypeOK
  <2>2. m.user \in {"none", "root", "stranger"}
    BY <2>1 DEF Messages
  <2>3. srv \in Servers /\ last \in Nat
    BY DEF TypeOK
  <2> QED BY <2>2, <2>3
<1>2. /\ back \in Servers /\ back.state = SET_USERNAME /\ back.ts \in {0, srv.ts}
      /\ SameLoop(back) /\ back.key = srv.key /\ back.rx_iv = srv.rx_iv
  <2>1. srv.state \in States
    BY <1>1 DEF Servers
  <2>2. SET_USERNAME \in States /\ SameLoop(srv)
    BY DEF States, SameLoop
  <2>3. CASE srv.state = SET_USERNAME
    <3>1. back = srv
      BY <2>3 DEF set_state
    <3> QED BY <1>1, <2>2, <2>3, <3>1
  <2>4. CASE srv.state # SET_USERNAME
    <3>1. SET_USERNAME < srv.state /\ srv.state >= GET_PRIME /\ SET_USERNAME < GET_PRIME
      BY <2>1, <2>4 DEF States
    <3>2. back = Moved(srv, SET_USERNAME, 0)
      BY <2>4, <3>1 DEF set_state, Goto, Moved
    <3> QED BY <1>1, <2>2, <3>2, SessionMoves
  <2> QED BY <2>3, <2>4
<1> HIDE DEF back
<1>3. /\ named \in Servers /\ named.state = SET_USERNAME /\ named.ts \in {0, srv.ts}
      /\ SameLoop(named) /\ named.key = srv.key /\ named.rx_iv = srv.rx_iv
      /\ named.user = m.user
  BY <1>1, <1>2 DEF SameLoop, Servers
<1> HIDE DEF named
<1>4. handle_set_username(m).s = set_state(named, GET_PRIME)
  BY DEF handle_set_username, Handled, named, back
<1>5. set_state(named, GET_PRIME) =
        IF named.user = "root" THEN Moved(named, GET_PRIME, last + 1) ELSE named
  BY <1>3 DEF set_state, Goto, Moved
<1>6. CASE named.user = "root"
  <2>1. GET_PRIME \in States
    BY DEF States
  <2>2. PICK t \in Nat : t = last + 1
    BY <1>1
  <2>3. handle_set_username(m).s = Moved(named, GET_PRIME, t)
    BY <1>4, <1>5, <1>6, <2>2
  <2>4. /\ Moved(named, GET_PRIME, t) \in Servers /\ Moved(named, GET_PRIME, t).ts = t
        /\ Moved(named, GET_PRIME, t).state = GET_PRIME
        /\ Moved(named, GET_PRIME, t).user = named.user
        /\ Moved(named, GET_PRIME, t).key = named.key
        /\ Moved(named, GET_PRIME, t).rx_iv = named.rx_iv
        /\ SameLoop(Moved(named, GET_PRIME, t))
    BY <1>3, <2>1, SessionMoves
  <2> QED BY <1>3, <1>6, <2>2, <2>3, <2>4
<1>7. CASE named.user # "root"
  BY <1>3, <1>4, <1>5, <1>7
<1> QED BY <1>6, <1>7

\* set_state and handle_get_prime: B is drawn for the open session.
LEMMA GetPrime ==
  ASSUME TypeOK, NEW m \in net, srv.state = GET_PRIME
  PROVE  LET s == handle_get_prime(m).s
         IN  /\ s \in Servers /\ SameLoop(s) /\ s.user = srv.user
             /\ s.state = SEND_A /\ s.ts = srv.ts /\ s.B = srv.ts
             /\ s.key = srv.key /\ s.rx_iv = srv.rx_iv
<1>1. srv \in Servers /\ srv.ts \in Nat
  BY DEF TypeOK, Servers
<1>2. handle_get_prime(m).s = [[srv EXCEPT !.state = SEND_A] EXCEPT !.B = srv.ts]
  BY DEF handle_get_prime, Handled, set_state, Goto
<1> QED BY <1>1, <1>2 DEF SameLoop, Servers, States

\* set_state and handle_send_a: the key is derived, and the counters begin.
LEMMA SendA ==
  ASSUME TypeOK, NEW m \in net, srv.state = SEND_A, srv.user = "root"
  PROVE  LET s == handle_send_a(m).s
         IN  /\ s \in Servers /\ SameLoop(s) /\ s.user = srv.user
             /\ s.state = SEND_AUTH /\ s.ts = srv.ts /\ s.B = srv.B
             /\ s.key.b = srv.B /\ s.key.v = "root" /\ s.rx_iv = 0
<1> DEFINE first == [srv EXCEPT !.key = [NoKey EXCEPT !.a = m.cl]]
           key == [a |-> m.cl, b |-> srv.B, v |-> "root"]
<1>1. srv \in Servers /\ srv.B \in Nat /\ m.cl \in Clients
  BY MessageNumbers DEF TypeOK, Servers
<1>2. key \in Keys /\ key.b = srv.B /\ key.v = "root"
  BY <1>1 DEF Keys
<1>3. handle_send_a(m).s = set_state(first, SEND_AUTH)
  BY DEF handle_send_a, Handled
<1>4. first.state = SEND_A /\ first.key.a = m.cl /\ first.B = srv.B /\ first.user = "root"
  BY <1>1 DEF Servers, NoKey
<1> HIDE DEF first
<1>5. set_state(first, SEND_AUTH) =
        [[first EXCEPT !.state = SEND_AUTH]
           EXCEPT !.key = [a |-> first.key.a, b |-> first.B, v |-> first.user],
                  !.rx_iv = 0, !.tx_iv = 0]
  BY <1>4 DEF set_state, Goto
<1>6. set_state(first, SEND_AUTH) =
        [[first EXCEPT !.state = SEND_AUTH] EXCEPT !.key = key, !.rx_iv = 0, !.tx_iv = 0]
  BY <1>4, <1>5
<1> HIDE DEF key
<1>7. set_state(first, SEND_AUTH) =
        [srv EXCEPT !.state = SEND_AUTH, !.key = key, !.rx_iv = 0, !.tx_iv = 0]
  BY <1>1, <1>6 DEF Servers, first
<1>8. [srv EXCEPT !.state = SEND_AUTH, !.key = key, !.rx_iv = 0, !.tx_iv = 0] \in Servers
  BY <1>1, <1>2 DEF Servers, States
<1> DEFINE s == handle_send_a(m).s
<1>9. s = [srv EXCEPT !.state = SEND_AUTH, !.key = key, !.rx_iv = 0, !.tx_iv = 0]
  BY <1>3, <1>7
<1> HIDE DEF s
<1>10. s \in Servers /\ s.state = SEND_AUTH /\ s.key = key /\ s.rx_iv = 0
  BY <1>1, <1>8, <1>9 DEF Servers
<1>11. SameLoop(s) /\ s.user = srv.user /\ s.ts = srv.ts /\ s.B = srv.B
  BY <1>1, <1>9 DEF Servers, SameLoop
<1> QED BY <1>2, <1>10, <1>11 DEF s

\* set_state and handle_send_auth: the proof is accepted, or the session closed.
LEMMA SendAuth ==
  ASSUME TypeOK, NEW m \in net, srv.state = SEND_AUTH
  PROVE  LET s == handle_send_auth(m).s
         IN  /\ s \in Servers /\ SameLoop(s) /\ s.user = srv.user /\ s.B = srv.B
             /\ \/ s.state = SEND_CMD /\ s.ts = srv.ts
                \/ s.state = SET_USERNAME /\ s.ts = 0
             /\ s.key = srv.key /\ s.rx_iv = srv.rx_iv
<1>1. srv \in Servers
  BY DEF TypeOK
<1>2. handle_send_auth(m).s \in {[srv EXCEPT !.state = SEND_CMD],
                                 Moved(srv, SET_USERNAME, 0)}
  BY DEF handle_send_auth, Handled, set_state, Goto, Moved
<1>3. CASE handle_send_auth(m).s = [srv EXCEPT !.state = SEND_CMD]
  <2> DEFINE s == handle_send_auth(m).s
  <2>1. s = [srv EXCEPT !.state = SEND_CMD]
    BY <1>3
  <2> HIDE DEF s
  <2>2. s \in Servers /\ s.state = SEND_CMD /\ s.key = srv.key /\ s.rx_iv = srv.rx_iv
    BY <1>1, <2>1 DEF Servers, States
  <2>3. SameLoop(s) /\ s.user = srv.user /\ s.ts = srv.ts /\ s.B = srv.B
    BY <1>1, <2>1 DEF Servers, SameLoop
  <2> QED BY <2>2, <2>3 DEF s
<1>4. CASE handle_send_auth(m).s = Moved(srv, SET_USERNAME, 0)
  <2>1. SET_USERNAME \in States /\ SameLoop(srv)
    BY DEF States, SameLoop
  <2> QED BY <1>1, <1>4, <2>1, SessionMoves
<1> QED BY <1>2, <1>3, <1>4

\* A request that parse_message handles preserves the invariant, if the session, what
\* has been revealed, and the spent commands agree with it.
LEMMA RequestStep ==
  ASSUME IndInv, srv.pc = "loop", srv' \in Servers, SameLoop(srv'), last' \in Nat,
         NEW A, net' \subseteq net \cup A, faults' \in 0 .. MaxFaults,
         \A m \in A : m \in Messages /\ m.type # SEND_CMD /\ Truthful(m)',
         UNCHANGED <<svars, cli, kid>>,
         SessionInv', \A b \in Nat : Revealed(b) => Revealed(b)',
         \A m \in net : m.type = SEND_CMD /\ Spent(m) => Spent(m)'
  PROVE  IndInv'
<1>1. UNCHANGED <<inst, proc, port, sup, moves>>
  BY DEF svars
<1>2. TypeOK'
  <2>1. \A m \in net' : m \in Messages
    BY DEF IndInv, TypeOK
  <2> QED BY <1>1, <2>1 DEF IndInv, TypeOK, SupTypeOK
<1>3. StreamInv'
  BY DEF IndInv, StreamInv, SameLoop
<1> QED BY <1>1, <1>2, <1>3, AnswerStep

\* An answer with no more than a type says nothing.
LEMMA PlainAnswer ==
  ASSUME NEW type \in {1, 3, 5}, NEW c \in Clients
  PROVE  /\ Message(type, c) \in Messages /\ Message(type, c).type # SEND_CMD
         /\ Truthful(Message(type, c))'
<1>1. Message(type, c) \in Messages /\ Message(type, c).type = type
  BY MessageFields
<1> QED BY <1>1 DEF Truthful

\* handle_ping preserves the invariant.
LEMMA PingStep ==
  ASSUME IndInv, NEW m \in net, srv.pc = "loop", srv' = handle_ping(m).s,
         last' = IF srv'.ts > last THEN srv'.ts ELSE last,
         net' \subseteq net \cup handle_ping(m).answers, faults' \in 0 .. MaxFaults,
         UNCHANGED <<svars, cli, kid>>
  PROVE  IndInv'
<1> DEFINE A == {Message(Answer(PING), m.cl)}
<1>1. TypeOK /\ srv' = srv /\ net' \subseteq net \cup A
  BY DEF IndInv, handle_ping, Handled
<1>2. last' = last
  BY <1>1, ServerFields DEF IndInv, SessionInv
<1>3. srv' \in Servers /\ last' \in Nat /\ SameLoop(srv')
  BY <1>1, <1>2 DEF TypeOK, SameLoop
<1>4. \A x \in A : x \in Messages /\ x.type # SEND_CMD /\ Truthful(x)'
  BY <1>1, MessageNumbers, PlainAnswer
<1>5. SessionInv'
  BY <1>1, <1>2 DEF IndInv, SessionInv
<1>6. \A b : Revealed(b) => Revealed(b)'
  BY <1>1, <1>2 DEF Revealed
<1>7. \A x : Spent(x) => Spent(x)'
  BY <1>1 DEF Spent
<1> HIDE DEF A
<1> QED BY <1>1, <1>3, <1>4, <1>5, <1>6, <1>7, RequestStep

\* handle_set_username preserves the invariant: a session has a number that none had
\* before.
LEMMA SetUsernameStep ==
  ASSUME IndInv, NEW m \in net, srv.pc = "loop", srv' = handle_set_username(m).s,
         last' = IF srv'.ts > last THEN srv'.ts ELSE last,
         net' \subseteq net \cup handle_set_username(m).answers, faults' \in 0 .. MaxFaults,
         UNCHANGED <<svars, cli, kid>>
  PROVE  IndInv'
<1> DEFINE A == {Message(Answer(SET_USERNAME), m.cl)}
<1>1. TypeOK /\ net' \subseteq net \cup A
  BY DEF IndInv, handle_set_username, Handled
<1>2. /\ srv' \in Servers /\ SameLoop(srv')
      /\ \/ srv'.state = GET_PRIME /\ srv'.user = "root" /\ srv'.ts = last + 1
         \/ srv'.state = SET_USERNAME /\ srv'.ts \in {0, srv.ts}
  BY <1>1, SetUsername
<1>3. last \in Nat /\ srv.ts \in Nat /\ srv.ts <= last
  BY <1>1, ServerFields DEF IndInv, SessionInv
<1>4. /\ last' \in Nat /\ last <= last' /\ srv'.ts <= last'
      /\ srv'.state = GET_PRIME => last' = last + 1 /\ srv'.ts = last'
  BY <1>2, <1>3
<1>5. \A x \in A : x \in Messages /\ x.type # SEND_CMD /\ Truthful(x)'
  BY <1>1, MessageNumbers, PlainAnswer
<1>6. SessionInv'
  BY <1>2, <1>3, <1>4 DEF SessionInv
<1>7. \A b \in Nat : Revealed(b) => Revealed(b)'
  BY <1>2, <1>3, <1>4 DEF Revealed
<1>8. \A x : Spent(x)'
  BY <1>2 DEF Spent
<1> HIDE DEF A
<1> QED BY <1>1, <1>2, <1>4, <1>5, <1>6, <1>7, <1>8, RequestStep

\* handle_get_prime preserves the invariant.
LEMMA GetPrimeStep ==
  ASSUME IndInv, NEW m \in net, srv.pc = "loop", srv.state = GET_PRIME,
         srv' = handle_get_prime(m).s,
         last' = IF srv'.ts > last THEN srv'.ts ELSE last,
         net' \subseteq net \cup handle_get_prime(m).answers, faults' \in 0 .. MaxFaults,
         UNCHANGED <<svars, cli, kid>>
  PROVE  IndInv'
<1> DEFINE A == {Message(Answer(GET_PRIME), m.cl)}
<1>1. TypeOK /\ net' \subseteq net \cup A
  BY DEF IndInv, handle_get_prime, Handled
<1>2. /\ srv' \in Servers /\ SameLoop(srv') /\ srv'.user = srv.user
      /\ srv'.state = SEND_A /\ srv'.ts = srv.ts /\ srv'.B = srv.ts
  BY <1>1, GetPrime
<1>3. last \in Nat /\ srv.ts \in Nat /\ srv.ts = last /\ srv.user = "root" /\ srv.ts > 0
  BY <1>1, ServerFields DEF IndInv, SessionInv
<1>4. last' = last
  BY <1>2, <1>3
<1>5. \A x \in A : x \in Messages /\ x.type # SEND_CMD /\ Truthful(x)'
  BY <1>1, MessageNumbers, PlainAnswer
<1>6. SessionInv'
  BY <1>2, <1>3, <1>4 DEF SessionInv
<1>7. \A b \in Nat : Revealed(b) => Revealed(b)'
  BY <1>2, <1>3, <1>4 DEF Revealed
<1>8. \A x : Spent(x)'
  BY <1>2 DEF Spent
<1> HIDE DEF A
<1> QED BY <1>1, <1>2, <1>3, <1>4, <1>5, <1>6, <1>7, <1>8, RequestStep

\* handle_send_a preserves the invariant: the session is revealed as its key is
\* derived, and no client has that key yet.
LEMMA SendAStep ==
  ASSUME IndInv, NEW m \in net, srv.pc = "loop", srv.state = SEND_A,
         srv' = handle_send_a(m).s,
         last' = IF srv'.ts > last THEN srv'.ts ELSE last,
         net' \subseteq net \cup handle_send_a(m).answers, faults' \in 0 .. MaxFaults,
         UNCHANGED <<svars, cli, kid>>
  PROVE  IndInv'
<1>0. PICK a : a = [Message(Answer(SEND_A), m.cl) EXCEPT !.b = srv.B]
  OBVIOUS
<1> DEFINE A == {a}
<1>1. TypeOK /\ net' \subseteq net \cup A
  BY <1>0 DEF IndInv, handle_send_a, Handled
<1>2. /\ last \in Nat /\ srv.ts \in Nat /\ srv.ts = last /\ srv.user = "root" /\ srv.ts > 0
      /\ srv.B = last
  BY <1>1, ServerFields DEF IndInv, SessionInv
<1>3. /\ srv' \in Servers /\ SameLoop(srv') /\ srv'.user = srv.user
      /\ srv'.state = SEND_AUTH /\ srv'.ts = srv.ts /\ srv'.B = srv.B
      /\ srv'.key.b = srv.B /\ srv'.key.v = "root"
  BY <1>1, <1>2, SendA
<1>4. last' = last
  BY <1>2, <1>3
<1>5. \A b \in Nat : Revealed(b) => Revealed(b)'
  BY <1>2, <1>3, <1>4 DEF Revealed
<1>6. \A x \in A : x \in Messages /\ x.type # SEND_CMD /\ Truthful(x)'
  <2>1. /\ Message(Answer(SEND_A), m.cl) \in Messages
        /\ Message(Answer(SEND_A), m.cl).type = Answer(SEND_A)
    BY <1>1, MessageNumbers, MessageFields
  <2>2. a \in Messages /\ a.type = Answer(SEND_A) /\ a.b = srv.B
    BY <1>0, <1>2, <2>1 DEF Messages
  <2>3. Revealed(a.b)'
    BY <1>2, <1>3, <1>4, <2>2 DEF Revealed
  <2>4. Truthful(a)'
    BY <2>2, <2>3 DEF Truthful
  <2> QED BY <2>2, <2>4
<1>7. SessionInv'
  BY <1>2, <1>3, <1>4 DEF SessionInv
<1>8. \A x \in net : x.type = SEND_CMD => Spent(x)'
  <2> SUFFICES ASSUME NEW x \in net, x.type = SEND_CMD PROVE Spent(x)'
    OBVIOUS
  <2>1. x.key.b \in Nat /\ x.key.b < last
    BY <1>1, MessageNumbers DEF IndInv, NetInv, Truthful, Revealed
  <2>2. x.key.b # srv'.key.b
    BY <1>2, <1>3, <2>1
  <2> QED BY <2>2 DEF Spent
<1> HIDE DEF A
<1> QED BY <1>1, <1>2, <1>3, <1>4, <1>5, <1>6, <1>7, <1>8, RequestStep

\* handle_send_auth preserves the invariant.
LEMMA SendAuthStep ==
  ASSUME IndInv, NEW m \in net, srv.pc = "loop", srv.state = SEND_AUTH,
         srv' = handle_send_auth(m).s,
         last' = IF srv'.ts > last THEN srv'.ts ELSE last,
         net' \subseteq net \cup handle_send_auth(m).answers, faults' \in 0 .. MaxFaults,
         UNCHANGED <<svars, cli, kid>>
  PROVE  IndInv'
<1>0. PICK a : a = [Message(Answer(SEND_AUTH), m.cl) EXCEPT !.key = srv.key]
  OBVIOUS
<1> DEFINE A == {a}
<1>1. TypeOK /\ net' \subseteq net \cup A
  BY <1>0 DEF IndInv, handle_send_auth, Handled
<1>2. /\ last \in Nat /\ srv.ts \in Nat /\ srv.ts = last /\ srv.user = "root" /\ srv.ts > 0
      /\ srv.B = srv.ts /\ srv.key \in Keys /\ srv.key.b = srv.ts /\ srv.key.v = "root"
  BY <1>1, ServerFields DEF IndInv, SessionInv
<1>3. /\ srv' \in Servers /\ SameLoop(srv') /\ srv'.user = srv.user /\ srv'.B = srv.B
      /\ \/ srv'.state = SEND_CMD /\ srv'.ts = srv.ts
         \/ srv'.state = SET_USERNAME /\ srv'.ts = 0
      /\ srv'.key = srv.key /\ srv'.rx_iv = srv.rx_iv
  BY <1>1, SendAuth
<1>4. last' = last
  BY <1>2, <1>3
<1>5. \A b \in Nat : Revealed(b) => Revealed(b)'
  BY <1>2, <1>3, <1>4 DEF Revealed
<1>6. \A x \in A : x \in Messages /\ x.type # SEND_CMD /\ Truthful(x)'
  <2>1. /\ Message(Answer(SEND_AUTH), m.cl) \in Messages
        /\ Message(Answer(SEND_AUTH), m.cl).type = Answer(SEND_AUTH)
    BY <1>1, MessageNumbers, MessageFields
  <2>2. a \in Messages /\ a.type = Answer(SEND_AUTH) /\ a.key = srv.key
    BY <1>0, <1>2, <2>1 DEF Messages
  <2>3. Truthful(a)'
    BY <1>2, <2>2 DEF Truthful
  <2> QED BY <2>2, <2>3
<1>7. SessionInv'
  BY <1>2, <1>3, <1>4 DEF SessionInv
<1>8. \A x : Spent(x) => Spent(x)'
  BY <1>3 DEF Spent
<1> HIDE DEF A
<1> QED BY <1>1, <1>2, <1>3, <1>4, <1>5, <1>6, <1>7, <1>8, RequestStep

\* parse_message preserves the invariant.
LEMMA ParseMessageStep == IndInv /\ parse_message => IndInv'
<1> SUFFICES ASSUME IndInv, parse_message PROVE IndInv'
  OBVIOUS
<1>1. PICK m \in net :
        /\ Receive(m) /\ Accepts(m) /\ m.type # SEND_CMD
        /\ srv' = Handler(m).s
        /\ last' = IF Handler(m).s.ts > last THEN Handler(m).s.ts ELSE last
        /\ \/ net' = (net \ {m}) \cup Handler(m).answers /\ UNCHANGED faults
           \/ net' = net \cup Handler(m).answers /\ Fault
  BY DEF parse_message
<1>2. UNCHANGED <<svars, cli, kid>>
  BY DEF parse_message
<1>3. /\ m.type \in {PING} \cup States /\ srv.pc = "loop"
      /\ m.type < GET_PRIME \/ m.type = srv.state
  BY <1>1 DEF Receive, Accepts
<1>4. faults' \in 0 .. MaxFaults
  BY <1>1, EadAssumption DEF IndInv, TypeOK, Fault
<1>5. net' \subseteq net \cup Handler(m).answers
  BY <1>1
<1>6. last' = IF srv'.ts > last THEN srv'.ts ELSE last
  BY <1>1
<1>7. CASE m.type = PING
  <2>1. Handler(m) = handle_ping(m)
    BY <1>7 DEF Handler
  <2> QED BY <1>1, <1>2, <1>3, <1>4, <1>5, <1>6, <2>1, PingStep
<1>8. CASE m.type = SET_USERNAME
  <2>1. Handler(m) = handle_set_username(m)
    BY <1>8 DEF Handler
  <2> QED BY <1>1, <1>2, <1>3, <1>4, <1>5, <1>6, <2>1, SetUsernameStep
<1>9. CASE m.type = GET_PRIME
  <2>1. Handler(m) = handle_get_prime(m) /\ srv.state = GET_PRIME
    BY <1>3, <1>9 DEF Handler
  <2> QED BY <1>1, <1>2, <1>3, <1>4, <1>5, <1>6, <2>1, GetPrimeStep
<1>10. CASE m.type = SEND_A
  <2>1. Handler(m) = handle_send_a(m) /\ srv.state = SEND_A
    BY <1>3, <1>10 DEF Handler
  <2> QED BY <1>1, <1>2, <1>3, <1>4, <1>5, <1>6, <2>1, SendAStep
<1>11. CASE m.type = SEND_AUTH
  <2>1. Handler(m) = handle_send_auth(m) /\ srv.state = SEND_AUTH
    BY <1>3, <1>11 DEF Handler
  <2> QED BY <1>1, <1>2, <1>3, <1>4, <1>5, <1>6, <2>1, SendAuthStep
<1> QED BY <1>1, <1>3, <1>7, <1>8, <1>9, <1>10, <1>11 DEF States

-----------------------------------------------------------------------------
(* The network loses datagrams.                                            *)

\* A datagram that parse_message turns down, that no server receives, or that is lost.
LEMMA DatagramLost == IndInv /\ (Discard \/ Lose \/ Unheard) => IndInv'
<1> SUFFICES ASSUME IndInv, Discard \/ Lose \/ Unheard PROVE IndInv'
  OBVIOUS
<1>1. net' \subseteq net /\ UNCHANGED <<svars, srv, cli, kid, last>>
  BY DEF Discard, Lose, Unheard
<1>2. faults' \in 0 .. MaxFaults
  BY EadAssumption DEF Discard, Lose, Unheard, Fault, IndInv, TypeOK
<1> QED BY <1>1, <1>2, LossStep

-----------------------------------------------------------------------------
(* The server: commands.                                                   *)

\* The variables of the SRP session.
SameSession(s) ==
  /\ s.state = srv.state /\ s.user = srv.user /\ s.ts = srv.ts /\ s.B = srv.B
  /\ s.key = srv.key /\ s.rx_iv >= srv.rx_iv

\* A step of a command, or of the loop that streams it, leaves the session alone;
\* the request of a command that it starts is spent.
LEMMA CommandStep ==
  ASSUME IndInv, srv' \in Servers, SameSession(srv'), kid' \in [Clients -> Children],
         NEW A, net' \subseteq net \cup A, faults' \in 0 .. MaxFaults,
         \A m \in A : m \in Messages /\ m.type # SEND_CMD /\ Truthful(m)',
         UNCHANGED <<svars, cli, last>>, StreamInv', ChildInv', RunsOnce',
         \A c \in Clients :
           /\ kid[c].runs >= 1 => kid'[c].runs >= 1
           /\ kid'[c].runs >= 1 /\ ~(kid[c].runs >= 1) =>
                CmdSent(c) /\ \A m \in net : IsCmd(m, c) => Spent(m)'
  PROVE  IndInv'
<1>1. UNCHANGED <<inst, proc, port, sup, moves>>
  BY DEF svars
<1>2. TypeOK'
  <2>1. \A m \in net' : m \in Messages
    BY DEF IndInv, TypeOK
  <2> QED BY <1>1, <2>1 DEF IndInv, TypeOK, SupTypeOK
<1>3. SessionInv'
  BY DEF IndInv, SessionInv, SameSession
<1>4. \A b : Revealed(b) <=> Revealed(b)'
  BY DEF Revealed, SameSession
<1>5. \A m \in net : Spent(m) => Spent(m)'
  <2> SUFFICES ASSUME NEW m \in net, Spent(m) PROVE Spent(m)'
    OBVIOUS
  <2>1. srv.rx_iv \in Nat /\ srv'.rx_iv \in Nat /\ m.iv \in Nat
    BY <1>2, ServerFields, MessageNumbers DEF IndInv, TypeOK, Servers
  <2> QED BY <2>1 DEF Spent, SameSession
<1>6. NetInv'
  BY <1>2, <1>4, NetKept DEF IndInv, CmdSent
<1>7. CmdInv'
  <2> SUFFICES ASSUME NEW c \in Clients
               PROVE  /\ \A m1, m2 \in net' : IsCmd(m1, c) /\ IsCmd(m2, c) => m1 = m2
                      /\ kid'[c].runs >= 1 => \A m \in net' : IsCmd(m, c) => Spent(m)'
    BY DEF CmdInv, IsCmd
  <2>1. \A m \in net' : IsCmd(m, c) => m \in net
    BY DEF IsCmd
  <2> QED BY <1>5, <2>1 DEF IndInv, CmdInv
<1>8. ClientInv'
  BY <1>4, ClientKept DEF IndInv
<1>9. SuccessIsTrue'
  <2> SUFFICES ASSUME NEW c \in Clients, cli[c].pc = "ok"
               PROVE  cli[c].cred = "right" /\ (cli[c].kind # "none" => kid'[c].runs = 1)
    BY DEF SuccessIsTrue
  <2>1. cli[c].cred = "right" /\ (cli[c].kind # "none" => kid[c].runs = 1)
    BY DEF IndInv, SuccessIsTrue
  <2>2. kid'[c].runs \in Nat /\ kid'[c].runs <= 1
    BY DEF RunsOnce, Children
  <2> QED BY <2>1, <2>2
<1>10. StartedInv'
  BY DEF IndInv, StartedInv, CmdSent
<1> QED BY <1>1, <1>2, <1>3, <1>6, <1>7, <1>8, <1>9, <1>10 DEF IndInv, RecordsTrue

\* Result: an answer to a client whose command was started.
LEMMA ResultFields ==
  ASSUME NEW s \in Servers, NEW c \in Clients, NEW done \in BOOLEAN
  PROVE  /\ Result(s, c, done) \in Messages /\ Result(s, c, done).type = Answer(SEND_CMD)
         /\ Result(s, c, done).cl = c /\ Result(s, c, done).done = done
<1>1. Message(Answer(SEND_CMD), c) \in Messages /\ s.key \in Keys /\ s.tx_iv \in Nat
      /\ Message(Answer(SEND_CMD), c).type = Answer(SEND_CMD)
      /\ Message(Answer(SEND_CMD), c).cl = c
  BY MessageFields DEF Servers
<1> QED BY <1>1 DEF Result, Messages

\* The counter of the server's answers goes up, and nothing else changes.
LEMMA CountedServer ==
  ASSUME NEW s \in Servers, NEW ofs \in Offsets
  PROVE  /\ Counted(s, ofs) \in Servers
         /\ SameLoop(Counted(s, ofs)) <=> SameLoop(s)
         /\ SameSession(Counted(s, ofs)) <=> SameSession(s)
         /\ Counted(s, ofs).bytes = s.bytes
<1>1. s.tx_iv + ofs \in Nat
  BY EadAssumption DEF Servers
<1>2. Counted(s, ofs) = [s EXCEPT !.tx_iv = s.tx_iv + ofs]
  BY DEF Counted
<1>3. Counted(s, ofs) \in Servers
  BY <1>1, <1>2 DEF Servers
<1> QED BY <1>1, <1>2, <1>3 DEF Servers, SameLoop, SameSession

\* A request that ead_decrypt_message accepts in the state SEND_CMD comes from a client
\* that knows the password, and its command has not been started.
LEMMA FreshCommand ==
  ASSUME IndInv, NEW m \in net, Receive(m), Accepts(m), m.type = SEND_CMD, Decrypts(srv, m)
  PROVE  /\ m.cl \in Clients /\ m.iv \in Nat /\ m.iv >= srv.rx_iv /\ srv.pc = "loop"
         /\ cli[m.cl].cred = "right" /\ kid[m.cl].runs = 0
         /\ CmdSent(m.cl) /\ \A x \in net : IsCmd(x, m.cl) => x = m
<1>1. TypeOK /\ CmdInv /\ SessionInv /\ Truthful(m)
  BY DEF IndInv, NetInv
<1>2. /\ m.cl \in Clients /\ m.iv \in Nat /\ srv.rx_iv \in Nat
      /\ kid[m.cl].runs \in Nat
  BY <1>1, MessageNumbers, ServerFields, ChildFields
<1>3. /\ srv.state = SEND_CMD /\ srv.key = m.key /\ srv.rx_iv < m.iv /\ srv.pc = "loop"
  BY DEF Accepts, Decrypts, ead_check_rx_iv, Receive
<1>4. srv.key.v = "root"
  BY <1>1, <1>3 DEF SessionInv
<1>5. cli[m.cl].cred = "right"
  BY <1>1, <1>2, <1>3, <1>4, VerifierRoot DEF Truthful
<1>6. IsCmd(m, m.cl) /\ ~Spent(m)
  BY <1>2, <1>3 DEF IsCmd, Spent
<1>7. ~(kid[m.cl].runs >= 1) /\ \A x \in net : IsCmd(x, m.cl) => x = m
  BY <1>1, <1>2, <1>6 DEF CmdInv
<1> QED BY <1>1, <1>2, <1>3, <1>5, <1>7 DEF Truthful

\* The process that handle_send_cmd forks.
Forked(c) == kid' = [kid EXCEPT ![c].st = "running", ![c].runs = @ + 1]

\* fork: the command of a client that had none runs.
LEMMA ForkedChild ==
  ASSUME IndInv, NEW c \in Clients, Forked(c), kid[c].runs = 0, cli[c].cred = "right",
         UNCHANGED cli
  PROVE  /\ kid' \in [Clients -> Children] /\ kid'[c].runs = 1
         /\ \A d \in Clients \ {c} : kid'[d] = kid[d]
         /\ ChildInv' /\ RunsOnce'
<1>1. kid \in [Clients -> Children]
  BY DEF IndInv, TypeOK
<1>2. kid[c].pipe = 0 /\ kid[c].out = 0
  BY <1>1 DEF IndInv, ChildInv
<1>3. kid' = [kid EXCEPT ![c].st = "running", ![c].runs = @ + 1]
  BY DEF Forked
<1>4. kid'[c].runs = 1 /\ kid'[c].pipe = 0 /\ kid'[c].out = 0
  BY <1>1, <1>2, <1>3 DEF Children
<1>5. kid' \in [Clients -> Children] /\ \A d \in Clients \ {c} : kid'[d] = kid[d]
  BY <1>1, <1>3 DEF Children
<1>6. ChildInv'
  BY <1>4, <1>5 DEF IndInv, ChildInv
<1>7. RunsOnce'
  BY <1>4, <1>5 DEF IndInv, RunsOnce
<1> QED BY <1>4, <1>5, <1>6, <1>7

\* The server as handle_send_cmd leaves it when the type is unknown or pipe fails, and
\* when the command was not forked.
Got(m) == [srv EXCEPT !.rx_iv = m.iv]

Noted(m) ==
  [Got(m) EXCEPT !.child_pending = @ \/ m.kind = "normal"]

\* The server once it streams the command.
Streaming(m) ==
  [Noted(m) EXCEPT !.pc = "select", !.cur = m.cl, !.elapsed = 0,
                   !.tv = 1, !.burst = 0, !.foreign = FALSE]

\* handle_send_cmd records the message counter and that a child is pending.
LEMMA NotedServer ==
  ASSUME TypeOK, NEW m \in net, m.iv >= srv.rx_iv
  PROVE  /\ Noted(m) \in Servers /\ SameSession(Noted(m)) /\ Noted(m).rx_iv = m.iv
         /\ Noted(m).pc = srv.pc /\ Noted(m).elapsed = srv.elapsed /\ Noted(m).tv = srv.tv
         /\ m.kind = "normal" => Noted(m).child_pending
<1> DEFINE p == srv.child_pending \/ m.kind = "normal"
<1>1. srv \in Servers /\ m.iv \in Nat /\ p \in BOOLEAN
  BY MessageNumbers DEF TypeOK, Servers
<1>2. (m.kind = "normal") => p = TRUE
  BY <1>1
<1>3. Noted(m) = [srv EXCEPT !.rx_iv = m.iv, !.child_pending = p]
  BY <1>1 DEF Noted, Got, Servers
<1> HIDE DEF p
<1>4. Noted(m) \in Servers
  BY <1>1, <1>3 DEF Servers
<1>5. /\ SameSession(Noted(m)) /\ Noted(m).rx_iv = m.iv
      /\ Noted(m).pc = srv.pc /\ Noted(m).elapsed = srv.elapsed /\ Noted(m).tv = srv.tv
      /\ Noted(m).child_pending = p
  BY <1>1, <1>3 DEF Servers, SameSession
<1> QED BY <1>2, <1>4, <1>5

\* The same without a child.
LEMMA GotServer ==
  ASSUME TypeOK, NEW m \in net, m.iv >= srv.rx_iv
  PROVE  /\ Got(m) \in Servers /\ SameSession(Got(m)) /\ Got(m).rx_iv = m.iv
         /\ Got(m).pc = srv.pc /\ Got(m).elapsed = srv.elapsed /\ Got(m).tv = srv.tv
<1>1. srv \in Servers /\ m.iv \in Nat
  BY MessageNumbers DEF TypeOK
<1>2. Got(m) \in Servers
  BY <1>1 DEF Servers, Got
<1> QED BY <1>1, <1>2 DEF Servers, Got, SameSession

\* The streaming loop begins with a full second on its clock.
LEMMA StreamingServer ==
  ASSUME TypeOK, NEW m \in net, m.iv >= srv.rx_iv
  PROVE  /\ Streaming(m) \in Servers /\ SameSession(Streaming(m))
         /\ Streaming(m).rx_iv = m.iv /\ Streaming(m).pc = "select" /\ Streaming(m).cur = m.cl
         /\ Streaming(m).elapsed = 0 /\ Streaming(m).tv = 1 /\ Streaming(m).burst = 0
         /\ Streaming(m).child_pending = Noted(m).child_pending
<1>1. Noted(m) \in Servers /\ SameSession(Noted(m)) /\ Noted(m).rx_iv = m.iv
      /\ m.cl \in Clients /\ 0 \in 0 .. CmdTimeout
  BY NotedServer, MessageNumbers, EadAssumption
<1>2. Streaming(m) \in Servers
  BY <1>1 DEF Servers, Streaming
<1> QED BY <1>1, <1>2 DEF Servers, Streaming, SameSession

\* handle_send_cmd preserves the invariant.
LEMMA SendCmdStep == IndInv /\ handle_send_cmd => IndInv'
<1> SUFFICES ASSUME IndInv, handle_send_cmd PROVE IndInv'
  OBVIOUS
<1>1. PICK m \in net :
        /\ Receive(m) /\ Accepts(m) /\ m.type = SEND_CMD /\ Decrypts(srv, m)
        /\ UNCHANGED faults \/ Fault
        /\ \/ srv' \in {Got(m), Noted(m)} /\ net' \subseteq net /\ UNCHANGED kid
           \/ /\ m.kind = "normal" /\ Forked(m.cl) /\ srv' = Streaming(m)
              /\ net' \subseteq net
           \/ /\ Forked(m.cl)
              /\ \E ofs \in Offsets :
                   /\ srv' = Counted(Noted(m), ofs)
                   /\ net' \subseteq net \cup {Result(Counted(Noted(m), ofs), m.cl, TRUE)}
  <2>1. PICK m \in net :
          /\ Receive(m) /\ Accepts(m) /\ m.type = SEND_CMD /\ Decrypts(srv, m)
          /\ \/ /\ srv' = Got(m) /\ UNCHANGED kid
                /\ \/ net' = (net \ {m}) \cup {} /\ UNCHANGED faults
                   \/ net' = net \cup {} /\ Fault
             \/ /\ Fault /\ srv' \in {Got(m), Noted(m)} /\ UNCHANGED kid
                /\ net' \in {net \ {m}, net}
             \/ /\ m.kind = "normal" /\ Forked(m.cl) /\ srv' = Streaming(m)
                /\ \/ net' = (net \ {m}) \cup {} /\ UNCHANGED faults
                   \/ net' = net \cup {} /\ Fault
             \/ /\ Forked(m.cl)
                /\ \E ofs \in Offsets :
                     /\ srv' = Counted(Noted(m), ofs)
                     /\ LET A == {Result(Counted(Noted(m), ofs), m.cl, TRUE)}
                        IN  \/ net' = (net \ {m}) \cup A /\ UNCHANGED faults
                            \/ net' = net \cup A /\ Fault
    BY DEF handle_send_cmd, Got, Noted, Streaming, Forked
  <2>2. net \ {m} \subseteq net /\ net \cup {} \subseteq net
        /\ \A A : (net \ {m}) \cup A \subseteq net \cup A
    OBVIOUS
  <2> QED BY <2>1, <2>2
<1>2. UNCHANGED <<svars, cli, last>>
  BY DEF handle_send_cmd
<1>3. /\ m.cl \in Clients /\ m.iv \in Nat /\ m.iv >= srv.rx_iv /\ srv.pc = "loop"
      /\ cli[m.cl].cred = "right" /\ kid[m.cl].runs = 0
      /\ CmdSent(m.cl) /\ \A x \in net : IsCmd(x, m.cl) => x = m
  BY <1>1, FreshCommand
<1>4. TypeOK /\ faults' \in 0 .. MaxFaults
  <2>1. UNCHANGED faults \/ Fault
    BY <1>1
  <2> QED BY <2>1, EadAssumption DEF IndInv, TypeOK, Fault
<1>5. /\ Noted(m) \in Servers /\ SameSession(Noted(m)) /\ Noted(m).rx_iv = m.iv
      /\ Noted(m).pc = "loop" /\ Noted(m).elapsed = srv.elapsed /\ Noted(m).tv = srv.tv
      /\ m.kind = "normal" => Noted(m).child_pending
  BY <1>3, <1>4, NotedServer
<1>51. /\ Got(m) \in Servers /\ SameSession(Got(m)) /\ Got(m).rx_iv = m.iv
       /\ Got(m).pc = "loop" /\ Got(m).elapsed = srv.elapsed /\ Got(m).tv = srv.tv
  BY <1>3, <1>4, GotServer
<1> DEFINE none == {}
<1>6. \A x \in none : x \in Messages /\ x.type # SEND_CMD /\ Truthful(x)'
  OBVIOUS
<1>7. net \subseteq net \cup none /\ net \ {m} \subseteq net \cup none
  OBVIOUS
<1> HIDE DEF none
<1>8. ASSUME srv'.rx_iv = m.iv PROVE \A x \in net : IsCmd(x, m.cl) => Spent(x)'
  BY <1>3, <1>8 DEF Spent
<1>9. CASE srv' \in {Got(m), Noted(m)} /\ net' \subseteq net /\ UNCHANGED kid
  <2>0. /\ srv' \in Servers /\ SameSession(srv') /\ srv'.pc = "loop"
        /\ srv'.elapsed = srv.elapsed /\ srv'.tv = srv.tv
    BY <1>5, <1>51, <1>9
  <2>1. ChildInv' /\ RunsOnce'
    BY <1>2, <1>9 DEF IndInv, ChildInv, RunsOnce
  <2>2. StreamInv'
    BY <2>0 DEF IndInv, StreamInv
  <2>3. kid' \in [Clients -> Children] /\ net' \subseteq net \cup none
    BY <1>4, <1>7, <1>9 DEF TypeOK
  <2> QED BY <1>2, <1>4, <1>6, <1>9, <2>0, <2>1, <2>2, <2>3, CommandStep
<1>10. ASSUME Forked(m.cl)
       PROVE  /\ kid' \in [Clients -> Children] /\ kid'[m.cl].runs = 1
              /\ ChildInv' /\ RunsOnce'
              /\ \A c \in Clients : /\ kid[c].runs >= 1 => kid'[c].runs >= 1
                                    /\ kid'[c].runs >= 1 /\ ~(kid[c].runs >= 1) => c = m.cl
  <2>1. /\ kid' \in [Clients -> Children] /\ kid'[m.cl].runs = 1
        /\ \A d \in Clients \ {m.cl} : kid'[d] = kid[d]
        /\ ChildInv' /\ RunsOnce'
    BY <1>2, <1>3, <1>10, ForkedChild
  <2> QED BY <1>3, <2>1
<1>11. CASE m.kind = "normal" /\ Forked(m.cl) /\ srv' = Streaming(m) /\ net' \subseteq net
  <2>1. /\ srv' \in Servers /\ SameSession(srv')
        /\ srv'.rx_iv = m.iv /\ srv'.pc = "select" /\ srv'.cur = m.cl
        /\ srv'.elapsed = 0 /\ srv'.tv = 1 /\ srv'.burst = 0
        /\ srv'.child_pending
    BY <1>3, <1>4, <1>5, <1>11, StreamingServer
  <2>2. StreamInv'
    BY <1>3, <1>10, <1>11, <2>1, EadAssumption DEF StreamInv
  <2>3. net' \subseteq net \cup none
    BY <1>11
  <2> QED BY <1>2, <1>4, <1>6, <1>3, <1>8, <1>10, <1>11, <2>1, <2>2, <2>3, CommandStep
<1>12. ASSUME Forked(m.cl), NEW ofs \in Offsets, srv' = Counted(Noted(m), ofs),
              net' \subseteq net \cup {Result(Counted(Noted(m), ofs), m.cl, TRUE)}
       PROVE  IndInv'
  <2>1. /\ srv' \in Servers /\ SameSession(srv') /\ srv'.rx_iv = m.iv
        /\ srv'.pc = "loop" /\ srv'.elapsed = srv.elapsed /\ srv'.tv = srv.tv
    <3>1. Counted(Noted(m), ofs) = [Noted(m) EXCEPT !.tx_iv = Noted(m).tx_iv + ofs]
      BY DEF Counted
    <3>2. srv' \in Servers /\ SameSession(srv')
      BY <1>5, <1>12, CountedServer
    <3> QED BY <1>5, <1>12, <3>1, <3>2 DEF Servers
  <2>2. PICK a : a = Result(Counted(Noted(m), ofs), m.cl, TRUE)
    OBVIOUS
  <2>3. a \in Messages /\ a.type = Answer(SEND_CMD) /\ a.cl = m.cl
    BY <1>3, <1>12, <2>1, <2>2, ResultFields
  <2> DEFINE A == {a}
  <2>4. \A x \in A : x \in Messages /\ x.type # SEND_CMD /\ Truthful(x)'
    BY <1>10, <1>12, <2>3 DEF Truthful
  <2>5. StreamInv'
    BY <2>1 DEF IndInv, StreamInv
  <2>6. net' \subseteq net \cup A
    BY <1>12, <2>2
  <2> HIDE DEF A
  <2> QED BY <1>2, <1>4, <1>3, <1>8, <1>10, <1>12, <2>1, <2>4, <2>5, <2>6, CommandStep
<1> QED BY <1>1, <1>9, <1>11, <1>12

-----------------------------------------------------------------------------
(* The streaming loop and the commands.                                    *)

\* A step of the loop, or of a command, starts no command.
LEMMA LoopStep ==
  ASSUME IndInv, srv' \in Servers, SameSession(srv'), kid' \in [Clients -> Children],
         NEW A, net' \subseteq net \cup A,
         \A m \in A : m \in Messages /\ m.type # SEND_CMD /\ Truthful(m)',
         UNCHANGED <<svars, cli, last, faults>>, StreamInv', ChildInv',
         \A c \in Clients : kid'[c].runs = kid[c].runs
  PROVE  IndInv'
<1>1. faults' \in 0 .. MaxFaults /\ RunsOnce'
  BY DEF IndInv, TypeOK, RunsOnce
<1> QED BY <1>1, CommandStep

\* select() and read() preserve the invariant.
LEMMA StreamSelectStep == IndInv /\ StreamSelect => IndInv'
<1> SUFFICES ASSUME IndInv, StreamSelect PROVE IndInv'
  OBVIOUS
<1>1. PICK bytes \in {0, 1} : srv' = [srv EXCEPT !.pc = "check", !.bytes = bytes]
  BY DEF StreamSelect
<1>2. /\ srv.pc = "select" /\ UNCHANGED <<svars, cli, net, last, faults>>
      /\ \/ Piped > 0 /\ kid' = [kid EXCEPT ![srv.cur].pipe = @ - 1]
         \/ kid' = kid
  BY DEF StreamSelect
<1>3. /\ srv \in Servers /\ kid \in [Clients -> Children] /\ srv.cur \in Clients
      /\ kid[srv.cur].runs >= 1
  BY <1>2 DEF IndInv, TypeOK, StreamInv
<1>4. /\ srv' \in Servers /\ srv'.pc = "check" /\ srv'.cur = srv.cur
      /\ srv'.child_pending = srv.child_pending /\ srv'.foreign = srv.foreign
      /\ srv'.tv = srv.tv /\ srv'.elapsed = srv.elapsed
  BY <1>1, <1>3 DEF Servers
<1>5. SameSession(srv')
  BY <1>1, <1>3 DEF Servers, SameSession
<1>6. /\ kid' \in [Clients -> Children]
      /\ \A c \in Clients :
           /\ kid'[c].runs = kid[c].runs /\ kid'[c].st = kid[c].st /\ kid'[c].out = kid[c].out
           /\ kid'[c].pipe <= kid[c].pipe /\ (c # srv.cur => kid'[c] = kid[c])
  <2>1. CASE kid' = kid
    BY <1>3, <2>1, EadAssumption DEF Children
  <2>2. CASE Piped > 0 /\ kid' = [kid EXCEPT ![srv.cur].pipe = @ - 1]
    <3>1. kid[srv.cur].pipe \in 0 .. MaxOutput /\ MaxOutput \in Nat /\ kid[srv.cur].pipe > 0
      BY <1>3, <2>2, EadAssumption DEF Children, Piped
    <3>2. PICK n \in 0 .. MaxOutput : n = kid[srv.cur].pipe - 1 /\ n <= kid[srv.cur].pipe
      BY <3>1
    <3>3. kid' = [kid EXCEPT ![srv.cur].pipe = n]
      BY <2>2, <3>2
    <3>4. kid' \in [Clients -> Children]
      BY <1>3, <3>2, <3>3 DEF Children
    <3>5. /\ kid'[srv.cur].runs = kid[srv.cur].runs /\ kid'[srv.cur].st = kid[srv.cur].st
          /\ kid'[srv.cur].out = kid[srv.cur].out /\ kid'[srv.cur].pipe = n
      BY <1>3, <3>3 DEF Children
    <3>6. \A c \in Clients : c # srv.cur => kid'[c] = kid[c]
      BY <1>3, <3>3
    <3>7. \A c \in Clients : kid[c].pipe \in Nat
      BY <1>3, EadAssumption DEF Children
    <3> QED BY <3>2, <3>4, <3>5, <3>6, <3>7
  <2> QED BY <1>2, <2>1, <2>2
<1>7. ChildInv'
  <2> SUFFICES ASSUME NEW c \in Clients
               PROVE  /\ kid'[c].runs = 0 =>
                           kid'[c].st = "none" /\ kid'[c].pipe = 0 /\ kid'[c].out = 0
                      /\ kid'[c].st = "running" => kid'[c].pipe <= kid'[c].out
    BY DEF ChildInv
  <2>1. /\ kid[c].pipe \in Nat /\ kid'[c].pipe \in Nat /\ kid[c].out \in Nat
    BY <1>3, <1>6, EadAssumption DEF Children
  <2> QED BY <1>6, <2>1 DEF IndInv, ChildInv
<1>8. StreamInv'
  BY <1>2, <1>3, <1>4, <1>6 DEF IndInv, StreamInv
<1> DEFINE none == {}
<1>9. net' \subseteq net \cup none
      /\ \A x \in none : x \in Messages /\ x.type # SEND_CMD /\ Truthful(x)'
  BY <1>2
<1> HIDE DEF none
<1> QED BY <1>2, <1>4, <1>5, <1>6, <1>7, <1>8, <1>9, LoopStep

\* Answers to the client whose command is streamed.
LEMMA ResultsTruthful ==
  ASSUME IndInv, srv.pc \in {"check", "end"}, NEW A,
         \A x \in A : \E s \in Servers, done \in BOOLEAN : x = Result(s, srv.cur, done),
         \A c \in Clients : kid'[c].runs = kid[c].runs
  PROVE  \A x \in A : x \in Messages /\ x.type # SEND_CMD /\ Truthful(x)'
<1> SUFFICES ASSUME NEW x \in A PROVE x \in Messages /\ x.type # SEND_CMD /\ Truthful(x)'
  OBVIOUS
<1>1. PICK s \in Servers, done \in BOOLEAN : x = Result(s, srv.cur, done)
  OBVIOUS
<1>2. srv.cur \in Clients /\ kid[srv.cur].runs >= 1
  BY DEF IndInv, StreamInv
<1>3. x \in Messages /\ x.type = Answer(SEND_CMD) /\ x.cl = srv.cur
  BY <1>1, <1>2, ResultFields
<1> QED BY <1>2, <1>3 DEF Truthful

\* handle_send_cmd returns to the loop, and the session goes on.
LEMMA ReturnsServer ==
  ASSUME NEW s \in Servers, SameSession(s)
  PROVE  /\ Returns(s) \in Servers /\ SameSession(Returns(s))
         /\ Returns(s).pc = "loop" /\ Returns(s).tv = 0 /\ Returns(s).elapsed = 0
<1>1. 0 \in 0 .. CmdTimeout
  BY EadAssumption
<1>2. Returns(s) \in Servers
  BY <1>1 DEF Servers, Returns
<1> QED BY <1>2 DEF Servers, Returns, SameSession

\* The end of the loop body preserves the invariant.
LEMMA StreamCheckStep == IndInv /\ StreamCheck => IndInv'
<1> SUFFICES ASSUME IndInv, StreamCheck PROVE IndInv'
  OBVIOUS
<1>1. srv.pc = "check" /\ UNCHANGED <<svars, cli, kid, last, faults>>
  BY DEF StreamCheck
<1>2. /\ TypeOK /\ srv \in Servers /\ kid \in [Clients -> Children] /\ srv.cur \in Clients
      /\ kid[srv.cur].runs >= 1 /\ CmdTimeout \in Nat /\ srv.elapsed \in 0 .. CmdTimeout
  BY <1>1, EadAssumption DEF IndInv, TypeOK, StreamInv, Servers
<1>3. SameSession(srv) /\ SameLoop(srv)
  BY <1>2, ServerFields DEF SameSession, SameLoop
<1>4. ASSUME NEW s \in Servers, SameSession(s), SameLoop(s), NEW pc \in {"select", "end"},
             pc = "select" => srv.elapsed < CmdTimeout,
             NEW n \in Nat, srv' = [s EXCEPT !.pc = pc, !.burst = n],
             NEW A, net' = net \cup A,
             \A x \in A : \E t \in Servers, done \in BOOLEAN : x = Result(t, srv.cur, done)
      PROVE  IndInv'
  <2>1. /\ srv' \in Servers /\ SameSession(srv') /\ srv'.pc = pc
        /\ srv'.child_pending = srv.child_pending /\ srv'.cur = srv.cur
        /\ srv'.elapsed = srv.elapsed /\ srv'.tv = srv.tv /\ srv'.foreign = srv.foreign
    <3>1. srv' \in Servers
      BY <1>4 DEF Servers
    <3>2. /\ srv'.pc = pc /\ srv'.child_pending = s.child_pending /\ srv'.cur = s.cur
          /\ srv'.elapsed = s.elapsed /\ srv'.tv = s.tv /\ srv'.foreign = s.foreign
      BY <1>4, <3>1 DEF Servers
    <3>3. SameSession(srv')
      BY <1>4 DEF Servers, SameSession
    <3> QED BY <1>4, <3>1, <3>2, <3>3 DEF SameLoop
  <2>2. pc = "select" => srv'.elapsed # CmdTimeout
    BY <1>2, <1>4, <2>1
  <2>3. StreamInv'
    BY <1>1, <2>1, <2>2 DEF IndInv, StreamInv
  <2>4. \A x \in A : x \in Messages /\ x.type # SEND_CMD /\ Truthful(x)'
    BY <1>1, <1>4, ResultsTruthful
  <2>5. ChildInv'
    BY <1>1 DEF IndInv, ChildInv
  <2> QED BY <1>1, <1>2, <1>4, <2>1, <2>3, <2>4, <2>5, LoopStep
<1>5. CASE srv' = [srv EXCEPT !.pc = "end"] /\ UNCHANGED net
  <2>1. srv.burst \in Nat /\ srv' = [srv EXCEPT !.pc = "end", !.burst = srv.burst]
    BY <1>2, <1>5 DEF Servers
  <2> DEFINE none == {}
  <2>2. net' = net \cup none /\ \A x \in none : \E t \in Servers, done \in BOOLEAN :
                                                x = Result(t, srv.cur, done)
    BY <1>5
  <2> HIDE DEF none
  <2> QED BY <1>2, <1>3, <1>4, <2>1, <2>2
<1>6. ASSUME NEW ofs \in Offsets,
             net' = net \cup {Result(Counted(srv, ofs), srv.cur, FALSE)},
             srv' = [Counted(srv, ofs) EXCEPT
                       !.pc = IF srv.elapsed < CmdTimeout THEN "select" ELSE "end",
                       !.burst = @ + 1]
      PROVE  IndInv'
  <2>1. PICK s : s = Counted(srv, ofs)
    OBVIOUS
  <2>2. s \in Servers /\ SameSession(s) /\ SameLoop(s)
    BY <1>2, <1>3, <2>1, CountedServer
  <2>3. PICK n \in Nat : n = s.burst + 1
    BY <2>2 DEF Servers
  <2>4. PICK pc \in {"select", "end"} :
          /\ pc = IF srv.elapsed < CmdTimeout THEN "select" ELSE "end"
          /\ pc = "select" => srv.elapsed < CmdTimeout
    OBVIOUS
  <2>5. srv' = [s EXCEPT !.pc = pc, !.burst = n]
    BY <1>6, <2>1, <2>3, <2>4
  <2>6. PICK a : a = Result(s, srv.cur, FALSE)
    OBVIOUS
  <2> DEFINE A == {a}
  <2>7. net' = net \cup A /\ \A x \in A : x = Result(s, srv.cur, FALSE)
    BY <1>6, <2>1, <2>6
  <2> HIDE DEF A
  <2> QED BY <1>4, <2>2, <2>4, <2>5, <2>7
<1> QED BY <1>5, <1>6 DEF StreamCheck

\* What follows the loop preserves the invariant.
LEMMA StreamEndsStep == IndInv /\ StreamEnds => IndInv'
<1> SUFFICES ASSUME IndInv, StreamEnds PROVE IndInv'
  OBVIOUS
<1>1. srv.pc = "end" /\ UNCHANGED <<svars, cli, last, faults>>
  BY DEF StreamEnds
<1>2. /\ TypeOK /\ srv \in Servers /\ kid \in [Clients -> Children] /\ srv.cur \in Clients
      /\ kid[srv.cur].runs >= 1
  BY <1>1 DEF IndInv, TypeOK, StreamInv
<1>3. SameSession(srv) /\ SameLoop(srv)
  BY <1>2, ServerFields DEF SameSession, SameLoop
<1>4. ASSUME NEW s \in Servers, SameSession(s), srv' = Returns(s), NEW A, net' = net \cup A,
             \A x \in A : \E t \in Servers, done \in BOOLEAN : x = Result(t, srv.cur, done),
             kid' \in {kid, [kid EXCEPT ![srv.cur].st = "killed"]}
      PROVE  IndInv'
  <2>1. /\ kid' \in [Clients -> Children]
        /\ \A c \in Clients : kid'[c].runs = kid[c].runs
        /\ ChildInv'
    <3>1. CASE kid' = kid
      BY <1>2, <3>1 DEF IndInv, ChildInv
    <3>2. CASE kid' = [kid EXCEPT ![srv.cur].st = "killed"]
      <4>1. kid' \in [Clients -> Children]
        BY <1>2, <3>2 DEF Children
      <4>2. /\ kid'[srv.cur].runs = kid[srv.cur].runs /\ kid'[srv.cur].st = "killed"
            /\ \A c \in Clients : c # srv.cur => kid'[c] = kid[c]
        BY <1>2, <3>2 DEF Children
      <4> QED BY <1>2, <4>1, <4>2 DEF IndInv, ChildInv
    <3> QED BY <1>4, <3>1, <3>2
  <2>2. /\ srv' \in Servers /\ SameSession(srv')
        /\ srv'.pc = "loop" /\ srv'.tv = 0 /\ srv'.elapsed = 0
    BY <1>4, ReturnsServer
  <2>3. StreamInv'
    BY <2>2 DEF StreamInv
  <2>4. \A x \in A : x \in Messages /\ x.type # SEND_CMD /\ Truthful(x)'
    BY <1>1, <1>4, <2>1, ResultsTruthful
  <2> QED BY <1>1, <1>4, <2>1, <2>2, <2>3, <2>4, LoopStep
<1>5. CASE srv' = Returns(srv) /\ UNCHANGED net /\ kid' = [kid EXCEPT ![srv.cur].st = "killed"]
  <2> DEFINE none == {}
  <2>1. net' = net \cup none /\ \A x \in none : \E t \in Servers, done \in BOOLEAN :
                                                x = Result(t, srv.cur, done)
    BY <1>5
  <2> HIDE DEF none
  <2> QED BY <1>2, <1>3, <1>4, <1>5, <2>1
<1>6. ASSUME NEW ofs \in Offsets, kid' = kid,
             net' = net \cup {Result(Counted(srv, ofs), srv.cur, TRUE)},
             srv' = Returns(Counted(srv, ofs))
      PROVE  IndInv'
  <2>1. PICK s : s = Counted(srv, ofs)
    OBVIOUS
  <2>2. s \in Servers /\ SameSession(s)
    BY <1>2, <1>3, <2>1, CountedServer
  <2>3. PICK a : a = Result(s, srv.cur, TRUE)
    OBVIOUS
  <2> DEFINE A == {a}
  <2>4. net' = net \cup A /\ \A x \in A : x = Result(s, srv.cur, TRUE)
    BY <1>6, <2>1, <2>3
  <2> HIDE DEF A
  <2> QED BY <1>4, <1>6, <2>1, <2>2, <2>4
<1> QED BY <1>5, <1>6 DEF StreamEnds

\* instance_handle_sigchld preserves the invariant.
LEMMA ChildExitsStep ==
  ASSUME NEW c \in Clients PROVE IndInv /\ ChildExits(c) => IndInv'
<1> SUFFICES ASSUME IndInv, ChildExits(c) PROVE IndInv'
  OBVIOUS
<1>1. /\ kid[c].st \in {"running", "killed", "orphan"}
      /\ kid' = [kid EXCEPT ![c].st = "exited", ![c].out = 0]
      /\ UNCHANGED <<svars, cli, net, last, faults>>
  BY DEF ChildExits
<1>2. TypeOK /\ srv \in Servers /\ kid \in [Clients -> Children] /\ 0 \in 0 .. MaxOutput
  BY EadAssumption DEF IndInv, TypeOK
<1>3. /\ kid' \in [Clients -> Children] /\ kid'[c].runs = kid[c].runs /\ kid'[c].st = "exited"
      /\ \A d \in Clients : d # c => kid'[d] = kid[d]
  <2>1. kid' \in [Clients -> Children]
    BY <1>1, <1>2 DEF Children
  <2> QED BY <1>1, <1>2, <2>1 DEF Children
<1>4. ChildInv'
  BY <1>1, <1>3 DEF IndInv, ChildInv
<1>5. /\ srv' \in Servers /\ SameSession(srv') /\ StreamInv'
  <2>1. CASE srv' = srv /\ kid[c].st = "orphan"
    <3>1. SameSession(srv')
      BY <1>2, <2>1, ServerFields DEF SameSession
    <3>2. StreamInv'
      BY <1>3, <2>1 DEF IndInv, StreamInv
    <3> QED BY <1>2, <2>1, <3>1, <3>2
  <2>2. CASE srv' = [srv EXCEPT !.child_pending = FALSE,
                                !.foreign = @ \/ (srv.pc # "loop" /\ c # srv.cur)]
    <3> DEFINE f == srv.foreign \/ (srv.pc # "loop" /\ c # srv.cur)
    <3>1. f \in BOOLEAN /\ (srv.pc # "loop" /\ c # srv.cur => f = TRUE)
      BY <1>2 DEF Servers
    <3>2. srv' = [srv EXCEPT !.child_pending = FALSE, !.foreign = f]
      BY <2>2
    <3> HIDE DEF f
    <3>3. srv' \in Servers
      BY <1>2, <3>1, <3>2 DEF Servers
    <3>4. /\ srv'.pc = srv.pc /\ srv'.cur = srv.cur /\ srv'.tv = srv.tv
          /\ srv'.elapsed = srv.elapsed /\ srv'.burst = srv.burst /\ srv'.foreign = f
      BY <1>2, <3>2 DEF Servers
    <3>5. SameSession(srv')
      BY <1>2, <3>2 DEF Servers, SameSession
    <3>6. StreamInv'
      BY <1>3, <3>1, <3>4 DEF IndInv, StreamInv
    <3> QED BY <3>3, <3>5, <3>6
  <2> QED BY <2>1, <2>2 DEF ChildExits
<1> DEFINE none == {}
<1>6. net' \subseteq net \cup none
      /\ \A x \in none : x \in Messages /\ x.type # SEND_CMD /\ Truthful(x)'
  BY <1>1
<1> HIDE DEF none
<1> QED BY <1>1, <1>3, <1>4, <1>5, <1>6, LoopStep

\* Output of a command preserves the invariant.
LEMMA ChildWritesStep ==
  ASSUME NEW c \in Clients PROVE IndInv /\ ChildWrites(c) => IndInv'
<1> SUFFICES ASSUME IndInv, ChildWrites(c) PROVE IndInv'
  OBVIOUS
<1>1. /\ kid[c].st = "running" /\ kid[c].out < MaxOutput
      /\ kid' = [kid EXCEPT ![c].pipe = @ + 1, ![c].out = @ + 1]
      /\ UNCHANGED <<svars, srv, cli, net, last, faults>>
  BY DEF ChildWrites
<1>2. TypeOK /\ srv \in Servers /\ kid \in [Clients -> Children]
  BY DEF IndInv, TypeOK
<1>3. kid[c].pipe \in 0 .. MaxOutput /\ kid[c].out \in 0 .. MaxOutput /\ MaxOutput \in Nat
      /\ kid[c].pipe <= kid[c].out
  BY <1>1, <1>2, EadAssumption DEF Children, IndInv, ChildInv
<1>4. PICK p, o \in 0 .. MaxOutput : p = kid[c].pipe + 1 /\ o = kid[c].out + 1 /\ p <= o
  <2>1. /\ kid[c].pipe + 1 \in 0 .. MaxOutput /\ kid[c].out + 1 \in 0 .. MaxOutput
        /\ kid[c].pipe + 1 <= kid[c].out + 1
    BY <1>1, <1>3
  <2> QED BY <2>1
<1>5. kid' = [kid EXCEPT ![c].pipe = p, ![c].out = o]
  BY <1>1, <1>4
<1>6. /\ kid' \in [Clients -> Children] /\ kid'[c].runs = kid[c].runs /\ kid'[c].st = "running"
      /\ kid'[c].pipe = p /\ kid'[c].out = o
      /\ \A d \in Clients : d # c => kid'[d] = kid[d]
  <2>1. kid' \in [Clients -> Children]
    BY <1>2, <1>4, <1>5 DEF Children
  <2> QED BY <1>1, <1>2, <1>5, <2>1 DEF Children
<1>7. ChildInv'
  BY <1>1, <1>4, <1>6 DEF IndInv, ChildInv
<1>8. SameSession(srv') /\ StreamInv'
  <2>1. SameSession(srv')
    BY <1>1, <1>2, ServerFields DEF SameSession
  <2>2. \A d \in Clients : kid'[d].st = kid[d].st /\ kid'[d].runs = kid[d].runs
    BY <1>1, <1>6
  <2> QED BY <1>1, <2>1, <2>2 DEF IndInv, StreamInv
<1> DEFINE none == {}
<1>9. net' \subseteq net \cup none
      /\ \A x \in none : x \in Messages /\ x.type # SEND_CMD /\ Truthful(x)'
  BY <1>1
<1> HIDE DEF none
<1> QED BY <1>1, <1>2, <1>6, <1>7, <1>8, <1>9, LoopStep

-----------------------------------------------------------------------------
(* The clients.                                                            *)

\* A step of a client's main: it sends at most one request, its command only once,
\* and claims no more than it knows.
LEMMA MainStep ==
  ASSUME IndInv, NEW c \in Clients, NEW d \in ClientRecords, cli' = [cli EXCEPT ![c] = d],
         NEW A, net' \subseteq net \cup A, faults' \in 0 .. MaxFaults,
         UNCHANGED <<svars, srv, kid, last>>,
         \A m \in A : m \in Messages /\ m.cl = c /\ Truthful(m)',
         \A m1, m2 \in A : m1 = m2,
         \A m \in A : m.type = SEND_CMD => ~CmdSent(c),
         cli[c].pc = "idle" \/ d.cred = cli[c].cred,
         CmdSent(c) => d.pc \in {"cmd", "ok", "failed"},
         d.pc \in {"auth", "cmd"} => d.key.v = Verifier(d.cred) /\ Revealed(d.key.b),
         d.pc = "ok" => d.cred = "right" /\ (d.kind # "none" => kid[c].runs = 1)
  PROVE  IndInv'
<1>1. UNCHANGED <<inst, proc, port, sup, moves>>
  BY DEF svars
<1>2. /\ cli \in [Clients -> ClientRecords] /\ cli' \in [Clients -> ClientRecords]
      /\ cli'[c] = d /\ \A e \in Clients : e # c => cli'[e] = cli[e]
  BY DEF IndInv, TypeOK
<1>3. TypeOK'
  <2>1. \A m \in net' : m \in Messages
    BY DEF IndInv, TypeOK
  <2> QED BY <1>1, <1>2, <2>1 DEF IndInv, TypeOK, SupTypeOK
<1>4. SessionInv' /\ StreamInv' /\ ChildInv' /\ RecordsTrue'
  BY <1>1 DEF IndInv, SessionInv, StreamInv, ChildInv, RecordsTrue
<1>5. \A b : Revealed(b) <=> Revealed(b)'
  BY DEF Revealed
<1>6. \A e \in Clients : CmdSent(e) => CmdSent(e)' /\ cli'[e].cred = cli[e].cred
  BY <1>2 DEF CmdSent
<1>7. StartedInv'
  BY <1>6 DEF IndInv, StartedInv
<1>8. ClientInv'
  BY <1>2, <1>5 DEF IndInv, ClientInv
<1>9. NetInv'
  <2> SUFFICES ASSUME NEW m \in net PROVE Truthful(m)'
    BY DEF NetInv
  <2>1. Truthful(m) /\ m.cl \in Clients
    BY MessageNumbers DEF IndInv, NetInv
  <2> QED BY <1>5, <1>6, <2>1 DEF Truthful
<1>10. CmdInv'
  <2> SUFFICES ASSUME NEW e \in Clients
               PROVE  /\ \A m1, m2 \in net' : IsCmd(m1, e) /\ IsCmd(m2, e) => m1 = m2
                      /\ kid[e].runs >= 1 => \A m \in net' : IsCmd(m, e) => Spent(m)'
    BY DEF CmdInv, IsCmd
  <2>1. \A m : Spent(m) => Spent(m)'
    BY DEF Spent
  <2>2. CASE \E m \in A : IsCmd(m, e)
    <3>1. e = c /\ ~CmdSent(c)
      BY <2>2 DEF IsCmd
    <3>2. ~(kid[c].runs >= 1) /\ \A m \in net : ~IsCmd(m, c)
      BY <3>1 DEF IndInv, StartedInv, NetInv, Truthful, IsCmd
    <3> QED BY <3>1, <3>2
  <2>3. CASE \A m \in A : ~IsCmd(m, e)
    BY <2>1, <2>3 DEF IndInv, CmdInv
  <2> QED BY <2>2, <2>3
<1>11. RunsOnce'
  <2> SUFFICES ASSUME NEW e \in Clients
               PROVE  kid[e].runs <= 1 /\ (kid[e].runs = 1 => cli'[e].cred = "right")
    BY DEF RunsOnce
  <2> QED BY <1>6 DEF IndInv, RunsOnce, StartedInv
<1>12. SuccessIsTrue'
  BY <1>2 DEF IndInv, SuccessIsTrue
<1> QED BY <1>3, <1>4, <1>7, <1>8, <1>9, <1>10, <1>11, <1>12 DEF IndInv

\* The request of each step, and that only the last runs a command.
LEMMA RequestTypes ==
  /\ Request["ping"] = 0 /\ Request["user"] = 2 /\ Request["prime"] = 4
  /\ Request["a"] = 6 /\ Request["auth"] = 8 /\ Request["cmd"] = 10
BY DEF Request

\* send_packet: the client waits, and the request is a datagram of its step.
LEMMA Sent ==
  ASSUME NEW c \in Clients, NEW d \in ClientRecords, NEW pc \in Steps, NEW m \in Messages,
         NEW rest, cli \in [Clients -> ClientRecords], SendPacket(c, d, pc, m, rest)
  PROVE  \E e \in ClientRecords, a \in Messages :
           /\ cli' = [cli EXCEPT ![c] = e] /\ net' = rest \cup {a}
           /\ e.pc = pc /\ e.cred = d.cred /\ e.kind = d.kind /\ e.key = d.key
           /\ a.type = Request[pc] /\ a.cl = c /\ a.key = m.key
<1>1. PICK t \in Nat : t = IF pc \in {"ping", "user"} THEN EAD_TIMEOUT ELSE EAD_TIMEOUT_LONG
  BY EadAssumption
<1>2. PICK e : e = [d EXCEPT !.pc = pc, !.left = t]
  OBVIOUS
<1>3. PICK a : a = [m EXCEPT !.type = Request[pc], !.cl = c]
  OBVIOUS
<1>4. cli' = [cli EXCEPT ![c] = e] /\ net' = rest \cup {a}
  BY <1>1, <1>2, <1>3 DEF SendPacket
<1>5. e \in ClientRecords
  BY <1>2 DEF ClientRecords
<1>6. e.pc = pc /\ e.cred = d.cred /\ e.kind = d.kind /\ e.key = d.key
  BY <1>2 DEF ClientRecords
<1>7. PICK n \in 0 .. Answer(SEND_CMD) : n = Request[pc]
  BY RequestTypes DEF Steps
<1>8. a = [m EXCEPT !.type = n, !.cl = c]
  BY <1>3, <1>7
<1>9. a \in Messages /\ a.type = n /\ a.cl = c /\ a.key = m.key
  BY <1>8 DEF Messages
<1> QED BY <1>4, <1>5, <1>6, <1>7, <1>9

\* main returns: the client has nothing but its result.
LEMMA Ended ==
  ASSUME NEW c \in Clients, NEW d \in ClientRecords, NEW pc \in {"ok", "failed"}, NEW rest,
         Ends(c, d, pc, rest)
  PROVE  \E e \in ClientRecords :
           /\ cli' = [cli EXCEPT ![c] = e] /\ net' = rest
           /\ e.pc = pc /\ e.cred = d.cred /\ e.kind = d.kind
<1>1. PICK e : e = [Client0 EXCEPT !.pc = pc, !.cred = d.cred, !.kind = d.kind]
  OBVIOUS
<1>2. cli' = [cli EXCEPT ![c] = e] /\ net' = rest
  BY <1>1 DEF Ends
<1>3. d.cred \in Credentials \cup {"right"} /\ d.kind \in EadKinds
  BY DEF ClientRecords
<1>4. e = [pc |-> pc, left |-> 0, cred |-> d.cred, kind |-> d.kind,
           key |-> NoKey, rx_iv |-> 0, tx_iv |-> 0]
  BY <1>1 DEF Client0
<1>5. e \in ClientRecords
  BY <1>3, <1>4, KeyFields DEF ClientRecords
<1> QED BY <1>2, <1>4, <1>5

\* A request before the proof preserves the invariant.
LEMMA EarlyRequest ==
  ASSUME IndInv, NEW c \in Clients, NEW d \in ClientRecords, NEW pc \in {"ping", "user", "prime", "a"},
         NEW m \in Messages, NEW rest, rest \subseteq net, SendPacket(c, d, pc, m, rest),
         ~CmdSent(c), cli[c].pc = "idle" \/ d.cred = cli[c].cred,
         faults' \in 0 .. MaxFaults, UNCHANGED <<svars, srv, kid, last>>
  PROVE  IndInv'
<1>1. cli \in [Clients -> ClientRecords] /\ pc \in Steps
  BY DEF IndInv, TypeOK, Steps
<1>2. PICK e \in ClientRecords, a \in Messages :
        /\ cli' = [cli EXCEPT ![c] = e] /\ net' = rest \cup {a}
        /\ e.pc = pc /\ e.cred = d.cred /\ a.type = Request[pc] /\ a.cl = c
  BY <1>1, Sent
<1>3. a.type \in {0, 2, 4, 6}
  BY <1>2, RequestTypes
<1> DEFINE A == {a}
<1>4. /\ net' \subseteq net \cup A
      /\ \A x \in A : x \in Messages /\ x.cl = c /\ x.type # SEND_CMD /\ Truthful(x)'
      /\ \A m1, m2 \in A : m1 = m2
  BY <1>2, <1>3 DEF Truthful
<1> HIDE DEF A
<1>5. /\ ~(e.pc \in {"auth", "cmd"}) /\ ~(e.pc = "ok")
      /\ cli[c].pc = "idle" \/ e.cred = cli[c].cred
  BY <1>2
<1>6. cli' = [cli EXCEPT ![c] = e]
  BY <1>2
<1> QED BY <1>4, <1>5, <1>6, MainStep

\* The end of a client's run preserves the invariant, if what it reports is true.
LEMMA EndStep ==
  ASSUME IndInv, NEW c \in Clients, NEW pc \in {"ok", "failed"}, NEW rest, rest \subseteq net,
         Ends(c, cli[c], pc, rest), faults' \in 0 .. MaxFaults,
         UNCHANGED <<svars, srv, kid, last>>,
         pc = "ok" => cli[c].cred = "right" /\ (cli[c].kind # "none" => kid[c].runs = 1)
  PROVE  IndInv'
<1>1. cli[c] \in ClientRecords
  BY DEF IndInv, TypeOK
<1>2. PICK e \in ClientRecords :
        /\ cli' = [cli EXCEPT ![c] = e] /\ net' = rest
        /\ e.pc = pc /\ e.cred = cli[c].cred /\ e.kind = cli[c].kind
  BY <1>1, Ended
<1> DEFINE none == {}
<1>3. /\ net' \subseteq net \cup none
      /\ \A x \in none : x \in Messages /\ x.cl = c /\ x.type # SEND_CMD /\ Truthful(x)'
      /\ \A m1, m2 \in none : m1 = m2
  BY <1>2
<1> HIDE DEF none
<1> QED BY <1>2, <1>3, MainStep

\* A client that starts preserves the invariant.
LEMMA StartStep ==
  ASSUME NEW c \in Clients PROVE IndInv /\ Start(c) => IndInv'
<1> SUFFICES ASSUME IndInv, Start(c) PROVE IndInv'
  OBVIOUS
<1>1. PICK cred \in Credentials, kind \in Kinds :
        SendPacket(c, [cli[c] EXCEPT !.cred = cred, !.kind = kind], "ping", Blank(c), net)
  BY DEF Start
<1>2. cli[c].pc = "idle" /\ UNCHANGED <<svars, srv, kid, last, faults>>
  BY DEF Start
<1>3. faults' \in 0 .. MaxFaults /\ cli[c] \in ClientRecords
  BY <1>2 DEF IndInv, TypeOK
<1>4. PICK d : d = [cli[c] EXCEPT !.cred = cred, !.kind = kind]
  OBVIOUS
<1>5. d \in ClientRecords
  BY <1>3, <1>4, EadAssumption DEF ClientRecords
<1>6. Blank(c) \in Messages /\ ~CmdSent(c)
  BY <1>2, MessageFields DEF Blank, CmdSent
<1>7. PICK rest : rest = net
  OBVIOUS
<1>8. SendPacket(c, d, "ping", Blank(c), rest) /\ rest \subseteq net
  BY <1>1, <1>4, <1>7
<1> QED BY <1>2, <1>3, <1>5, <1>6, <1>8, EarlyRequest

\* A client that gives up preserves the invariant.
LEMMA GiveUpStep ==
  ASSUME NEW c \in Clients PROVE IndInv /\ GiveUp(c) => IndInv'
<1> SUFFICES ASSUME IndInv, GiveUp(c) PROVE IndInv'
  OBVIOUS
<1>1. PICK rest : rest = net
  OBVIOUS
<1>2. /\ Ends(c, cli[c], "failed", rest) /\ rest \subseteq net
      /\ UNCHANGED <<svars, srv, kid, last, faults>>
  BY <1>1 DEF GiveUp
<1>3. faults' \in 0 .. MaxFaults
  BY <1>2 DEF IndInv, TypeOK
<1> QED BY <1>2, <1>3, EndStep

\* What the datagrams of a client that has derived its key carry.
LEMMA ClientKey ==
  ASSUME IndInv, NEW c \in Clients, cli[c].pc \in {"auth", "cmd"}
  PROVE  cli[c].key.v = Verifier(cli[c].cred) /\ Revealed(cli[c].key.b)
BY DEF IndInv, ClientInv

\* handle_prime's successor: the client has B, derives the key and sends its proof.
LEMMA ProofStep ==
  ASSUME IndInv, NEW c \in Clients, NEW m \in net, NEW rest, rest \subseteq net,
         cli[c].pc = "a", m.type = Answer(SEND_A), NEW key,
         key = [a |-> c, b |-> m.b, v |-> Verifier(cli[c].cred)],
         SendPacket(c, [cli[c] EXCEPT !.key = key], "auth", [Blank(c) EXCEPT !.key = key], rest),
         faults' \in 0 .. MaxFaults, UNCHANGED <<svars, srv, kid, last>>
  PROVE  IndInv'
<1>1. TypeOK /\ cli[c] \in ClientRecords /\ cli \in [Clients -> ClientRecords]
  BY DEF IndInv, TypeOK
<1>2. m.b \in Nat /\ Revealed(m.b)
  BY <1>1, MessageNumbers DEF IndInv, NetInv, Truthful
<1>3. key \in Keys /\ key.b = m.b /\ key.v = Verifier(cli[c].cred)
  <2>1. Verifier(cli[c].cred) \in Credentials \cup {"root"}
    BY <1>1 DEF ClientRecords, Verifier
  <2> QED BY <1>2, <2>1 DEF Keys
<1>4. PICK d : d = [cli[c] EXCEPT !.key = key]
  OBVIOUS
<1>5. d \in ClientRecords /\ d.key = key /\ d.cred = cli[c].cred
  BY <1>1, <1>3, <1>4 DEF ClientRecords
<1>6. PICK x : x = [Blank(c) EXCEPT !.key = key]
  OBVIOUS
<1>7. x \in Messages
  <2>1. Blank(c) \in Messages
    BY MessageFields DEF Blank
  <2> QED BY <1>3, <1>6, <2>1 DEF Messages
<1>8. SendPacket(c, d, "auth", x, rest) /\ "auth" \in Steps
  BY <1>4, <1>6 DEF Steps
<1>9. PICK e \in ClientRecords, a \in Messages :
        /\ cli' = [cli EXCEPT ![c] = e] /\ net' = rest \cup {a}
        /\ e.pc = "auth" /\ e.cred = d.cred /\ e.key = d.key
        /\ a.type = Request["auth"] /\ a.cl = c
  BY <1>1, <1>5, <1>7, <1>8, Sent
<1> DEFINE A == {a}
<1>10. /\ net' \subseteq net \cup A
       /\ \A y \in A : y \in Messages /\ y.cl = c /\ y.type # SEND_CMD /\ Truthful(y)'
       /\ \A m1, m2 \in A : m1 = m2
  BY <1>9, RequestTypes DEF Truthful
<1> HIDE DEF A
<1>11. /\ e.key.v = Verifier(e.cred) /\ Revealed(e.key.b) /\ ~(e.pc = "ok")
       /\ e.cred = cli[c].cred /\ ~CmdSent(c)
  BY <1>2, <1>3, <1>5, <1>9 DEF CmdSent
<1>12. cli' = [cli EXCEPT ![c] = e]
  BY <1>9
<1> QED BY <1>10, <1>11, <1>12, MainStep

\* The server's proof is right, and the client asks for its command.
LEMMA CommandRequest ==
  ASSUME IndInv, NEW c \in Clients, NEW rest, rest \subseteq net, NEW ofs \in Offsets,
         cli[c].pc = "auth",
         SendPacket(c, Counted(cli[c], ofs), "cmd",
                    [Blank(c) EXCEPT !.key = cli[c].key, !.iv = cli[c].tx_iv + ofs,
                                     !.kind = cli[c].kind], rest),
         faults' \in 0 .. MaxFaults, UNCHANGED <<svars, srv, kid, last>>
  PROVE  IndInv'
<1>1. cli[c] \in ClientRecords /\ cli \in [Clients -> ClientRecords]
  BY DEF IndInv, TypeOK
<1>2. PICK n \in Nat : n = cli[c].tx_iv + ofs
  BY <1>1, EadAssumption DEF ClientRecords
<1>3. PICK d : d = [cli[c] EXCEPT !.tx_iv = n]
  OBVIOUS
<1>4. Counted(cli[c], ofs) = d
  BY <1>2, <1>3 DEF Counted
<1>5. d \in ClientRecords /\ d.key = cli[c].key /\ d.cred = cli[c].cred
  BY <1>1, <1>3 DEF ClientRecords
<1>6. PICK x : x = [Blank(c) EXCEPT !.key = cli[c].key, !.iv = n, !.kind = cli[c].kind]
  OBVIOUS
<1>7. x \in Messages /\ x.key = cli[c].key
  <2>1. Blank(c) \in Messages
    BY MessageFields DEF Blank
  <2>2. cli[c].key \in Keys /\ cli[c].kind \in EadKinds
    BY <1>1 DEF ClientRecords
  <2> QED BY <1>6, <2>1, <2>2 DEF Messages
<1>8. SendPacket(c, d, "cmd", x, rest) /\ "cmd" \in Steps
  BY <1>2, <1>4, <1>6 DEF Steps
<1>9. PICK e \in ClientRecords, a \in Messages :
        /\ cli' = [cli EXCEPT ![c] = e] /\ net' = rest \cup {a}
        /\ e.pc = "cmd" /\ e.cred = d.cred /\ e.key = d.key
        /\ a.type = Request["cmd"] /\ a.cl = c /\ a.key = x.key
  BY <1>1, <1>5, <1>7, <1>8, Sent
<1>10. cli' = [cli EXCEPT ![c] = e] /\ cli'[c] = e
  BY <1>1, <1>9
<1>11. /\ e.key.v = Verifier(e.cred) /\ Revealed(e.key.b) /\ ~(e.pc = "ok")
       /\ e.cred = cli[c].cred /\ ~CmdSent(c)
  BY <1>5, <1>9, ClientKey DEF CmdSent
<1>12. Truthful(a)'
  <2>1. a.type = SEND_CMD /\ a.cl = c /\ a.key = e.key
    BY <1>5, <1>7, <1>9, RequestTypes
  <2>2. Revealed(a.key.b)' /\ CmdSent(c)'
    BY <1>9, <1>10, <1>11, <2>1 DEF Revealed, CmdSent
  <2> QED BY <1>10, <1>11, <2>1, <2>2 DEF Truthful
<1> DEFINE A == {a}
<1>13. /\ net' \subseteq net \cup A
       /\ \A y \in A : y \in Messages /\ y.cl = c /\ Truthful(y)'
       /\ \A m1, m2 \in A : m1 = m2
  BY <1>9, <1>12
<1> HIDE DEF A
<1>14. e.pc \in {"cmd", "ok", "failed"} /\ cli' = [cli EXCEPT ![c] = e]
  BY <1>9
<1> QED BY <1>11, <1>13, <1>14, MainStep

\* A part of a command's output: the client goes on waiting.
LEMMA OutputStep ==
  ASSUME IndInv, NEW c \in Clients, NEW m \in net, cli[c].pc = "cmd",
         NEW e, e = [cli[c] EXCEPT !.rx_iv = m.iv], cli' = [cli EXCEPT ![c] = e],
         net' \subseteq net, faults' \in 0 .. MaxFaults, UNCHANGED <<svars, srv, kid, last>>
  PROVE  IndInv'
<1>1. TypeOK /\ cli[c] \in ClientRecords /\ m.iv \in Nat
  BY MessageNumbers DEF IndInv, TypeOK
<1>2. e \in ClientRecords /\ e.pc = "cmd" /\ e.cred = cli[c].cred /\ e.key = cli[c].key
  BY <1>1 DEF ClientRecords
<1>3. /\ e.key.v = Verifier(e.cred) /\ Revealed(e.key.b) /\ ~(e.pc = "ok")
      /\ e.cred = cli[c].cred /\ e.pc \in {"cmd", "ok", "failed"} /\ e \in ClientRecords
  BY <1>2, ClientKey
<1> DEFINE none == {}
<1>4. /\ net' \subseteq net \cup none
      /\ \A x \in none : x \in Messages /\ x.cl = c /\ x.type # SEND_CMD /\ Truthful(x)'
      /\ \A m1, m2 \in none : m1 = m2
  OBVIOUS
<1> HIDE DEF none
<1> QED BY <1>3, <1>4, MainStep

\* The steps of main after an awaited answer, one for each place where it waits.
AdvanceFrom(c, d, m, rest) ==
  \/ /\ d.pc = "ping"
     /\ SendPacket(c, d, "user", [Blank(c) EXCEPT !.user = UserName(d.cred)], rest)
  \/ d.pc = "user" /\ SendPacket(c, d, "prime", Blank(c), rest)
  \/ d.pc = "prime" /\ SendPacket(c, d, "a", Blank(c), rest)
  \/ /\ d.pc = "a"
     /\ \E key : /\ key = [a |-> c, b |-> m.b, v |-> Verifier(d.cred)]
                 /\ SendPacket(c, [d EXCEPT !.key = key], "auth",
                               [Blank(c) EXCEPT !.key = key], rest)
  \/ d.pc = "auth" /\ m.key = d.key /\ d.kind = "none" /\ Ends(c, d, "ok", rest)
  \/ /\ d.pc = "auth"
     /\ \E ofs \in Offsets :
          SendPacket(c, Counted(d, ofs), "cmd",
                     [Blank(c) EXCEPT !.key = d.key, !.iv = d.tx_iv + ofs,
                                      !.kind = d.kind], rest)
  \/ d.pc = "cmd" /\ Ends(c, d, "ok", rest)
  \/ d.pc = "cmd" /\ cli' = [cli EXCEPT ![c].rx_iv = m.iv] /\ net' = rest

\* They are what Advance does with a client d.
LEMMA AdvanceCases ==
  ASSUME NEW c, NEW m, NEW rest, NEW d, d = cli[c], Advance(c, m, rest)
  PROVE  AdvanceFrom(c, d, m, rest)
BY Zenon DEF Advance, AdvanceFrom

\* An answer that a client waits for preserves the invariant.
LEMMA AdvanceStep ==
  ASSUME IndInv, NEW c \in Clients, NEW m \in net, m.cl = c, Awaited(c, m),
         NEW rest, rest \subseteq net, Advance(c, m, rest),
         faults' \in 0 .. MaxFaults, UNCHANGED <<svars, srv, kid, last>>
  PROVE  IndInv'
<1>1. TypeOK /\ cli[c] \in ClientRecords /\ Truthful(m) /\ m.type = Answer(Request[cli[c].pc])
  BY DEF IndInv, TypeOK, NetInv, Awaited
<1>2. PICK b : b = Blank(c)
  OBVIOUS
<1>3. b \in Messages
  BY <1>2, MessageFields DEF Blank
<1>4. PICK d : d = cli[c]
  OBVIOUS
<1>5. d \in ClientRecords /\ d.cred = cli[c].cred
  BY <1>1, <1>4
<1>6. CASE /\ d.pc = "ping"
           /\ SendPacket(c, d, "user", [Blank(c) EXCEPT !.user = UserName(d.cred)], rest)
  <2>1. PICK x : x = [b EXCEPT !.user = UserName(d.cred)]
    OBVIOUS
  <2>2. UserName(d.cred) \in {"none", "root", "stranger"}
    BY DEF UserName
  <2>3. x \in Messages
    BY <1>3, <2>1, <2>2 DEF Messages
  <2>4. SendPacket(c, d, "user", x, rest) /\ ~CmdSent(c)
    BY <1>2, <1>4, <1>6, <2>1 DEF CmdSent
  <2> QED BY <1>5, <2>3, <2>4, EarlyRequest
<1>7. CASE d.pc = "user" /\ SendPacket(c, d, "prime", Blank(c), rest)
  <2>1. SendPacket(c, d, "prime", b, rest) /\ ~CmdSent(c)
    BY <1>2, <1>4, <1>7 DEF CmdSent
  <2> QED BY <1>3, <1>5, <2>1, EarlyRequest
<1>8. CASE d.pc = "prime" /\ SendPacket(c, d, "a", Blank(c), rest)
  <2>1. SendPacket(c, d, "a", b, rest) /\ ~CmdSent(c)
    BY <1>2, <1>4, <1>8 DEF CmdSent
  <2> QED BY <1>3, <1>5, <2>1, EarlyRequest
<1>9. ASSUME d.pc = "a", NEW key, key = [a |-> c, b |-> m.b, v |-> Verifier(d.cred)],
             SendPacket(c, [d EXCEPT !.key = key], "auth", [Blank(c) EXCEPT !.key = key], rest)
      PROVE  IndInv'
  <2>1. m.type = Answer(SEND_A)
    BY <1>1, <1>4, <1>9, RequestTypes
  <2>2. /\ cli[c].pc = "a" /\ key = [a |-> c, b |-> m.b, v |-> Verifier(cli[c].cred)]
        /\ SendPacket(c, [cli[c] EXCEPT !.key = key], "auth",
                      [Blank(c) EXCEPT !.key = key], rest)
    BY <1>4, <1>9
  <2> QED BY <2>1, <2>2, ProofStep
<1>10. CASE d.pc = "auth" /\ m.key = d.key /\ d.kind = "none" /\ Ends(c, d, "ok", rest)
  <2>1. m.key.v = "root"
    BY <1>1, <1>4, <1>10, RequestTypes DEF Truthful
  <2>2. Verifier(cli[c].cred) = "root"
    BY <1>4, <1>10, <2>1, ClientKey
  <2>3. cli[c].cred = "right" /\ cli[c].kind = "none"
    BY <1>1, <1>4, <1>10, <2>2, VerifierRoot
  <2>4. Ends(c, cli[c], "ok", rest)
    BY <1>4, <1>10
  <2> QED BY <2>3, <2>4, EndStep
<1>11. ASSUME d.pc = "auth", NEW ofs \in Offsets,
              SendPacket(c, Counted(d, ofs), "cmd",
                         [Blank(c) EXCEPT !.key = d.key, !.iv = d.tx_iv + ofs,
                                          !.kind = d.kind], rest)
       PROVE  IndInv'
  <2>1. /\ cli[c].pc = "auth"
        /\ SendPacket(c, Counted(cli[c], ofs), "cmd",
                      [Blank(c) EXCEPT !.key = cli[c].key, !.iv = cli[c].tx_iv + ofs,
                                       !.kind = cli[c].kind], rest)
    BY <1>4, <1>11
  <2> QED BY <2>1, CommandRequest
<1>12. CASE d.pc = "cmd" /\ Ends(c, d, "ok", rest)
  <2>1. kid[c].runs >= 1
    BY <1>1, <1>4, <1>12, RequestTypes DEF Truthful
  <2>2. kid[c].runs \in Nat
    BY <1>1, ChildFields
  <2>3. kid[c].runs = 1 /\ cli[c].cred = "right"
    BY <2>1, <2>2 DEF IndInv, RunsOnce
  <2>4. Ends(c, cli[c], "ok", rest)
    BY <1>4, <1>12
  <2> QED BY <2>3, <2>4, EndStep
<1>13. CASE d.pc = "cmd" /\ cli' = [cli EXCEPT ![c].rx_iv = m.iv] /\ net' = rest
  <2>1. PICK e : e = [cli[c] EXCEPT !.rx_iv = m.iv]
    OBVIOUS
  <2>2. cli[c].pc = "cmd" /\ cli' = [cli EXCEPT ![c] = e]
    BY <1>4, <1>13, <2>1
  <2> QED BY <1>13, <2>1, <2>2, OutputStep
<1>14. AdvanceFrom(c, d, m, rest)
  BY <1>4, AdvanceCases
<1> QED BY <1>6, <1>7, <1>8, <1>9, <1>10, <1>11, <1>12, <1>13, <1>14 DEF AdvanceFrom

\* An answer preserves the invariant, whether it is accepted or not.
LEMMA ClientReceivesStep ==
  ASSUME NEW c \in Clients PROVE IndInv /\ ClientReceives(c) => IndInv'
<1> SUFFICES ASSUME IndInv, ClientReceives(c) PROVE IndInv'
  OBVIOUS
<1>1. PICK m \in net :
        /\ m.cl = c
        /\ \/ Awaited(c, m) /\ Advance(c, m, net \ {m}) /\ UNCHANGED faults
           \/ Awaited(c, m) /\ Advance(c, m, net) /\ Fault
           \/ net' = net \ {m} /\ UNCHANGED <<cli, faults>>
  BY DEF ClientReceives
<1>2. UNCHANGED <<svars, srv, kid, last>>
  BY DEF ClientReceives
<1>3. faults' \in 0 .. MaxFaults
  <2>1. UNCHANGED faults \/ Fault
    BY <1>1
  <2> QED BY <2>1, EadAssumption DEF IndInv, TypeOK, Fault
<1>4. CASE net' = net \ {m} /\ UNCHANGED cli
  BY <1>2, <1>3, <1>4, LossStep
<1>5. ASSUME NEW rest, rest \in {net, net \ {m}}, Awaited(c, m), Advance(c, m, rest)
      PROVE  IndInv'
  <2>1. rest \subseteq net
    BY <1>5
  <2> QED BY <1>1, <1>2, <1>3, <1>5, <2>1, AdvanceStep
<1> QED BY <1>1, <1>4, <1>5

-----------------------------------------------------------------------------
(* Time and the supervisor.                                                *)

\* Only the clocks of the clients go on.
SameClients ==
  /\ cli' \in [Clients -> ClientRecords]
  /\ \A c \in Clients :
       /\ cli'[c].pc = cli[c].pc /\ cli'[c].cred = cli[c].cred
       /\ cli'[c].kind = cli[c].kind /\ cli'[c].key = cli[c].key

\* A tick of the clients' clocks.
LEMMA ClientsTick ==
  ASSUME cli \in [Clients -> ClientRecords],
         \A c \in Clients : cli[c].pc \in Steps => cli[c].left > 0,
         cli' = [c \in Clients |->
                   IF cli[c].pc \in Steps THEN [cli[c] EXCEPT !.left = @ - 1] ELSE cli[c]]
  PROVE  SameClients
<1> SUFFICES ASSUME NEW c \in Clients
             PROVE  /\ cli'[c] \in ClientRecords
                    /\ cli'[c].pc = cli[c].pc /\ cli'[c].cred = cli[c].cred
                    /\ cli'[c].kind = cli[c].kind /\ cli'[c].key = cli[c].key
  BY DEF SameClients
<1>1. cli[c] \in ClientRecords
  OBVIOUS
<1>2. CASE cli[c].pc \notin Steps
  BY <1>1, <1>2
<1>3. CASE cli[c].pc \in Steps
  <2>1. PICK n \in Nat : n = cli[c].left - 1
    BY <1>1, <1>3 DEF ClientRecords
  <2>2. cli'[c] = [cli[c] EXCEPT !.left = n]
    BY <1>3, <2>1
  <2>3. cli'[c] \in ClientRecords
    BY <1>1, <2>2 DEF ClientRecords
  <2> QED BY <1>1, <2>2, <2>3 DEF ClientRecords
<1> QED BY <1>2, <1>3

\* A tick preserves the invariant: the loop waits for the last time before its time is up.
LEMMA TickStep == IndInv /\ Tick => IndInv'
<1> SUFFICES ASSUME IndInv, Tick PROVE IndInv'
  OBVIOUS
<1>1. /\ UNCHANGED <<svars, kid, net, last>> /\ TypeOK
      /\ UNCHANGED <<inst, proc, port, sup, moves>>
  BY DEF Tick, IndInv, svars
<1>2. SameClients
  BY <1>1, ClientsTick DEF Tick, TypeOK
<1>3. faults' \in 0 .. MaxFaults
  BY EadAssumption DEF Tick, Fault, IndInv, TypeOK
<1>4. srv' \in Servers /\ SameSession(srv') /\ StreamInv'
  <2>1. CASE srv.pc = "loop" /\ srv' = srv
    <3>1. SameSession(srv')
      BY <1>1, <2>1, ServerFields DEF SameSession
    <3> QED BY <1>1, <2>1, <3>1 DEF IndInv, TypeOK, StreamInv
  <2>2. CASE Waiting /\ srv' = [srv EXCEPT !.elapsed = @ + 1, !.tv = 0, !.burst = 0]
    <3>1. /\ srv.elapsed \in 0 .. CmdTimeout /\ srv.tv \in {0, 1} /\ srv.burst \in Nat
          /\ srv \in Servers /\ srv.pc = "select"
      BY <1>1, <2>2, ServerFields DEF TypeOK, Waiting
    <3>2. srv.elapsed # CmdTimeout
      BY <2>2, <3>1, EadAssumption DEF IndInv, StreamInv, Waiting
    <3>3. PICK n \in 0 .. CmdTimeout : n = srv.elapsed + 1
      BY <3>1, <3>2, EadAssumption
    <3>4. srv' = [srv EXCEPT !.elapsed = n, !.tv = 0, !.burst = 0]
      BY <2>2, <3>3
    <3>5. srv' \in Servers
      BY <3>1, <3>4 DEF Servers
    <3>6. /\ srv'.pc = "select" /\ srv'.cur = srv.cur /\ srv'.child_pending = srv.child_pending
          /\ srv'.foreign = srv.foreign /\ srv'.tv = 0 /\ srv'.burst = 0
      BY <3>1, <3>4 DEF Servers
    <3>7. SameSession(srv')
      BY <3>1, <3>4 DEF Servers, SameSession
    <3>8. StreamInv'
      BY <1>1, <3>1, <3>6 DEF IndInv, StreamInv
    <3> QED BY <3>5, <3>7, <3>8
  <2> QED BY <2>1, <2>2 DEF Tick, Waiting
<1>5. TypeOK'
  BY <1>1, <1>2, <1>3, <1>4 DEF TypeOK, SupTypeOK, SameClients
<1>6. SessionInv' /\ ChildInv' /\ RecordsTrue'
  BY <1>1, <1>4 DEF IndInv, SessionInv, SameSession, ChildInv, RecordsTrue
<1>7. \A b : Revealed(b) <=> Revealed(b)'
  BY <1>1, <1>4 DEF Revealed, SameSession
<1>8. \A c \in Clients : CmdSent(c) <=> CmdSent(c)'
  BY <1>2 DEF SameClients, CmdSent
<1>9. StartedInv' /\ ClientInv' /\ RunsOnce' /\ SuccessIsTrue'
  BY <1>1, <1>2, <1>7, <1>8
     DEF IndInv, SameClients, StartedInv, ClientInv, RunsOnce, SuccessIsTrue
<1>10. NetInv'
  <2> SUFFICES ASSUME NEW m \in net PROVE Truthful(m)'
    BY <1>1 DEF NetInv
  <2>1. Truthful(m) /\ m.cl \in Clients
    BY <1>1, MessageNumbers DEF IndInv, NetInv
  <2> QED BY <1>1, <1>2, <1>7, <1>8, <2>1 DEF Truthful, SameClients
<1>11. CmdInv'
  <2>1. \A m \in net : Spent(m) => Spent(m)'
    <3> SUFFICES ASSUME NEW m \in net, Spent(m) PROVE Spent(m)'
      OBVIOUS
    <3>1. srv.rx_iv \in Nat /\ srv'.rx_iv \in Nat /\ m.iv \in Nat
      BY <1>1, <1>4, ServerFields, MessageNumbers DEF Servers
    <3> QED BY <1>4, <3>1 DEF Spent, SameSession
  <2> QED BY <1>1, <2>1 DEF IndInv, CmdInv, IsCmd
<1> QED BY <1>4, <1>5, <1>6, <1>9, <1>10, <1>11 DEF IndInv

\* A step of the main process that leaves the server alone.
LEMMA KeptStep ==
  ASSUME IndInv, SupInv', faults' \in 0 .. MaxFaults, UNCHANGED <<srv, cli, kid, net, last>>
  PROVE  IndInv'
<1>1. TypeOK' /\ RecordsTrue'
  BY DEF IndInv, TypeOK, SupInv
<1>2. SessionInv' /\ StreamInv' /\ ChildInv' /\ ClientInv' /\ StartedInv'
  BY DEF IndInv, SessionInv, StreamInv, ChildInv, ClientInv, Revealed, StartedInv, CmdSent
<1>3. NetInv' /\ CmdInv'
  BY DEF IndInv, NetInv, Truthful, Revealed, CmdSent, CmdInv, Spent, IsCmd
<1>4. RunsOnce' /\ SuccessIsTrue'
  BY DEF IndInv, RunsOnce, SuccessIsTrue
<1> QED BY <1>1, <1>2, <1>3, <1>4 DEF IndInv

\* A server that has just been forked has no session.
LEMMA NewServer ==
  /\ Server0 \in Servers /\ Server0.state = SET_USERNAME /\ Server0.ts = 0
  /\ Server0.pc = "loop" /\ Server0.tv = 0 /\ Server0.elapsed = 0
<1>1. 0 \in 0 .. CmdTimeout
  BY EadAssumption
<1> QED BY <1>1, KeyFields DEF Server0, Servers, States

\* A server that is killed: what it revealed stays revealed, no session has a spent
\* command's key again, and its commands go on without it.
LEMMA KilledStep ==
  ASSUME IndInv, SupInv', faults' \in 0 .. MaxFaults, srv' = Server0,
         kid' = [c \in Clients |-> IF kid[c].st \in {"running", "killed"}
                                     THEN [kid[c] EXCEPT !.st = "orphan"] ELSE kid[c]],
         UNCHANGED <<cli, net, last>>
  PROVE  IndInv'
<1>1. TypeOK /\ kid \in [Clients -> Children] /\ last \in Nat
  BY DEF IndInv, TypeOK
<1>2. /\ kid' \in [Clients -> Children]
      /\ \A c \in Clients :
           /\ kid'[c].runs = kid[c].runs /\ kid'[c].st # "running"
           /\ kid[c].st = "none" => kid'[c] = kid[c]
  <2> SUFFICES ASSUME NEW c \in Clients
               PROVE  /\ kid'[c] \in Children /\ kid'[c].runs = kid[c].runs
                      /\ kid'[c].st # "running" /\ (kid[c].st = "none" => kid'[c] = kid[c])
    OBVIOUS
  <2>1. CASE kid[c].st \in {"running", "killed"}
    <3>1. kid'[c] = [kid[c] EXCEPT !.st = "orphan"] /\ kid[c] \in Children
      BY <1>1, <2>1
    <3>2. kid'[c] \in Children
      BY <3>1 DEF Children
    <3> QED BY <2>1, <3>1, <3>2 DEF Children
  <2>2. CASE kid[c].st \notin {"running", "killed"}
    BY <1>1, <2>2
  <2> QED BY <2>1, <2>2
<1>3. TypeOK' /\ RecordsTrue'
  BY <1>1, <1>2, NewServer DEF TypeOK, SupInv
<1>4. SessionInv' /\ StreamInv'
  BY <1>1, NewServer DEF SessionInv, StreamInv
<1>5. ChildInv'
  BY <1>2 DEF IndInv, ChildInv
<1>6. \A b \in Nat : Revealed(b) => Revealed(b)'
  BY NewServer DEF Revealed
<1>7. \A m : Spent(m)'
  BY NewServer DEF Spent
<1>8. ClientInv'
  BY <1>1, <1>6, ClientKept DEF IndInv
<1>9. StartedInv' /\ RunsOnce' /\ SuccessIsTrue'
  BY <1>2 DEF IndInv, StartedInv, CmdSent, RunsOnce, SuccessIsTrue
<1> DEFINE none == {}
<1>10. net' \subseteq net \cup none /\ \A m \in none : m.type # SEND_CMD /\ Truthful(m)'
  OBVIOUS
<1> HIDE DEF none
<1>11. NetInv'
  BY <1>1, <1>2, <1>3, <1>6, <1>10, NetKept DEF IndInv, CmdSent
<1>12. CmdInv'
  BY <1>2, <1>7, <1>10, CmdKept DEF IndInv
<1> QED BY <1>3, <1>4, <1>5, <1>8, <1>9, <1>11, <1>12 DEF IndInv

\* A step of the main process, a signal to it, a moved port or a server that dies.
LEMMA SupervisorSteps ==
  IndInv /\ (SupervisorStep \/ ForkFails \/ Interrupt \/ PortMoves \/ Crash) => IndInv'
<1> SUFFICES ASSUME IndInv, SupervisorStep \/ ForkFails \/ Interrupt \/ PortMoves \/ Crash
             PROVE  IndInv'
  OBVIOUS
<1>1. SupInv
  BY DEF IndInv, TypeOK, SupInv
<1>2. SupInv'
  <2>1. \/ check_bridge \/ BridgesListed \/ Sweep \/ NextPass
        \/ \E i \in Instances : StartServer(i, TRUE) \/ StartServer(i, FALSE)
        \/ server_handle_sigint
        \/ \E i \in Instances : MovePort(i) \/ ServerDies(i)
    BY DEF SupervisorStep, ForkFails, Interrupt, PortMoves, Crash
  <2> QED BY <1>1, <2>1, CheckBridgeSup, SweepSup, StartServerSup, SigintSup, OtherSup
<1>3. faults' \in 0 .. MaxFaults
  <2>1. UNCHANGED faults \/ Fault
    BY DEF SupervisorStep, ForkFails, Interrupt, PortMoves, Crash, evars
  <2> QED BY <2>1, EadAssumption DEF IndInv, TypeOK, Fault
<1>4. CASE PortMoves
  BY <1>2, <1>3, <1>4, KeptStep DEF PortMoves, evars
<1>5. CASE ServerFollows
  <2>1. CASE proc'[First].alive
    BY <1>2, <1>3, <1>5, <2>1, KeptStep DEF ServerFollows
  <2>2. CASE ~proc'[First].alive
    BY <1>2, <1>3, <1>5, <2>2, KilledStep DEF ServerFollows
  <2> QED BY <2>1, <2>2
<1> QED BY <1>4, <1>5 DEF SupervisorStep, ForkFails, Interrupt, Crash

-----------------------------------------------------------------------------
(* The invariant and what follows from it.                                 *)

\* The invariant holds initially.
LEMMA IndInvInit == Init => IndInv
<1> SUFFICES ASSUME Init PROVE IndInv
  OBVIOUS
<1>1. SupInv
  BY SupInvInit DEF Init
<1>2. /\ srv = Server0 /\ cli = [c \in Clients |-> Client0]
      /\ kid = [c \in Clients |-> Child0] /\ net = {} /\ last = 0 /\ faults = 0
  BY DEF Init
<1>3. /\ Client0 \in ClientRecords /\ Client0.pc = "idle"
  BY KeyFields DEF Client0, ClientRecords, EadKinds
<1>4. /\ Child0 \in Children /\ Child0.runs = 0 /\ Child0.st = "none"
      /\ Child0.pipe = 0 /\ Child0.out = 0
  BY EadAssumption DEF Child0, Children
<1>5. TypeOK /\ RecordsTrue
  BY <1>1, <1>2, <1>3, <1>4, NewServer, EadAssumption DEF TypeOK, SupInv
<1>6. SessionInv /\ StreamInv
  BY <1>2, NewServer DEF SessionInv, StreamInv
<1>7. ChildInv /\ ClientInv /\ StartedInv /\ RunsOnce /\ SuccessIsTrue
  BY <1>2, <1>3, <1>4 DEF ChildInv, ClientInv, StartedInv, RunsOnce, SuccessIsTrue
<1>8. NetInv /\ CmdInv
  BY <1>2 DEF NetInv, CmdInv
<1> QED BY <1>5, <1>6, <1>7, <1>8 DEF IndInv

\* A step that changes nothing.
LEMMA StutterStep == IndInv /\ UNCHANGED vars => IndInv'
<1> SUFFICES ASSUME IndInv, UNCHANGED vars PROVE IndInv'
  OBVIOUS
<1>1. UNCHANGED <<svars, srv, cli, kid, net, last, faults>>
  BY DEF vars, evars
<1>2. net' \subseteq net /\ faults' \in 0 .. MaxFaults
  BY <1>1 DEF IndInv, TypeOK
<1> QED BY <1>1, <1>2, LossStep

\* Every step preserves it.
LEMMA IndInvNext == IndInv /\ [Next]_vars => IndInv'
<1> SUFFICES ASSUME IndInv, [Next]_vars PROVE IndInv'
  OBVIOUS
<1>1. CASE ServerStep
  BY <1>1, ParseMessageStep, DatagramLost, SendCmdStep, StreamSelectStep, StreamCheckStep, StreamEndsStep
     DEF ServerStep
<1>2. CASE ClientStep
  BY <1>2, ClientReceivesStep, GiveUpStep DEF ClientStep
<1>3. CASE ChildStep
  BY <1>3, ChildExitsStep, ChildWritesStep DEF ChildStep
<1>4. CASE \E c \in Clients : Start(c)
  BY <1>4, StartStep
<1>5. CASE Lose \/ Unheard
  BY <1>5, DatagramLost
<1>6. CASE Tick
  BY <1>6, TickStep
<1>7. CASE SupervisorStep \/ ForkFails \/ Interrupt \/ PortMoves \/ Crash
  BY <1>7, SupervisorSteps
<1>8. CASE UNCHANGED vars
  BY <1>8, StutterStep
<1> QED BY <1>1, <1>2, <1>3, <1>4, <1>5, <1>6, <1>7, <1>8 DEF Next

\* IndInv is an invariant of the server, its clients and the supervisor.
LEMMA Invariance == Spec => []IndInv
BY IndInvInit, IndInvNext, PTL DEF Spec

\* The types: among them, handle_send_cmd's loop never runs longer than its time, and
\* no read empties a pipe that holds nothing.
THEOREM TypeCorrect == Spec => []TypeOK
<1>1. IndInv => TypeOK
  BY DEF IndInv
<1> QED BY <1>1, Invariance, PTL

\* check_bridge_port, start_server and stop_server: a server that runs is known to the
\* main process, and was opened for the bridge its record names.
THEOREM RecordsStayTrue == Spec => []RecordsTrue
<1>1. IndInv => RecordsTrue
  BY DEF IndInv
<1> QED BY <1>1, Invariance, PTL

\* parse_message, handle_send_auth and ead_check_rx_iv: a command runs at most once, and
\* only for a client that knows the password.
THEOREM RunsAtMostOnce == Spec => []RunsOnce
<1>1. IndInv => RunsOnce
  BY DEF IndInv
<1> QED BY <1>1, Invariance, PTL

\* ead-client's exit code: success is reported only when the command was started.
THEOREM SuccessReported == Spec => []SuccessIsTrue
<1>1. IndInv => SuccessIsTrue
  BY DEF IndInv
<1> QED BY <1>1, Invariance, PTL

\* handle_get_prime, handle_send_a and handle_send_auth find an open session, and B and
\* the key are of it.
THEOREM SessionsOpen == Spec => []SessionOpen
<1>1. IndInv => SessionOpen
  <2> SUFFICES ASSUME IndInv PROVE SessionOpen
    OBVIOUS
  <2>1. TypeOK /\ SessionInv
    BY DEF IndInv
  <2> QED BY <2>1, ServerFields DEF SessionInv, SessionOpen
<1> QED BY <1>1, Invariance, PTL

-----------------------------------------------------------------------------
(* The last answer to a command.                                           *)

\* send_packet: requests are not answers.
LEMMA RequestNotDone ==
  ASSUME NEW c \in Clients, NEW d, NEW pc \in Steps, NEW m \in Messages, ~m.done,
         NEW rest, rest \subseteq net, SendPacket(c, d, pc, m, rest)
  PROVE  \A x \in net' \ net : ~x.done
<1>1. PICK a : a = [m EXCEPT !.type = Request[pc], !.cl = c]
  OBVIOUS
<1>2. net' = rest \cup {a}
  BY <1>1 DEF SendPacket
<1>3. a.done = m.done
  BY <1>1 DEF Messages
<1> QED BY <1>2, <1>3

\* A request that is blank but for its contents is a datagram that is not done.
LEMMA FilledNotDone ==
  ASSUME NEW c \in Clients, NEW user \in {"none", "root", "stranger"}, NEW key \in Keys,
         NEW iv \in Nat, NEW kind \in EadKinds,
         NEW x \in {Blank(c), [Blank(c) EXCEPT !.user = user], [Blank(c) EXCEPT !.key = key],
                    [Blank(c) EXCEPT !.key = key, !.iv = iv, !.kind = kind]}
  PROVE  x \in Messages /\ ~x.done
<1>1. PICK b : b = Blank(c)
  OBVIOUS
<1>2. b \in Messages /\ ~b.done
  BY <1>1, MessageFields DEF Blank
<1>3. \/ x = b \/ x = [b EXCEPT !.user = user] \/ x = [b EXCEPT !.key = key]
      \/ x = [b EXCEPT !.key = key, !.iv = iv, !.kind = kind]
  BY <1>1
<1>4. x \in Messages /\ x.done = b.done
  BY <1>2, <1>3 DEF Messages
<1> QED BY <1>2, <1>4

\* A client that goes on sends no answer.
LEMMA AdvanceNotDone ==
  ASSUME IndInv, NEW c \in Clients, NEW m \in net, NEW rest, rest \subseteq net,
         Advance(c, m, rest)
  PROVE  \A x \in net' \ net : ~x.done
<1>1. PICK d : d = cli[c]
  OBVIOUS
<1>2. TypeOK /\ d \in ClientRecords /\ m.b \in Nat
  BY <1>1, MessageNumbers DEF IndInv, TypeOK
<1>3. /\ UserName(d.cred) \in {"none", "root", "stranger"} /\ d.key \in Keys
      /\ d.kind \in EadKinds
      /\ \A ofs \in Offsets : d.tx_iv + ofs \in Nat
  BY <1>2, EadAssumption DEF ClientRecords, UserName
<1>4. PICK key : key = [a |-> c, b |-> m.b, v |-> Verifier(d.cred)]
  OBVIOUS
<1>5. key \in Keys
  <2>1. Verifier(d.cred) \in Credentials \cup {"root"}
    BY <1>2 DEF ClientRecords, Verifier
  <2> QED BY <1>2, <1>4, <2>1 DEF Keys
<1>6. ASSUME NEW e, NEW pc \in Steps, NEW x, SendPacket(c, e, pc, x, rest),
             x \in Messages /\ ~x.done
      PROVE  \A y \in net' \ net : ~y.done
  BY <1>6, RequestNotDone
<1>7. /\ \A pc \in {"user", "prime", "a", "auth", "cmd"} : pc \in Steps
      /\ "none" \in {"none", "root", "stranger"} /\ 0 \in Nat
      /\ "none" \in EadKinds
  BY DEF Steps, EadKinds
<1>8. Blank(c) \in Messages /\ ~Blank(c).done
  BY <1>5, <1>7, FilledNotDone
<1>9. CASE SendPacket(c, d, "user", [Blank(c) EXCEPT !.user = UserName(d.cred)], rest)
  <2>1. PICK x : x = [Blank(c) EXCEPT !.user = UserName(d.cred)]
    OBVIOUS
  <2>2. x \in Messages /\ ~x.done
    BY <1>3, <1>5, <1>7, <2>1, FilledNotDone
  <2> QED BY <1>6, <1>7, <1>9, <2>1, <2>2
<1>10. CASE SendPacket(c, d, "prime", Blank(c), rest) \/ SendPacket(c, d, "a", Blank(c), rest)
  BY <1>6, <1>7, <1>8, <1>10
<1>11. CASE SendPacket(c, [d EXCEPT !.key = key], "auth", [Blank(c) EXCEPT !.key = key], rest)
  <2>1. PICK x : x = [Blank(c) EXCEPT !.key = key]
    OBVIOUS
  <2>2. x \in Messages /\ ~x.done
    BY <1>5, <1>7, <2>1, FilledNotDone
  <2> QED BY <1>6, <1>7, <1>11, <2>1, <2>2
<1>12. ASSUME NEW ofs \in Offsets,
              SendPacket(c, Counted(d, ofs), "cmd",
                         [Blank(c) EXCEPT !.key = d.key, !.iv = d.tx_iv + ofs,
                                          !.kind = d.kind], rest)
       PROVE  \A y \in net' \ net : ~y.done
  <2>1. PICK n \in Nat : n = d.tx_iv + ofs
    BY <1>3
  <2>2. PICK x : x = [Blank(c) EXCEPT !.key = d.key, !.iv = n, !.kind = d.kind]
    OBVIOUS
  <2>3. x \in Messages /\ ~x.done
    BY <1>3, <1>7, <2>2, FilledNotDone
  <2> QED BY <1>6, <1>7, <1>12, <2>1, <2>2, <2>3
<1>13. CASE net' = rest
  BY <1>13
<1>14. AdvanceFrom(c, d, m, rest)
  BY <1>1, AdvanceCases
<1>15. \/ SendPacket(c, d, "user", [Blank(c) EXCEPT !.user = UserName(d.cred)], rest)
       \/ SendPacket(c, d, "prime", Blank(c), rest) \/ SendPacket(c, d, "a", Blank(c), rest)
       \/ SendPacket(c, [d EXCEPT !.key = key], "auth", [Blank(c) EXCEPT !.key = key], rest)
       \/ \E ofs \in Offsets :
            SendPacket(c, Counted(d, ofs), "cmd",
                       [Blank(c) EXCEPT !.key = d.key, !.iv = d.tx_iv + ofs,
                                        !.kind = d.kind], rest)
       \/ net' = rest
  BY <1>4, <1>14, Zenon DEF AdvanceFrom, Ends
<1> QED BY <1>9, <1>10, <1>11, <1>12, <1>13, <1>15

\* A client that starts sends no answer.
LEMMA StartNotDone ==
  ASSUME NEW c \in Clients, Start(c)
  PROVE  \A x \in net' \ net : ~x.done
<1>1. PICK d, rest : SendPacket(c, d, "ping", Blank(c), rest) /\ rest = net
  BY DEF Start
<1>2. Blank(c) \in Messages /\ ~Blank(c).done /\ "ping" \in Steps
  BY MessageFields DEF Blank, Steps
<1> QED BY <1>1, <1>2, RequestNotDone

\* handle_send_cmd: the last answer to a streamed command is sent after the command has
\* ended, unless the end of another child has reset child_pending.
THEOREM DoneFollowsExit == Spec => DoneAfterExit
<1> DEFINE P == srv.pc = "end" /\ (\E m \in net' \ net : m.done)
                  => srv.foreign \/ kid[srv.cur].st # "running"
<1>1. IndInv /\ [Next]_vars => [P]_vars
  <2> SUFFICES ASSUME IndInv, Next, srv.pc = "end", NEW m \in net' \ net, m.done
               PROVE  srv.foreign \/ kid[srv.cur].st # "running"
    OBVIOUS
  <2>1. CASE StreamEnds
    <3>1. ~srv.child_pending
      BY <2>1 DEF StreamEnds
    <3> QED BY <3>1 DEF IndInv, StreamInv
  <2>2. CASE parse_message \/ Discard \/ handle_send_cmd \/ StreamSelect \/ StreamCheck
    BY <2>2 DEF parse_message, Discard, handle_send_cmd, StreamSelect, StreamCheck, Receive
  <2>3. ASSUME NEW c \in Clients, ClientReceives(c) PROVE FALSE
    <3>1. PICK x \in net :
            \/ Advance(c, x, net \ {x})
            \/ Advance(c, x, net)
            \/ net' = net \ {x}
      BY <2>3 DEF ClientReceives
    <3>2. ASSUME NEW rest, rest \in {net, net \ {x}}, Advance(c, x, rest) PROVE FALSE
      <4>1. rest \subseteq net
        BY <3>2
      <4> QED BY <3>2, <4>1, AdvanceNotDone
    <3> QED BY <3>1, <3>2
  <2>4. CASE \E c \in Clients : Start(c)
    BY <2>4, StartNotDone
  <2>5. CASE ChildStep \/ \E c \in Clients : GiveUp(c)
    BY <2>5 DEF ChildStep, ChildExits, ChildWrites, GiveUp, Ends
  <2>6. CASE Lose \/ Unheard \/ Tick
    BY <2>6 DEF Lose, Unheard, Tick
  <2>7. CASE SupervisorStep \/ ForkFails \/ Interrupt \/ PortMoves \/ Crash
    BY <2>7 DEF SupervisorStep, ForkFails, Interrupt, PortMoves, Crash, ServerFollows, evars
  <2> QED BY <2>1, <2>2, <2>3, <2>4, <2>5, <2>6, <2>7 DEF Next, ServerStep, ClientStep
<1>2. Spec => [][P]_vars
  BY <1>1, Invariance, PTL DEF Spec
<1> QED BY <1>2 DEF DoneAfterExit
=============================================================================
