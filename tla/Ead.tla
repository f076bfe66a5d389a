-------------------------------- MODULE Ead --------------------------------
(***************************************************************************)
(* The emergency access protocol of ead: a server process (ead.c), its     *)
(* clients (ead-client.c) and the channel both encrypt with (ead-crypt.c), *)
(* over broadcast datagrams that may be lost, doubled or late, under the   *)
(* supervisor of module EadSupervisor, which may kill the server at any    *)
(* point.                                                                  *)
(*                                                                         *)
(* A client is one run of ead-client: ping, user name, prime, A, proof,    *)
(* command, each sent once, with a timeout.  The SRP exchange is symbolic: *)
(* both ends derive a key from A, B and the verifier, and two keys agree   *)
(* iff these do.  Message counters (the iv) are relative to the one the    *)
(* key defines.  Time passes in ticks of PCAP_TIMEOUT, 200 ms.             *)
(***************************************************************************)
EXTENDS EadSupervisor, TLC

CONSTANTS
  Clients,           \* the runs of ead-client
  First,             \* the first interface: the one whose id clients send
  Credentials,       \* what they know: "right", "wrong", "stranger"
  Kinds,             \* commands they ask for: see EadKinds
  EAD_TIMEOUT,       \* client: ticks to wait for the first two answers
  EAD_TIMEOUT_LONG,  \* client: ticks to wait for the others
  CmdTimeout,        \* ticks the server lets a command run
  EAD_MAX_IV_INCR,   \* how far a message counter may be ahead
  Offsets,           \* the increments of ead_get_tx_iv
  MaxOutput,         \* bound: reads it takes to empty the pipe of a command
  MaxBurst,          \* bound: answers the server sends within one tick
  MaxFaults          \* bound: lost, doubled or late datagrams, failed pipes and forks

\* A client may ask for no command ("none"); otherwise this is the type that
\* handle_send_cmd reads.  It has eight bits, and ntohs swaps it as if it had
\* sixteen: EAD_CMD_NORMAL, which is zero, stays what it is, but EAD_CMD_BACKGROUND
\* is "background" on a big-endian server only, and "other" elsewhere.  ead-client
\* itself sends "normal" or nothing.
EadKinds == {"normal", "background", "other", "none"}

ASSUME EadAssumption ==
  /\ First \in Instances /\ Kinds \subseteq EadKinds
  /\ Credentials \subseteq {"right", "wrong", "stranger"}
  /\ {EAD_TIMEOUT, EAD_TIMEOUT_LONG, CmdTimeout, EAD_MAX_IV_INCR,
      MaxOutput, MaxBurst, MaxFaults} \subseteq Nat
  /\ CmdTimeout > 0 /\ MaxBurst > 0
  /\ Offsets \subseteq Nat \ {0}

VARIABLES
  srv,     \* the globals of the server process, and its streaming loop
  cli,     \* the clients
  kid,     \* the process of each client's command
  net,     \* datagrams on their way
  last,    \* history: number of the last SRP session opened
  faults   \* history: faults so far

evars == <<srv, cli, kid, net, last, faults>>
vars == <<svars, evars>>

ClientSymmetry == Permutations(Clients)

PING == 0
SET_USERNAME == 2
GET_PRIME == 4
SEND_A == 6
SEND_AUTH == 8
SEND_CMD == 10
Answer(type) == type + 1
States == {SET_USERNAME, GET_PRIME, SEND_A, SEND_AUTH, SEND_CMD}

\* The passwd file knows root only.
UserName(cred) == IF cred = "stranger" THEN "stranger" ELSE "root"
Verifier(cred) == IF cred = "right" THEN "root" ELSE cred

NoKey == [a |-> "none", b |-> 0, v |-> "none"]
Keys == {NoKey} \cup [a: Clients, b: Nat, v: Credentials \cup {"root"}]

Message(type, c) ==
  [type |-> type, cl |-> c, user |-> "none", b |-> 0, key |-> NoKey, iv |-> 0,
   kind |-> "none", done |-> FALSE]

\* A server that has just been forked.
Server0 ==
  [pc |-> "loop", state |-> SET_USERNAME, user |-> "none", ts |-> 0, B |-> 0,
   key |-> NoKey, rx_iv |-> 0, tx_iv |-> 0, child_pending |-> FALSE,
   cur |-> "none", bytes |-> 0, elapsed |-> 0, tv |-> 0,
   burst |-> 0, foreign |-> FALSE]

Client0 ==
  [pc |-> "idle", left |-> 0, cred |-> "right", kind |-> "normal",
   key |-> NoKey, rx_iv |-> 0, tx_iv |-> 0]

Child0 == [st |-> "none", pipe |-> 0, out |-> 0, runs |-> 0]

Init ==
  /\ SupInit
  /\ srv = Server0 /\ cli = [c \in Clients |-> Client0]
  /\ kid = [c \in Clients |-> Child0]
  /\ net = {} /\ last = 0 /\ faults = 0

Fault == faults < MaxFaults /\ faults' = faults + 1

-----------------------------------------------------------------------------
(* ead-crypt.c                                                             *)

\* Mutant: a message counter may come twice.
CheckRxIvLoose(rx_iv, iv) == rx_iv <= iv /\ iv <= rx_iv + EAD_MAX_IV_INCR

ead_check_rx_iv(rx_iv, iv) == rx_iv < iv /\ iv <= rx_iv + EAD_MAX_IV_INCR

\* ead_decrypt_message: what a foreign key makes of a message fails the
\* checks of padding, counter and hash.
Decrypts(end, m) == m.key = end.key /\ ead_check_rx_iv(end.rx_iv, m.iv)

-----------------------------------------------------------------------------
(* The server: parse_message, its handlers and set_state.                  *)

Goto(s, n) == [s EXCEPT !.state = n]

\* Mutant: an unknown user does not stop the exchange.
SetStateIgnoresUser(s, n) ==
  CASE n < s.state -> [Goto(s, n) EXCEPT !.ts = 0]
    [] s.state = SET_USERNAME /\ n > s.state ->
         [Goto(s, n) EXCEPT !.ts = IF s.user = "root" THEN last + 1 ELSE 0]
    [] s.state = GET_PRIME /\ n > s.state -> [Goto(s, n) EXCEPT !.B = s.ts]
    [] s.state = SEND_A /\ n > s.state ->
         [Goto(s, n) EXCEPT !.key = [a |-> s.key.a, b |-> s.B, v |-> s.user],
                            !.rx_iv = 0, !.tx_iv = 0]
    [] OTHER -> Goto(s, n)

\* set_state: going back closes the SRP session, going forward opens one
\* (for a user that prepare_password finds), draws B, or derives the key.
\* A and the key share a field: A is stored before the key is derived.
set_state(s, n) ==
  IF s.state = n THEN s
  ELSE IF n < s.state
    THEN [Goto(s, n) EXCEPT !.ts = IF n < GET_PRIME /\ s.state >= GET_PRIME THEN 0 ELSE @]
  ELSE CASE s.state = SET_USERNAME ->
              IF s.user = "root" THEN [Goto(s, n) EXCEPT !.ts = last + 1] ELSE s
         [] s.state = GET_PRIME -> [Goto(s, n) EXCEPT !.B = s.ts]
         [] s.state = SEND_A ->
              [Goto(s, n) EXCEPT !.key = [a |-> s.key.a, b |-> s.B, v |-> s.user],
                                 !.rx_iv = 0, !.tx_iv = 0]
         [] OTHER -> Goto(s, n)

\* What parse_message does with a request: the next server and the answers.
Handled(s, answers) == [s |-> s, answers |-> answers]

handle_ping(m) == Handled(srv, {Message(Answer(PING), m.cl)})

handle_set_username(m) ==
  Handled(set_state([set_state(srv, SET_USERNAME) EXCEPT !.user = m.user], GET_PRIME),
          {Message(Answer(SET_USERNAME), m.cl)})

handle_get_prime(m) ==
  Handled(set_state(srv, SEND_A), {Message(Answer(GET_PRIME), m.cl)})

handle_send_a(m) ==
  Handled(set_state([srv EXCEPT !.key = [NoKey EXCEPT !.a = m.cl]], SEND_AUTH),
          {[Message(Answer(SEND_A), m.cl) EXCEPT !.b = srv.B]})

handle_send_auth(m) ==
  IF m.key = srv.key
    THEN Handled(set_state(srv, SEND_CMD),
                 {[Message(Answer(SEND_AUTH), m.cl) EXCEPT !.key = srv.key]})
    ELSE Handled(set_state(srv, SET_USERNAME), {})

\* The handlers that only answer and change the state.
Handler(m) ==
  CASE m.type = PING -> handle_ping(m)
    [] m.type = SET_USERNAME -> handle_set_username(m)
    [] m.type = GET_PRIME -> handle_get_prime(m)
    [] m.type = SEND_A -> handle_send_a(m)
    [] m.type = SEND_AUTH -> handle_send_auth(m)

\* A request reaches the server while it waits for one; a copy may follow.
Receive(m) ==
  /\ m \in net /\ m.type \in {PING} \cup States
  /\ Hears(First) /\ srv.pc = "loop"

\* Mutant: a new login, too, must fit the state.
AcceptsInOrderOnly(m) == m.type < SET_USERNAME \/ m.type = srv.state

\* parse_message: from GET_PRIME on a request must fit the state.
Accepts(m) == m.type < GET_PRIME \/ m.type = srv.state

parse_message ==
  /\ \E m \in net :
       /\ Receive(m) /\ Accepts(m) /\ m.type # SEND_CMD
       /\ LET h == Handler(m)
          IN  /\ srv' = h.s
              /\ last' = IF h.s.ts > last THEN h.s.ts ELSE last
              /\ \/ net' = (net \ {m}) \cup h.answers /\ UNCHANGED faults
                 \/ net' = net \cup h.answers /\ Fault
  /\ UNCHANGED <<svars, cli, kid>>

\* Requests that parse_message or ead_decrypt_message turns down.
Discard ==
  /\ \E m \in net :
       /\ Receive(m)
       /\ ~Accepts(m) \/ (m.type = SEND_CMD /\ ~Decrypts(srv, m))
       /\ net' = net \ {m}
  /\ UNCHANGED <<svars, srv, cli, kid, last, faults>>

\* An encrypted answer to client c, with the next message counter.
Result(s, c, done) ==
  [Message(Answer(SEND_CMD), c) EXCEPT !.key = s.key, !.iv = s.tx_iv, !.done = done]

Counted(s, ofs) == [s EXCEPT !.tx_iv = @ + ofs]

\* handle_send_cmd returns, and with it go its local variables.
Returns(s) ==
  [s EXCEPT !.pc = "loop", !.cur = "none", !.bytes = 0, !.elapsed = 0, !.tv = 0,
            !.burst = 0, !.foreign = FALSE]

\* Mutant: a background command that could not be forked is answered too.
SendCmdIgnoresFork ==
  /\ \E m \in net :
       /\ Receive(m) /\ Accepts(m) /\ m.type = SEND_CMD /\ Decrypts(srv, m)
       /\ m.kind = "background" /\ Fault
       /\ \E ofs \in Offsets :
            /\ srv' = [Counted(srv, ofs) EXCEPT !.rx_iv = m.iv]
            /\ net' = (net \ {m}) \cup {Result(Counted(srv, ofs), m.cl, TRUE)}
  /\ UNCHANGED <<svars, cli, kid, last>>

\* The types that handle_send_cmd has a case for.
Known(kind) == kind \in {"normal", "background"}

\* handle_send_cmd: the command is forked; a normal one is then streamed, a
\* background one answered at once.  pipe fails before child_pending is set, fork
\* after it.  A copy of the request may follow.
handle_send_cmd ==
  /\ \E m \in net :
       /\ Receive(m) /\ Accepts(m) /\ m.type = SEND_CMD /\ Decrypts(srv, m)
       /\ LET got == [srv EXCEPT !.rx_iv = m.iv]
              s == [got EXCEPT !.child_pending = @ \/ m.kind = "normal"]
              forked == kid' = [kid EXCEPT ![m.cl].st = "running", ![m.cl].runs = @ + 1]
              Left(answers) == \/ net' = (net \ {m}) \cup answers /\ UNCHANGED faults
                               \/ net' = net \cup answers /\ Fault
          IN  \/ ~Known(m.kind) /\ srv' = got /\ Left({}) /\ UNCHANGED kid
              \/ /\ Known(m.kind) /\ Fault                         \* pipe or fork fails
                 /\ srv' \in {got, s} /\ net' \in {net \ {m}, net} /\ UNCHANGED kid
              \/ /\ m.kind = "normal" /\ forked /\ Left({})
                 /\ srv' = [s EXCEPT !.pc = "select", !.cur = m.cl, !.elapsed = 0,
                                     !.tv = 1, !.burst = 0, !.foreign = FALSE]
              \/ /\ m.kind = "background" /\ forked
                 /\ \E ofs \in Offsets :
                      /\ srv' = Counted(s, ofs)
                      /\ Left({Result(Counted(s, ofs), m.cl, TRUE)})
  /\ UNCHANGED <<svars, cli, last>>

-----------------------------------------------------------------------------
(* The streaming loop of handle_send_cmd.                                  *)

Piped == kid[srv.cur].pipe

\* select() has nothing to report: no output, no signal, and time left in tv
\* (or, a bound, enough answers for this tick).
Waiting ==
  /\ srv.pc = "select" /\ Piped = 0 /\ srv.child_pending
  /\ srv.tv > 0 \/ srv.burst >= MaxBurst

\* select() and read().  tv is set once, before the loop: after the first
\* timeout it is zero, and select() no longer waits.
StreamSelect ==
  /\ srv.pc = "select" /\ ~Waiting
  /\ srv' = [srv EXCEPT !.pc = "check", !.bytes = IF Piped > 0 THEN 1 ELSE 0]
  /\ kid' = IF Piped > 0 THEN [kid EXCEPT ![srv.cur].pipe = @ - 1] ELSE kid
  /\ UNCHANGED <<svars, cli, net, last, faults>>

\* Mutant: the time is never up.
StreamWithoutTimeout ==
  /\ srv.pc = "check" /\ (srv.bytes # 0 \/ srv.child_pending)
  /\ \E ofs \in Offsets :
       /\ net' = net \cup {Result(Counted(srv, ofs), srv.cur, FALSE)}
       /\ srv' = [Counted(srv, ofs) EXCEPT !.pc = "select", !.burst = @ + 1]
  /\ UNCHANGED <<svars, cli, kid, last, faults>>

\* The rest of the loop body: an answer with what was read, perhaps nothing, until
\* the command has ended and its output is read, or the time is up.
StreamCheck ==
  /\ srv.pc = "check"
  /\ \/ /\ srv.bytes = 0 /\ ~srv.child_pending
        /\ srv' = [srv EXCEPT !.pc = "end"] /\ UNCHANGED net
     \/ /\ srv.bytes # 0 \/ srv.child_pending
        /\ \E ofs \in Offsets :
             LET s == Counted(srv, ofs)
             IN  /\ net' = net \cup {Result(s, srv.cur, FALSE)}
                 /\ srv' = [s EXCEPT !.pc = IF srv.elapsed < CmdTimeout THEN "select"
                                           ELSE "end",
                                     !.burst = @ + 1]
  /\ UNCHANGED <<svars, cli, kid, last, faults>>

\* Mutant: a command whose time is up is not told from one that has ended.
EndWithoutTest ==
  /\ srv.pc = "end"
  /\ \E ofs \in Offsets :
       /\ net' = net \cup {Result(Counted(srv, ofs), srv.cur, TRUE)}
       /\ srv' = Returns(Counted(srv, ofs))
  /\ UNCHANGED <<svars, cli, kid, last, faults>>

\* What follows the loop: a command that still runs is killed, and its client is
\* not answered; otherwise the last answer (done) is sent.  A child may have ended
\* since StreamCheck.
StreamEnds ==
  /\ srv.pc = "end"
  /\ \/ /\ srv.child_pending /\ srv' = Returns(srv) /\ UNCHANGED net
        /\ kid' = [kid EXCEPT ![srv.cur].st = "killed"]
     \/ /\ ~srv.child_pending /\ UNCHANGED kid
        /\ \E ofs \in Offsets :
             /\ net' = net \cup {Result(Counted(srv, ofs), srv.cur, TRUE)}
             /\ srv' = Returns(Counted(srv, ofs))
  /\ UNCHANGED <<svars, cli, last, faults>>

\* instance_handle_sigchld: whichever child has ended, child_pending is reset.
ChildExits(c) ==
  /\ kid[c].st \in {"running", "killed", "orphan"}
  /\ kid' = [kid EXCEPT ![c].st = "exited", ![c].out = 0]
  /\ srv' = IF kid[c].st = "orphan" THEN srv
            ELSE [srv EXCEPT !.child_pending = FALSE,
                             !.foreign = @ \/ (srv.pc # "loop" /\ c # srv.cur)]
  /\ UNCHANGED <<svars, cli, net, last, faults>>

ChildWrites(c) ==
  /\ kid[c].st = "running" /\ cli[c].kind = "normal" /\ kid[c].out < MaxOutput
  /\ kid' = [kid EXCEPT ![c].pipe = @ + 1, ![c].out = @ + 1]
  /\ UNCHANGED <<svars, srv, cli, net, last, faults>>

-----------------------------------------------------------------------------
(* The client: main, send_packet and the handlers of its answers.          *)

Steps == {"ping", "user", "prime", "a", "auth", "cmd"}
Request ==
  [ping |-> PING, user |-> SET_USERNAME, prime |-> GET_PRIME, a |-> SEND_A,
   auth |-> SEND_AUTH, cmd |-> SEND_CMD]

\* send_packet, up to its first select(): the request of step pc leaves client c.
\* Its time is set once, and what arrives meanwhile does not extend it.
SendPacket(c, d, pc, m, rest) ==
  /\ cli' = [cli EXCEPT ![c] = [d EXCEPT !.pc = pc,
                                         !.left = IF pc \in {"ping", "user"}
                                                    THEN EAD_TIMEOUT ELSE EAD_TIMEOUT_LONG]]
  /\ net' = rest \cup {[m EXCEPT !.type = Request[pc], !.cl = c]}

\* main returns.
Ends(c, d, pc, rest) ==
  /\ cli' = [cli EXCEPT ![c] = [Client0 EXCEPT !.pc = pc, !.cred = d.cred, !.kind = d.kind]]
  /\ net' = rest

Blank(c) == Message(PING, c)

\* A client starts.  What it would ask for is immaterial unless it can log in.
Start(c) ==
  /\ cli[c].pc = "idle"
  /\ \E cred \in Credentials, kind \in Kinds :
       /\ cred = "right" \/ kind = "normal"
       /\ SendPacket(c, [cli[c] EXCEPT !.cred = cred, !.kind = kind], "ping", Blank(c), net)
  /\ UNCHANGED <<svars, srv, kid, last, faults>>

Awaited(c, m) == cli[c].pc \in Steps /\ m.type = Answer(Request[cli[c].pc])

\* The handler of the awaited answer m accepts it, and main takes its next step.
Advance(c, m, rest) ==
  LET d == cli[c]
  IN  \/ d.pc = "ping"
         /\ SendPacket(c, d, "user", [Blank(c) EXCEPT !.user = UserName(d.cred)], rest)
      \/ d.pc = "user" /\ SendPacket(c, d, "prime", Blank(c), rest)
      \/ d.pc = "prime" /\ SendPacket(c, d, "a", Blank(c), rest)
      \/ d.pc = "a"
         /\ LET key == [a |-> c, b |-> m.b, v |-> Verifier(d.cred)]
            IN  SendPacket(c, [d EXCEPT !.key = key], "auth",
                           [Blank(c) EXCEPT !.key = key], rest)
      \/ d.pc = "auth" /\ m.key = d.key
         /\ IF d.kind = "none" THEN Ends(c, d, "ok", rest)
            ELSE \E ofs \in Offsets :
                   SendPacket(c, Counted(d, ofs), "cmd",
                              [Blank(c) EXCEPT !.key = d.key, !.iv = d.tx_iv + ofs,
                                               !.kind = d.kind], rest)
      \/ d.pc = "cmd" /\ Decrypts(d, m)
         /\ IF m.done THEN Ends(c, d, "ok", rest)
            ELSE cli' = [cli EXCEPT ![c].rx_iv = m.iv] /\ net' = rest

\* An answer that no step waits for, or that its handler turns down.
Refused(c, m) ==
  \/ ~Awaited(c, m)
  \/ cli[c].pc = "auth" /\ m.key # cli[c].key
  \/ cli[c].pc = "cmd" /\ ~Decrypts(cli[c], m)

ClientReceives(c) ==
  /\ \E m \in net :
       /\ m.cl = c /\ m.type \in {Answer(Request[p]) : p \in Steps}
       /\ \/ Awaited(c, m) /\ Advance(c, m, net \ {m}) /\ UNCHANGED faults
          \/ Awaited(c, m) /\ Advance(c, m, net) /\ Fault
          \/ Refused(c, m) /\ net' = net \ {m} /\ UNCHANGED <<cli, faults>>
  /\ UNCHANGED <<svars, srv, kid, last>>

\* select() of send_packet times out, and main returns an error.
GiveUp(c) ==
  /\ cli[c].pc \in Steps /\ cli[c].left = 0
  /\ Ends(c, cli[c], "failed", net)
  /\ UNCHANGED <<svars, srv, kid, last, faults>>

-----------------------------------------------------------------------------
(* The network, time, and the supervisor.                                  *)

IsRequest(m) == m.type \in {Request[p] : p \in Steps}

Lose ==
  /\ Fault /\ \E m \in net : net' = net \ {m}
  /\ UNCHANGED <<svars, srv, cli, kid, last>>

\* A request that no server receives.
Unheard ==
  /\ ~Hears(First)
  /\ \E m \in net : IsRequest(m) /\ net' = net \ {m}
  /\ UNCHANGED <<svars, srv, cli, kid, last, faults>>

\* A tick is long compared with what the processes do in it: a datagram that
\* could be received but is still there when it passes was delayed.
Pending(m) == ~(IsRequest(m) /\ Hears(First) /\ srv.pc # "loop")

Tick ==
  /\ \A c \in Clients : cli[c].pc \in Steps => cli[c].left > 0
  /\ srv.pc = "loop" \/ Waiting
  /\ IF \E m \in net : Pending(m) THEN Fault ELSE UNCHANGED faults
  /\ cli' = [c \in Clients |->
               IF cli[c].pc \in Steps THEN [cli[c] EXCEPT !.left = @ - 1] ELSE cli[c]]
  /\ srv' = IF srv.pc = "loop" THEN srv
            ELSE [srv EXCEPT !.elapsed = @ + 1,
                             !.tv = 0, !.burst = 0]
  /\ UNCHANGED <<svars, kid, net, last>>

\* The processes of the server that a step of the supervisor leaves: a killed
\* server forgets everything, and its commands go on without it.
ServerFollows ==
  /\ srv' = IF proc'[First].alive THEN srv ELSE Server0
  /\ kid' = IF proc'[First].alive THEN kid
            ELSE [c \in Clients |-> IF kid[c].st \in {"running", "killed"}
                                      THEN [kid[c] EXCEPT !.st = "orphan"] ELSE kid[c]]
  /\ UNCHANGED <<cli, net, last>>

SupervisorStep ==
  /\ \/ check_bridge \/ BridgesListed \/ Sweep \/ NextPass
     \/ \E i \in Instances : StartServer(i, TRUE)
  /\ ServerFollows /\ UNCHANGED faults

ForkFails ==
  /\ Fault /\ \E i \in Instances : ~inst[i].pid /\ StartServer(i, FALSE)
  /\ ServerFollows

Interrupt == server_handle_sigint /\ ServerFollows /\ UNCHANGED faults

PortMoves == (\E i \in Instances : MovePort(i)) /\ UNCHANGED evars

Crash == (\E i \in Instances : ServerDies(i)) /\ ServerFollows /\ UNCHANGED faults

ServerStep ==
  \/ parse_message \/ Discard \/ handle_send_cmd
  \/ StreamSelect \/ StreamCheck \/ StreamEnds
ClientStep == \E c \in Clients : ClientReceives(c) \/ GiveUp(c)
ChildStep == \E c \in Clients : ChildExits(c) \/ ChildWrites(c)

Next ==
  \/ ServerStep \/ ClientStep \/ ChildStep \/ \E c \in Clients : Start(c)
  \/ Lose \/ Unheard \/ Tick
  \/ SupervisorStep \/ ForkFails \/ Interrupt \/ PortMoves \/ Crash

Spec == Init /\ [][Next]_vars

\* Every process is scheduled, datagrams arrive and time passes.  Nothing obliges
\* a client to start, a command to end, or a fault to happen.
FairSpec ==
  /\ Spec
  /\ WF_vars(ServerStep) /\ WF_vars(ClientStep) /\ WF_vars(Unheard) /\ WF_vars(Tick)
  /\ WF_vars(SupervisorStep)

-----------------------------------------------------------------------------
(* Properties.                                                             *)

Servers ==
  [pc: {"loop", "select", "check", "end"}, state: States, user: {"none", "root", "stranger"},
   ts: Nat, B: Nat, key: Keys, rx_iv: Nat, tx_iv: Nat, child_pending: BOOLEAN,
   cur: Clients \cup {"none"}, bytes: {0, 1}, elapsed: 0 .. CmdTimeout, tv: {0, 1}, burst: Nat,
   foreign: BOOLEAN]
ClientRecords ==
  [pc: Steps \cup {"idle", "ok", "failed"}, left: Nat, cred: Credentials \cup {"right"},
   kind: EadKinds, key: Keys, rx_iv: Nat, tx_iv: Nat]
Children ==
  [st: {"none", "running", "killed", "orphan", "exited"}, pipe: 0 .. MaxOutput,
   out: 0 .. MaxOutput, runs: Nat]

Messages ==
  [type: 0 .. Answer(SEND_CMD), cl: Clients, user: {"none", "root", "stranger"}, b: Nat,
   key: Keys, iv: Nat, kind: EadKinds, done: BOOLEAN]

TypeOK ==
  /\ SupTypeOK
  /\ srv \in Servers /\ cli \in [Clients -> ClientRecords]
  /\ kid \in [Clients -> Children] /\ \A m \in net : m \in Messages
  /\ last \in Nat /\ faults \in 0 .. MaxFaults

\* parse_message, handle_send_auth and ead_check_rx_iv: a command runs at most
\* once, however often its datagram arrives and whoever else logs in meanwhile,
\* and only for a client that knows the password.
RunsOnce ==
  \A c \in Clients : kid[c].runs <= 1 /\ (kid[c].runs = 1 => cli[c].cred = "right")

\* ead-client's exit code: it reports success only after its command was
\* started, or, if it had none, after the server has proved to know the password.
SuccessIsTrue ==
  \A c \in Clients :
    cli[c].pc = "ok" => /\ cli[c].cred = "right"
                        /\ cli[c].kind # "none" => kid[c].runs = 1

\* handle_get_prime and handle_send_a read ts and B without a test: whatever the
\* order of requests, a server in their states has an open session, and B is of it.
SessionOpen ==
  /\ srv.state >= GET_PRIME => srv.ts # 0
  /\ srv.state >= SEND_A => srv.B = srv.ts
  /\ srv.state >= SEND_AUTH => srv.key.b = srv.ts

\* handle_send_cmd: the last answer to a streamed command is sent after the
\* command has ended -- unless another child, one that was started in the
\* background or killed for its time, ended meanwhile and reset child_pending.
DoneAfterExit ==
  [][srv.pc = "end" /\ (\E m \in net' \ net : m.done)
       => srv.foreign \/ kid[srv.cur].st # "running"]_vars

\* set_state, handle_set_username: when faults are over, a client that starts
\* has its command run, whatever earlier clients left in the server.
Quiet(c) ==
  /\ faults = MaxFaults /\ moves = MaxMoves
  /\ \A d \in Clients \ {c} : cli[d].pc \in {"ok", "failed"}
  /\ cli[c].pc = "ping" /\ cli[c].cred = "right" /\ Known(cli[c].kind)
  /\ cli[c].left = EAD_TIMEOUT /\ net = {Blank(c)}
  /\ srv.pc = "loop" /\ Hears(First)
  /\ sup.at = "start" /\ inst[First].bridge = port[First]

Recovers ==
  \A c \in Clients : Quiet(c) ~> (kid[c].runs = 1 \/ sup.at = "exited")

=============================================================================
