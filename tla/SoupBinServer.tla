---------------------------- MODULE SoupBinServer ----------------------------
(***************************************************************************)
(* The SoupBinTCP login handshake between trading clients and the         *)
(* exchange emulator.                                                     *)
(*                                                                         *)
(* Server: the reactor thread of TcpServer (tcp_server.cpp) -- accept,    *)
(* handleClientData's drain loop, removeClient, sendToClient -- with the  *)
(* emulator's message handler (exchange_emulator.cpp) called on every     *)
(* chunk one read() returns.  Client: BistMarketAccessor's constructor,   *)
(* login, logout and destructor on the main thread, and the TcpClient     *)
(* reader thread's handling of LoginAccepted and of the end of stream.    *)
(*                                                                         *)
(* A client's stream to the server is the frames it wrote; the server has *)
(* read srvPos[c] of its bytes.  A byte is [f |-> frame, i |-> position]. *)
(* Frame sizes are scaled (LoginRequest 49 -> 4, EnterOrder -> 3) keeping  *)
(* size = 2 + declared length; the LogoutRequest keeps its real size 3    *)
(* and the literal length 3 that logout() writes.                         *)
(***************************************************************************)
EXTENDS Naturals, Sequences, SequencesExt

CONSTANTS
  Clients,       \* the trading-client processes (a client is its fd)
  NoClient,      \* no current client
  GoodCreds,     \* clients configured with TEST / TEST_PWD
  Segmenting,    \* read() may end inside a frame, as TCP allows
  ClientLogsOut  \* clients run the BistMarketAccessor destructor

ASSUME GoodCreds \subseteq Clients /\ NoClient \notin Clients

LoginRequest == [type |-> "LoginRequest", declared |-> 2, size |-> 4]
EnterOrder   == [type |-> "UnsequencedData", declared |-> 1, size |-> 3]
LogoutRequest == [type |-> "LogoutRequest", declared |-> 3, size |-> 3]
ClientFrames == {LoginRequest, EnterOrder, LogoutRequest}

VARIABLES
  main,       \* client main thread: "connect", "login", "run", "join", "done", "dead"
  rd,         \* client reader thread: "read" or "ended"
  session,    \* BistMarketAccessor::m_state
  toSrv,      \* frames each client has written
  srvPos,     \* bytes of each client's stream the server has read
  cliClosed,  \* the client's socket is closed (destroyed or killed)
  toCli,      \* frames the server has written to each client, unread
  srvClosed,  \* the server has closed its descriptor for the client
  backlog,    \* connections the kernel completed, not yet accepted
  clients,    \* the keys of m_clients
  srv,        \* reactor thread: "loop", "data" (in handleClientData), "crashed"
  cur,        \* the client_fd of handleClientData
  dangling,   \* handleClientData's iterator points to an erased entry
  ub,         \* undefined behaviour was reached
  handledBy   \* frames the emulator acted on, per client

cliVars == <<main, rd, session, cliClosed>>
vars == <<main, rd, session, toSrv, srvPos, cliClosed, toCli, srvClosed,
          backlog, clients, srv, cur, dangling, ub, handledBy>>

Stream(c) ==
  FlattenSeq([k \in 1..Len(toSrv[c]) |->
                [j \in 1..toSrv[c][k].size |-> [f |-> k, i |-> j]]])

Avail(c) == Len(Stream(c)) - srvPos[c]

\* The sizes read() may return: anything available when TCP segments the
\* stream, otherwise whole writes (one or several).
ChunkSizes(c) ==
  IF Segmenting THEN 1..Avail(c)
  ELSE {n \in 1..Avail(c) :
          LET b == Stream(c)[srvPos[c] + n] IN b.i = toSrv[c][b.f].size}

Init ==
  /\ main = [c \in Clients |-> "connect"]
  /\ rd = [c \in Clients |-> "read"]
  /\ session = [c \in Clients |-> "Disconnected"]
  /\ toSrv = [c \in Clients |-> <<>>]
  /\ srvPos = [c \in Clients |-> 0]
  /\ cliClosed = [c \in Clients |-> FALSE]
  /\ toCli = [c \in Clients |-> <<>>]
  /\ srvClosed = [c \in Clients |-> FALSE]
  /\ backlog = {}
  /\ clients = {}
  /\ srv = "loop"
  /\ cur = NoClient
  /\ dangling = FALSE
  /\ ub = FALSE
  /\ handledBy = [c \in Clients |-> <<>>]

-----------------------------------------------------------------------------
(* Client process (trading_client with its BistMarketAccessor).           *)

\* TcpSocket::write of a whole frame.  Once the server has closed the
\* connection the bytes go nowhere.
Write(c, fr) ==
  toSrv' = IF srvClosed[c] THEN toSrv ELSE [toSrv EXCEPT ![c] = Append(@, fr)]

\* The constructor connects (the kernel completes the handshake into the
\* listen backlog) and starts the reader thread.  With no server the
\* TcpSocket constructor closes its descriptor and carries on: reads and
\* writes on it fail from then on.
Connect(c) ==
  /\ main[c] = "connect"
  /\ main' = [main EXCEPT ![c] = "login"]
  /\ IF srv = "crashed"
     THEN /\ srvClosed' = [srvClosed EXCEPT ![c] = TRUE]
          /\ UNCHANGED backlog
     ELSE /\ backlog' = backlog \cup {c}
          /\ UNCHANGED srvClosed
  /\ UNCHANGED <<rd, session, toSrv, srvPos, cliClosed, toCli,
                 clients, srv, cur, dangling, ub, handledBy>>

Login(c) ==
  /\ main[c] = "login"
  /\ main' = [main EXCEPT ![c] = "run"]
  /\ Write(c, LoginRequest)
  /\ UNCHANGED <<rd, session, srvPos, cliClosed, toCli, srvClosed, backlog,
                 clients, srv, cur, dangling, ub, handledBy>>

\* ~BistMarketAccessor: logout(), then join the reader thread.
Logout(c) ==
  /\ ClientLogsOut
  /\ main[c] = "run"
  /\ main' = [main EXCEPT ![c] = "join"]
  /\ Write(c, LogoutRequest)
  /\ UNCHANGED <<rd, session, srvPos, cliClosed, toCli, srvClosed, backlog,
                 clients, srv, cur, dangling, ub, handledBy>>

Join(c) ==
  /\ main[c] = "join"
  /\ rd[c] = "ended"
  /\ main' = [main EXCEPT ![c] = "done"]
  /\ cliClosed' = [cliClosed EXCEPT ![c] = TRUE]
  /\ UNCHANGED <<rd, session, toSrv, srvPos, toCli, srvClosed, backlog,
                 clients, srv, cur, dangling, ub, handledBy>>

\* The process is killed; the kernel closes its socket.
Killed(c) ==
  /\ main[c] \in {"login", "run", "join"}
  /\ main' = [main EXCEPT ![c] = "dead"]
  /\ rd' = [rd EXCEPT ![c] = "ended"]
  /\ cliClosed' = [cliClosed EXCEPT ![c] = TRUE]
  /\ UNCHANGED <<session, toSrv, srvPos, toCli, srvClosed, backlog, clients,
                 srv, cur, dangling, ub, handledBy>>

\* Reader thread: LoginAccepted -> onLoginAccepted, which sets Continuous
\* and, for an Equity partition, sends the test EnterOrder.
ReaderLoginAccepted(c) ==
  /\ rd[c] = "read"
  /\ toCli[c] # <<>>
  /\ toCli' = [toCli EXCEPT ![c] = Tail(@)]
  /\ session' = [session EXCEPT ![c] = "Continuous"]
  /\ Write(c, EnterOrder)
  /\ UNCHANGED <<main, rd, srvPos, cliClosed, srvClosed, backlog, clients,
                 srv, cur, dangling, ub, handledBy>>

\* read() returns 0 once the server has closed and everything is read.
ReaderEnd(c) ==
  /\ rd[c] = "read"
  /\ toCli[c] = <<>>
  /\ srvClosed[c]
  /\ rd' = [rd EXCEPT ![c] = "ended"]
  /\ UNCHANGED <<main, session, toSrv, srvPos, cliClosed, toCli, srvClosed,
                 backlog, clients, srv, cur, dangling, ub, handledBy>>

-----------------------------------------------------------------------------
(* Server process: the reactor thread of TcpServer and the emulator.      *)

\* removeClient: erase from m_clients and close the descriptor.  Inside
\* handleClientData the erased entry is the one its iterator points to.
RemoveClient(c) ==
  /\ clients' = clients \ {c}
  /\ srvClosed' = [srvClosed EXCEPT ![c] = (c \in clients) \/ @]

\* handleNewConnection: accept every pending connection into m_clients.
ServerAccept ==
  /\ srv = "loop"
  /\ backlog # {}
  /\ clients' = clients \cup backlog
  /\ backlog' = {}
  /\ UNCHANGED <<cliVars, toSrv, srvPos, toCli, srvClosed, srv, cur,
                 dangling, ub, handledBy>>

\* Mutant: the event is dispatched without its client_fd.
ServerEventNoCur(c) ==
  /\ srv = "loop"
  /\ c \in clients
  /\ Avail(c) > 0 \/ cliClosed[c]
  /\ srv' = "data"
  /\ UNCHANGED <<cliVars, toSrv, srvPos, toCli, srvClosed, backlog, clients,
                 cur, dangling, ub, handledBy>>

\* epoll reports a client readable (bytes, or the end of its stream).
ServerEvent(c) ==
  /\ srv = "loop"
  /\ c \in clients
  /\ Avail(c) > 0 \/ cliClosed[c]
  /\ srv' = "data"
  /\ cur' = c
  /\ UNCHANGED <<cliVars, toSrv, srvPos, toCli, srvClosed, backlog, clients,
                 dangling, ub, handledBy>>

\* Mutant: the completeness test is off by one.
HandlesStrict(c, n) ==
  LET b == Stream(c)[srvPos[c] + 1]
  IN /\ b.i = 1
     /\ n >= 3
     /\ n > 2 + toSrv[c][b.f].declared
     /\ toSrv[c][b.f].type = "LoginRequest" => n >= LoginRequest.size

\* handleSoupBinTcpMessage looks only at the frame the chunk starts with:
\* it needs 3 bytes, then 2 + the declared length (a LoginRequest also
\* sizeof(LoginRequest)).  A chunk starting inside a frame reads a length
\* from text or payload bytes that exceeds what is there.
Handles(c, n) ==
  LET b == Stream(c)[srvPos[c] + 1]
  IN /\ b.i = 1
     /\ n >= 3
     /\ n >= 2 + toSrv[c][b.f].declared
     /\ toSrv[c][b.f].type = "LoginRequest" => n >= LoginRequest.size

FirstFrame(c) == Stream(c)[srvPos[c] + 1].f

\* The handler disconnects on bad credentials and on LogoutRequest.
Disconnects(c, fr) ==
  \/ fr.type = "LoginRequest" /\ c \notin GoodCreds
  \/ fr.type = "LogoutRequest"

\* sendToClient: write to the client if m_clients still has it.
SendToClient(c, fr) ==
  toCli' = IF c \in clients THEN [toCli EXCEPT ![c] = Append(@, fr)] ELSE toCli

\* disconnectClient, called from the handler, inside handleClientData.
DisconnectClient(c) == RemoveClient(c) /\ dangling' = TRUE

\* handleSoupBinTcpMessage on the n bytes of one read.
HandleSoupBinTcpMessage(c, n) ==
  LET fr == toSrv[c][FirstFrame(c)]
  IN \/ /\ ~Handles(c, n)
        /\ UNCHANGED <<toCli, clients, srvClosed, dangling, handledBy>>
     \/ /\ Handles(c, n)
        /\ handledBy' = [handledBy EXCEPT ![c] = Append(@, FirstFrame(c))]
        /\ \/ /\ fr.type = "LoginRequest" /\ c \in GoodCreds
              /\ SendToClient(c, "LoginAccepted")
              /\ UNCHANGED <<clients, srvClosed, dangling>>
           \/ /\ Disconnects(c, fr)
              /\ DisconnectClient(c)
              /\ UNCHANGED toCli
           \/ /\ fr.type = "UnsequencedData"
              /\ UNCHANGED <<toCli, clients, srvClosed, dangling>>

\* One read() of the drain loop, and the handler call on its bytes.
ServerReadChunk(n) ==
  /\ srv = "data"
  /\ ~dangling
  /\ n \in ChunkSizes(cur)
  /\ srvPos' = [srvPos EXCEPT ![cur] = @ + n]
  /\ HandleSoupBinTcpMessage(cur, n)
  /\ UNCHANGED <<cliVars, toSrv, backlog, srv, cur, ub>>

\* read() finds nothing more: EAGAIN ends the drain loop.
ServerReadAgain ==
  /\ srv = "data"
  /\ ~dangling
  /\ Avail(cur) = 0
  /\ ~cliClosed[cur]
  /\ srv' = "loop"
  /\ cur' = NoClient
  /\ UNCHANGED <<cliVars, toSrv, srvPos, toCli, srvClosed, backlog, clients,
                 dangling, ub, handledBy>>

\* Mutant: read() returning 0 ends the drain loop but keeps the client.
ServerReadZeroNoRemove ==
  /\ srv = "data"
  /\ ~dangling
  /\ Avail(cur) = 0
  /\ cliClosed[cur]
  /\ srv' = "loop"
  /\ cur' = NoClient
  /\ UNCHANGED <<cliVars, toSrv, srvPos, toCli, srvClosed, backlog, clients,
                 dangling, ub, handledBy>>

\* read() returns 0: the client closed; removeClient and return.
ServerReadZero ==
  /\ srv = "data"
  /\ ~dangling
  /\ Avail(cur) = 0
  /\ cliClosed[cur]
  /\ RemoveClient(cur)
  /\ srv' = "loop"
  /\ cur' = NoClient
  /\ UNCHANGED <<cliVars, toSrv, srvPos, toCli, backlog, dangling, ub, handledBy>>

\* The loop reads again through the erased iterator: undefined behaviour.
\* The build either crashes (the kernel closes every descriptor and resets
\* the pending connections) or reads
\* the closed descriptor, fails with EBADF, and removeClient finds nothing.
ServerReadDangling ==
  /\ srv = "data"
  /\ dangling
  /\ ub' = TRUE
  /\ dangling' = FALSE
  /\ cur' = NoClient
  /\ \/ /\ srv' = "crashed"
        /\ clients' = {}
        /\ backlog' = {}
        /\ srvClosed' = [c \in Clients |-> TRUE]
     \/ /\ srv' = "loop"
        /\ UNCHANGED <<clients, backlog, srvClosed>>
  /\ UNCHANGED <<cliVars, toSrv, srvPos, toCli, handledBy>>

ServerStep ==
  \/ ServerAccept
  \/ \E c \in Clients : ServerEvent(c)
  \/ \E n \in 1..LoginRequest.size * 3 : ServerReadChunk(n)
  \/ ServerReadAgain
  \/ ServerReadZero
  \/ ServerReadDangling

ClientStep(c) ==
  \/ Connect(c) \/ Login(c) \/ Logout(c) \/ Join(c) \/ Killed(c)
  \/ ReaderLoginAccepted(c) \/ ReaderEnd(c)

Next == ServerStep \/ \E c \in Clients : ClientStep(c)

\* Every thread that can run eventually does: the reactor loop wakes at
\* least every 100 ms; the client threads block only in read() or join().
\* Killing a client and calling the destructor are never forced.
Fairness ==
  /\ WF_vars(ServerAccept)
  /\ \A c \in Clients : WF_vars(ServerEvent(c))
  /\ WF_vars(\E n \in 1..LoginRequest.size * 3 : ServerReadChunk(n))
  /\ WF_vars(ServerReadAgain \/ ServerReadZero \/ ServerReadDangling)
  /\ \A c \in Clients :
       /\ WF_vars(Connect(c)) /\ WF_vars(Login(c)) /\ WF_vars(Join(c))
       /\ WF_vars(ReaderLoginAccepted(c)) /\ WF_vars(ReaderEnd(c))

Spec == Init /\ [][Next]_vars /\ Fairness

-----------------------------------------------------------------------------
SoupBinTypeOK ==
  /\ main \in [Clients -> {"connect", "login", "run", "join", "done", "dead"}]
  /\ rd \in [Clients -> {"read", "ended"}]
  /\ session \in [Clients -> {"Disconnected", "Continuous"}]
  /\ toSrv \in [Clients -> Seq(ClientFrames)]
  /\ \A c \in Clients : srvPos[c] \in 0..Len(Stream(c))
  /\ cliClosed \in [Clients -> BOOLEAN] /\ srvClosed \in [Clients -> BOOLEAN]
  /\ toCli \in [Clients -> Seq({"LoginAccepted"})]
  /\ backlog \subseteq Clients /\ clients \subseteq Clients
  /\ srv \in {"loop", "data", "crashed"}
  /\ (srv = "data") = (cur \in Clients)
  /\ dangling \in BOOLEAN /\ ub \in BOOLEAN
  /\ handledBy \in [Clients -> Seq(Nat)]

\* handleClientData never reads through an iterator whose m_clients entry
\* the message handler erased (disconnectClient inside the handler).
NoUseAfterErase == ~ub

\* A client with the right credentials that has sent its LoginRequest is
\* eventually in Continuous -- unless it was killed or the server crashed.
LoginAnswered ==
  \A c \in GoodCreds :
    main[c] = "run" ~> (session[c] = "Continuous" \/ main[c] = "dead" \/ srv = "crashed")

\* A connection the client closes is eventually removed from m_clients.
ClosedClientsRemoved ==
  \A c \in Clients : (cliClosed[c] /\ c \in clients \cup backlog) ~> (c \notin clients \cup backlog)

\* ~BistMarketAccessor returns: after logout() the reader thread sees the
\* end of the stream and the join completes.
LogoutEndsSession ==
  \A c \in Clients : main[c] = "join" ~> main[c] \in {"done", "dead"}

=============================================================================
