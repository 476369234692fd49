------------------------------- MODULE Server -------------------------------
(***************************************************************************)
(* The event loop of the server, the sessions it keeps, the transactions   *)
(* they own, and the command-line clients that talk to it.                 *)
(*                                                                         *)
(* A client writes a command and its '\0' with one call and then receives  *)
(* chunks until one holds a '\0'.  The server runs one callback at a time; *)
(* a callback reads a request, runs it, flushes the answer, flushes the    *)
(* line "Cost time" and, when it must, hangs up.  Clients take steps       *)
(* between any two of these.                                               *)
(*                                                                         *)
(* A statement is known by the way it is executed:                         *)
(*   "refused"  fails in the parser, the analyzer or the planner           *)
(*   "unknown"  has no statement object (Stmt::create_stmt: UNIMPLENMENT)  *)
(*   "command"  runs in CommandExecutor and leaves no operator behind: it  *)
(*              starts and ends no transaction                             *)
(*   "begin", "commit", "rollback"                                         *)
(*   "change"   INSERT, DELETE, UPDATE: an operator without result columns *)
(*   "select"   SELECT and EXPLAIN, and SHOW TABLES, DESC and HELP, whose  *)
(*              executors install an operator: one with result columns     *)
(* What a change does under the MVCC kit is a function without a body, so  *)
(* changes are submitted under the vacuous kit only.                       *)
(***************************************************************************)
EXTENDS Integers, Sequences

CONSTANTS Clients,      \* the clients that connect, each once
          Repertoire,   \* the statements each submits, a subset of the above
          MaxCommands   \* bound: how many each submits

ASSUME ServerAssumption == MaxCommands \in [Clients -> Nat]

VARIABLES kit,          \* the transaction manager chosen at start-up
          client,       \* what each client process is doing
          asked,        \* the number of commands a client has sent
          heard,        \* the request whose answer the client took for its last
          up, down,     \* bytes on the way: requests, pieces of answers
          conn,         \* the server's side of each connection
          session,      \* Session: its mode and its transaction
          trxes,        \* MvccTrxManager::trxes_, by the session that owns each
          currentTrxId, \* MvccTrxManager::current_trx_id_
          log,          \* the entries handed to the log manager
          started,      \* Server::started_
          loop,         \* the callback the event loop is in
          doubled,      \* history: clients that were sent an answer in two messages
          leftOpen      \* history: sessions whose last statement failed in next()

net == <<client, asked, heard, up, down>>
trxVars == <<session, trxes, currentTrxId, log>>
vars == <<kit, client, asked, heard, up, down, conn, session, trxes,
          currentTrxId, log, started, loop, doubled, leftOpen>>

NoTrx == [made |-> FALSE, id |-> -1, started |-> FALSE]
NewSession == [multi |-> FALSE, trx |-> NoTrx]
NoRequest == [n |-> 0, stmt |-> "none"]
Dispatch == [step |-> "dispatch", req |-> NoRequest, drop |-> FALSE]

Requests(c) == [n : 1..MaxCommands[c], stmt : Repertoire[c]]
Pieces(c) == [of : 1..MaxCommands[c], text : {"rows", "state", "cost"}, end : BOOLEAN]

Init == /\ kit \in {"vacuous", "mvcc"}
        /\ client = [c \in Clients |-> "off"]
        /\ asked = [c \in Clients |-> 0]
        /\ heard = [c \in Clients |-> 0]
        /\ up = [c \in Clients |-> <<>>]
        /\ down = [c \in Clients |-> <<>>]
        /\ conn = [c \in Clients |-> "none"]
        /\ session = [c \in Clients |-> NewSession]
        /\ trxes = {}
        /\ currentTrxId = 0
        /\ log = <<>>
        /\ started = TRUE
        /\ loop = Dispatch
        /\ doubled = {}
        /\ leftOpen = {}

-----------------------------------------------------------------------------
(***************************************************************************)
(* Transactions.  The operators take and return what a call may change: the*)
(* transaction object, the id counter and the log.                         *)
(***************************************************************************)

World(c) == [trx |-> session[c].trx, cur |-> currentTrxId, log |-> log]

\* Session::current_trx: the object is made at the first use.
CurrentTrx(w) == [w EXCEPT !.trx.made = TRUE]

\* MvccTrx::start_if_need; VacuousTrx does nothing.
StartIfNeed(w) ==
  IF kit = "vacuous" \/ w.trx.started THEN w
  ELSE [trx |-> [made |-> TRUE, id |-> w.cur + 1, started |-> TRUE],
        cur |-> w.cur + 1,
        log |-> Append(w.log, [type |-> "begin", trx |-> w.cur + 1, xid |-> w.cur + 1])]

\* Mutant: a commit that is not logged.
Commit_NoLog(w) ==
  IF kit = "vacuous" THEN w ELSE [w EXCEPT !.trx.started = FALSE, !.cur = @ + 1]

\* MvccTrx::commit and commit_with_trx_id: no check that the transaction started.
\* The entry is handed to the log manager, which may refuse it: that fails the
\* statement and undoes nothing.
Commit(w) ==
  IF kit = "vacuous" THEN w
  ELSE [trx |-> [w.trx EXCEPT !.started = FALSE],
        cur |-> w.cur + 1,
        log |-> Append(w.log, [type |-> "commit", trx |-> w.trx.id, xid |-> w.cur + 1])]

\* MvccTrx::rollback: draws no id, so xid repeats the transaction's own.
Rollback(w) ==
  IF kit = "vacuous" THEN w
  ELSE [w EXCEPT !.trx.started = FALSE,
                 !.log = Append(@, [type |-> "rollback", trx |-> w.trx.id, xid |-> w.trx.id])]

\* SqlResult::init up to the operator's open.
SqlInit(w) == StartIfNeed(CurrentTrx(w))

\* Mutant: a statement commits whatever the mode of its session.
SqlClose_Always(w, multi) == Commit(CurrentTrx(w))

\* SqlResult::close; every operator's close succeeds.
SqlClose(w, multi) == IF multi THEN w ELSE Commit(CurrentTrx(w))

\* The session of c and the globals after a call that ends in w.
Install(c, w, multi) ==
  /\ session' = [session EXCEPT ![c] = [multi |-> multi, trx |-> w.trx]]
  /\ trxes' = IF kit = "mvcc" /\ w.trx.made THEN trxes \cup {c} ELSE trxes
  /\ currentTrxId' = w.cur
  /\ log' = w.log

-----------------------------------------------------------------------------
(***************************************************************************)
(* The clients and the streams between them and the server.                *)
(***************************************************************************)

Connect(c) == /\ client[c] = "off" /\ loop.step # "stopped"
              /\ client' = [client EXCEPT ![c] = "prompt"]
              /\ conn' = [conn EXCEPT ![c] = "pending"]
              /\ UNCHANGED <<kit, asked, heard, up, down, trxVars, started, loop, doubled, leftOpen>>

\* A blank line and "exit" are handled in the client and not sent.
Send(c, s) == /\ client[c] = "prompt" /\ asked[c] < MaxCommands[c]
              /\ kit = "mvcc" => s # "change"
              /\ client' = [client EXCEPT ![c] = "waiting"]
              /\ asked' = [asked EXCEPT ![c] = @ + 1]
              /\ up' = IF conn[c] = "closed" THEN up
                       ELSE [up EXCEPT ![c] = Append(@, [n |-> asked[c] + 1, stmt |-> s])]
              /\ UNCHANGED <<kit, heard, down, conn, trxVars, started, loop, doubled, leftOpen>>

\* recv returns the first k pieces; the client prints up to the first '\0'
\* and, when the chunk has one, forgets the rest of the chunk.
Receive(c, k) ==
  LET chunk == SubSeq(down[c], 1, k)
      ends == {i \in 1..k : chunk[i].end}
      first == CHOOSE i \in ends : \A j \in ends : i <= j
  IN /\ client[c] = "waiting" /\ k \in 1..Len(down[c])
     /\ down' = [down EXCEPT ![c] = SubSeq(@, k + 1, Len(@))]
     /\ IF ends = {} THEN UNCHANGED <<client, heard>>
        ELSE /\ client' = [client EXCEPT ![c] = "prompt"]
             /\ heard' = [heard EXCEPT ![c] = chunk[first].of]
     /\ UNCHANGED <<kit, asked, up, conn, trxVars, started, loop, doubled, leftOpen>>

\* The process ends, and what it remembers with it.
ClientExit(c) == /\ client' = [client EXCEPT ![c] = "left"]
                 /\ asked' = [asked EXCEPT ![c] = 0]
                 /\ heard' = [heard EXCEPT ![c] = 0]
                 /\ doubled' = doubled \ {c}

\* recv returns 0: "Connection has been closed".
ReceiveEnd(c) == /\ client[c] = "waiting" /\ down[c] = <<>> /\ conn[c] = "closed"
                 /\ ClientExit(c)
                 /\ UNCHANGED <<kit, up, down, conn, trxVars, started, loop, leftOpen>>

\* The user types exit, or the process is killed while it waits.
Leave(c) == /\ client[c] \in {"prompt", "waiting"}
            /\ ClientExit(c)
            /\ down' = [down EXCEPT ![c] = <<>>]
            /\ UNCHANGED <<kit, up, conn, trxVars, started, loop, leftOpen>>

-----------------------------------------------------------------------------
(***************************************************************************)
(* The event loop: accept and recv.                                        *)
(***************************************************************************)

\* Communicator::~Communicator and Session::~Session: the transaction object
\* is destroyed without a rollback.
CloseConnection(c) == /\ conn' = [conn EXCEPT ![c] = "closed"]
                      /\ up' = [up EXCEPT ![c] = <<>>]
                      /\ session' = [session EXCEPT ![c] = NewSession]
                      /\ trxes' = trxes \ {c}
                      /\ leftOpen' = leftOpen \ {c}

Accept(c) == /\ loop.step = "dispatch" /\ conn[c] = "pending"
             /\ conn' = [conn EXCEPT ![c] = "open"]
             /\ session' = [session EXCEPT ![c] = NewSession]
             /\ UNCHANGED <<kit, net, trxes, currentTrxId, log, started, loop, doubled, leftOpen>>

\* An option of the socket or its event cannot be set: it is closed again.
AcceptFails(c) == /\ loop.step = "dispatch" /\ conn[c] = "pending"
                  /\ CloseConnection(c)
                  /\ UNCHANGED <<kit, client, asked, heard, down, currentTrxId, log, started, loop, doubled>>

\* read_event: k requests have arrived; the first is taken, what follows its
\* '\0' in the buffer is discarded.  A request arrives whole: the client writes
\* it with one call.  (Until the rest of one comes the loop spins in read.)
Recv(c, k) == /\ loop.step = "dispatch" /\ conn[c] = "open" /\ k \in 1..Len(up[c])
              /\ up' = [up EXCEPT ![c] = SubSeq(@, k + 1, Len(@))]
              /\ loop' = [step |-> "run", of |-> c, req |-> Head(up[c]), drop |-> FALSE]
              /\ UNCHANGED <<kit, client, asked, heard, down, conn, trxVars, started, doubled, leftOpen>>

\* read_event returns IOERR_CLOSE.
RecvEnd(c) == /\ loop.step = "dispatch" /\ conn[c] = "open"
              /\ client[c] = "left" /\ up[c] = <<>>
              /\ CloseConnection(c)
              /\ UNCHANGED <<kit, client, asked, heard, down, currentTrxId, log, started, loop, doubled>>

\* SIGTERM and its kin: a thread calls Server::shutdown.
Shutdown == /\ started
            /\ started' = FALSE
            /\ UNCHANGED <<kit, net, conn, trxVars, loop, doubled, leftOpen>>

\* event_base_dispatch returns once the active callbacks are done; nothing
\* hangs up or ends a transaction, the exit of the process closes the sockets.
Quit == /\ loop.step = "dispatch" /\ ~ started
        /\ loop' = [loop EXCEPT !.step = "stopped"]
        /\ conn' = [c \in Clients |-> IF conn[c] = "none" THEN "none" ELSE "closed"]
        /\ up' = [c \in Clients |-> <<>>]
        /\ session' = [c \in Clients |-> NewSession]
        /\ trxes' = {}
        /\ leftOpen' = {}
        /\ UNCHANGED <<kit, client, asked, heard, down, currentTrxId, log, started, doubled>>

-----------------------------------------------------------------------------
(***************************************************************************)
(* QueryEngine::process_session_request.                                   *)
(***************************************************************************)

Running(c, stmts) == loop.step = "run" /\ loop.of = c /\ loop.req.stmt \in stmts

\* A piece of the answer; '\0' follows it when end.
Piece(text, end) == <<[of |-> loop.req.n, text |-> text, end |-> end]>>

\* BufferedWriter::flush; nobody looks at its result.  When the socket is full
\* the loop spins until the client reads: whether the step that flushes is ever
\* taken is a matter of Fairness.
Flush(c, pieces) ==
  down' = IF client[c] = "left" THEN down ELSE [down EXCEPT ![c] = @ \o pieces]

\* PlainCommunicator::write_state ends its text with the delimiter.
StateText == Piece("state", TRUE)

\* The header and the rows of a result: no delimiter.
RowsText == Piece("rows", FALSE)

\* Mutant: send_message_delimiter forgotten.
CostText_NoEnd == Piece("cost", FALSE)

\* The line that ends a request that was executed.
CostText == Piece("cost", TRUE)

\* Mutant: the early return is missing and the cost follows.
Refuse_NoReturn(c) == /\ Running(c, {"refused"})
                      /\ Flush(c, StateText)
                      /\ loop' = [loop EXCEPT !.step = "cost"]
                      /\ UNCHANGED <<kit, client, asked, heard, up, conn, trxVars, started, doubled, leftOpen>>

\* planQuery fails: the state is the whole answer.
Refuse(c) == /\ Running(c, {"refused"})
             /\ Flush(c, StateText)
             /\ loop' = Dispatch
             /\ UNCHANGED <<kit, client, asked, heard, up, conn, trxVars, started, doubled, leftOpen>>

\* What every path through Executor::execute leads to.
Executed(c, w, multi, pieces, drop) ==
  /\ Install(c, w, multi)
  /\ Flush(c, pieces)
  /\ loop' = [loop EXCEPT !.step = "cost", !.drop = drop]
  /\ doubled' = IF (\E i \in DOMAIN pieces : pieces[i].end) /\ client[c] # "left"
                 THEN doubled \cup {c} ELSE doubled
  /\ UNCHANGED <<kit, client, asked, heard, up, conn, started>>

\* No operator and no statement: INTERNAL, and need_disconnect is still set.
ExecuteNothing(c) == /\ Running(c, {"unknown"})
                     /\ Executed(c, World(c), session[c].multi, <<>>, TRUE)
                     /\ UNCHANGED leftOpen

\* CommandExecutor::execute; the state says whether it succeeded.  CREATE INDEX
\* asks for the session's transaction, which is made if there is none.
ExecuteCommand(c) == /\ Running(c, {"command"})
                     /\ \E w \in {World(c), CurrentTrx(World(c))} :
                          Executed(c, w, session[c].multi, StateText, FALSE)
                     /\ UNCHANGED leftOpen

TrxBegin(c) == /\ Running(c, {"begin"})
               /\ Executed(c, StartIfNeed(CurrentTrx(World(c))), TRUE, StateText, FALSE)
               /\ leftOpen' = leftOpen \ {c}

TrxEnd(c) == /\ Running(c, {"commit", "rollback"})
             /\ LET w == CurrentTrx(World(c))
                IN Executed(c, IF loop.req.stmt = "commit" THEN Commit(w) ELSE Rollback(w),
                            FALSE, StateText, FALSE)
             /\ leftOpen' = leftOpen \ {c}

\* Mutant: the state is written without close.
OpenFails_NoClose(c) == /\ Running(c, {"change", "select"})
                        /\ Executed(c, SqlInit(World(c)), session[c].multi, StateText, FALSE)
                        /\ leftOpen' = leftOpen \ {c}

\* send_result, the operator's open fails: close commits, then the state.
OpenFails(c) == /\ Running(c, {"change", "select"})
                /\ LET multi == session[c].multi
                   IN Executed(c, SqlClose(SqlInit(World(c)), multi), multi, StateText, FALSE)
                /\ leftOpen' = leftOpen \ {c}

\* No columns: close, and the state is the answer.
SendState(c) == /\ Running(c, {"change"})
                /\ LET multi == session[c].multi
                   IN Executed(c, SqlClose(SqlInit(World(c)), multi), multi, StateText, FALSE)
                /\ leftOpen' = leftOpen \ {c}

\* All rows are sent.
SendRows(c) == /\ Running(c, {"select"})
               /\ LET multi == session[c].multi
                  IN Executed(c, SqlClose(SqlInit(World(c)), multi), multi, RowsText, FALSE)
               /\ leftOpen' = leftOpen \ {c}

\* A cell cannot be converted or sent: close and hang up.
SendFails(c) == /\ Running(c, {"select"})
                /\ LET multi == session[c].multi
                   IN Executed(c, SqlClose(SqlInit(World(c)), multi), multi, RowsText, TRUE)
                /\ leftOpen' = leftOpen \ {c}

\* next() fails, for a select after the header and some rows: the state follows,
\* no close.
NextFails(c) == /\ Running(c, {"change", "select"})
                /\ Executed(c, SqlInit(World(c)), session[c].multi,
                            IF loop.req.stmt = "select" THEN RowsText \o StateText ELSE StateText, FALSE)
                /\ leftOpen' = IF session[c].multi THEN leftOpen ELSE leftOpen \cup {c}

\* "Cost time", its delimiter and the second flush; recv then hangs up if told to.
CostTime(c) == /\ loop.step = "cost" /\ loop.of = c
               /\ Flush(c, CostText)
               /\ loop' = Dispatch
               /\ IF loop.drop THEN CloseConnection(c)
                  ELSE UNCHANGED <<conn, up, session, trxes, leftOpen>>
               /\ UNCHANGED <<kit, client, asked, heard, currentTrxId, log, started, doubled>>

Process(c) == \/ Refuse(c) \/ ExecuteNothing(c) \/ ExecuteCommand(c)
              \/ TrxBegin(c) \/ TrxEnd(c)
              \/ OpenFails(c) \/ SendState(c) \/ SendRows(c) \/ SendFails(c) \/ NextFails(c)
              \/ CostTime(c)

Done == /\ loop.step = "stopped"
        /\ \A c \in Clients : client[c] \in {"off", "left"}
        /\ UNCHANGED vars

\* One step of the server's only thread.
EventLoop == \/ \E c \in Clients : \/ Accept(c) \/ AcceptFails(c) \/ RecvEnd(c) \/ Process(c)
                                 \/ \E k \in 1..Len(up[c]) : Recv(c, k)
             \/ Quit

ClientReads(c) == ReceiveEnd(c) \/ \E k \in 1..Len(down[c]) : Receive(c, k)

Next == \/ \E c \in Clients : \/ Connect(c) \/ ClientReads(c) \/ Leave(c)
                            \/ \E s \in Repertoire[c] : Send(c, s)
        \/ EventLoop \/ Shutdown \/ Done

\* The only thread is in the callback of a client at its prompt, where nobody
\* reads from the socket: a flush that finds it full spins on EAGAIN.
HeldUp == loop.step \in {"run", "cost"} /\ client[loop.of] = "prompt"

\* The loop goes on while a descriptor is ready or a callback is running, unless
\* it is held up, and a client's recv returns when there is something to receive.
\* Nothing is assumed of which descriptor is served first or of how much a socket
\* holds, and nobody has to type, leave or stop the server.
Fairness == WF_vars(~HeldUp /\ EventLoop) /\ \A c \in Clients : WF_vars(ClientReads(c))

Spec == Init /\ [][Next]_vars /\ Fairness

-----------------------------------------------------------------------------
(***************************************************************************)
(* Properties                                                              *)
(***************************************************************************)

\* Type invariant: the state of clients, streams, sessions, transactions and
\* of the callback; no client has the answer of a command it has not sent.
TypeOK ==
  /\ kit \in {"vacuous", "mvcc"}
  /\ client \in [Clients -> {"off", "prompt", "waiting", "left"}]
  /\ asked \in [Clients -> Nat] /\ heard \in [Clients -> Nat]
  /\ DOMAIN up = Clients /\ DOMAIN down = Clients
  /\ \A c \in Clients : /\ asked[c] \in 0..MaxCommands[c]
                        /\ heard[c] \in 0..asked[c]
                        /\ up[c] \in Seq(Requests(c)) /\ down[c] \in Seq(Pieces(c))
  /\ conn \in [Clients -> {"none", "pending", "open", "closed"}]
  /\ session \in [Clients -> [multi : BOOLEAN,
                              trx : [made : BOOLEAN, id : -1..currentTrxId, started : BOOLEAN]]]
  /\ trxes \subseteq Clients /\ doubled \subseteq Clients /\ leftOpen \subseteq Clients
  /\ currentTrxId \in Nat
  /\ log \in Seq([type : {"begin", "commit", "rollback"},
                  trx : -1..currentTrxId, xid : -1..currentTrxId])
  /\ started \in BOOLEAN
  /\ \/ loop \in {Dispatch, [Dispatch EXCEPT !.step = "stopped"]}
     \/ \E c \in Clients :
          loop \in [step : {"run", "cost"}, of : {c}, req : Requests(c), drop : BOOLEAN]

\* One answer for one request (read_event relies on it to discard what follows
\* a '\0'): as long as no statement of a connection was answered with a state
\* and then its cost, each command got its own answer, and at most one request
\* is on its way, so none is discarded.
OneAnswerEach ==
  /\ TypeOK
  /\ \A c \in {d \in Clients \ doubled : client[d] # "left"} :
       /\ client[c] = "prompt" => heard[c] = asked[c]
       /\ Len(up[c]) <= 1

\* The same without the condition, which is what the comment at read_event
\* says of the protocol: every command is answered by its own answer.
AnswerIsOwn == \A c \in Clients : client[c] = "prompt" => heard[c] = asked[c]

\* The last entry of l about the transaction trx is its begin exactly while trx
\* is started.
Tells(l, trx) ==
  trx.id > 0 => \E i \in 1..Len(l) :
                  /\ l[i].trx = trx.id
                  /\ \A j \in 1..Len(l) : j > i => l[j].trx # trx.id
                  /\ trx.started <=> l[i].type = "begin"

\* The log tells running transactions from ended ones, for the transaction of
\* every live session (start_if_need, commit, rollback, through every path of
\* send_result).
LogTellsOpen == \A c \in Clients : Tells(log, session[c].trx)

\* Begin and commit ids are drawn from one counter and logged in the order in
\* which they are drawn, whatever the sessions do: a transaction that begins
\* after a commit has the larger id, which is what visibility will compare.
\* A rollback draws none.
InOrder(l) ==
  \A i, j \in 1..Len(l) :
    i < j /\ l[i].type # "rollback" /\ l[j].type # "rollback" => l[i].xid < l[j].xid

IdsOrdered == InOrder(log)

\* redo.log has what a recovery would need of the transactions: which were
\* running, and in which order the others began and committed.
LogShowsOpen == LogTellsOpen /\ IdsOrdered

\* "单语句模式自动提交" (session.h): between two requests a session outside
\* BEGIN has no running transaction, except after a statement whose next()
\* failed, which send_result answers without close.
AutoCommits == \A c \in Clients :
                 loop.step = "dispatch" /\ session[c].trx.started /\ ~ session[c].multi
                   => c \in leftOpen

\* No transaction outlives its use: AutoCommits, and the transaction manager knows
\* exactly the transactions of live sessions: none leaks when a client goes away,
\* none dangles.
TrxesExact ==
  /\ AutoCommits
  /\ trxes = {c \in Clients : kit = "mvcc" /\ conn[c] = "open" /\ session[c].trx.made}

\* What BEGIN started runs until COMMIT, ROLLBACK or the end of the connection:
\* no failed or successful statement in between ends it.
BeginHolds == [][\A c \in Clients :
                   session[c].multi /\ kit = "mvcc" =>
                     \/ session'[c].multi /\ session'[c].trx = session[c].trx
                     \/ loop.step = "run" /\ loop.of = c /\ loop.req.stmt \in {"commit", "rollback"}
                     \/ conn'[c] = "closed"]_vars

\* Unless the server is held up for ever, by a client that took a surplus message
\* for its answer and went back to its prompt, a client that waits gets some answer
\* or sees the connection end, although answers may be taken for those of other
\* commands and requests discarded.
EveryCommandAnswered ==
  []<>~HeldUp => \A c \in Clients : client[c] = "waiting" ~> client[c] # "waiting"

=============================================================================
