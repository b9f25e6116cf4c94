------------------------------ MODULE RpcSession ------------------------------
(***************************************************************************)
(* One connection of IDA with a remote debugger server                     *)
(* (src/idasdk66/plugins/debugger: rpc_engine.cpp, rpc_client.cpp,         *)
(* rpc_debmod.cpp, rpc_server.cpp, server.cpp).                            *)
(*                                                                         *)
(* Both ends run rpc_engine_t::process_request, which sends a request and  *)
(* serves whatever arrives until an answer does.  On the server it nests:  *)
(* a handler, or the debugger module while it is polled, may send a        *)
(* message to IDA and serves IDA's next request while it waits for the     *)
(* answer.  The server's C++ stack is therefore part of the state.         *)
(*                                                                         *)
(* An event of the debuggee is reported in one of two ways: as the answer  *)
(* to GET_DEBUG_EVENT or, once such an answer was "no event", by the       *)
(* server's own EVENT packet.  Flags on both ends say whose turn it is.    *)
(*                                                                         *)
(* A step is what one end does between two uses of its socket.  The        *)
(* server's has_pending_event is TRUE only inside one such step            *)
(* (poll_events sets it, sends, and clears it), so it is not a variable.   *)
(***************************************************************************)
EXTENDS Naturals, Sequences, FiniteSets

CONSTANTS
  MaxEvents,     \* bound: events of the debuggee in one connection
  MaxMessages,   \* bound: messages of the server in one connection
  MaxCalls,      \* bound: requests after which IDA only asks for events
  MaxFailures,   \* bound: receives of the client that fail by timeout
  MaxSessions    \* bound: connections, one after the other

ASSUME BoundsAssumption ==
  {MaxEvents, MaxMessages, MaxCalls, MaxFailures, MaxSessions} \subseteq Nat

VARIABLES
  c2s, s2c,      \* the two directions of the TCP connection
  cpc,           \* what the client is doing
  asked,         \* number of the client's request that has no answer yet
  c_pending,     \* rpc_client_t::pending_event; 0: has_pending_event is FALSE
  c_poll,        \* client: poll_debug_events
  c_err,         \* client: network_error_code # 0
  stack,         \* server: frames of process_request and of handlers, top last
  s_poll,        \* server: poll_debug_events
  broken,        \* server: debmod_t::broken_connection
  due,           \* what happened in the debuggee and the module did not see yet
  happened, messages, requests, failures, sessions,  \* what the bounds count
  got,           \* history: events given to IDA in this connection
  clean          \* history: the client closed this connection with RPC_OK

clientVars == <<cpc, asked, c_pending, c_poll, c_err>>
serverVars == <<stack, s_poll, broken>>
counts     == <<messages, requests, failures, sessions>>
vars == <<c2s, s2c, clientVars, serverVars, due, happened, counts, got, clean>>

(* A packet: its RPC code, the number of the request it makes or answers,  *)
(* and its data: an event or 0, a flag of the handshake as 1 or 0.         *)
Codes == {"OPEN", "OK", "UNK", "EVENT", "EVOK", "GET_DEBUG_EVENT", "CALL",
          "MSG", "SET_DEBUG_NAMES"}
Packet(code, id, data) == [code |-> code, id |-> id, data |-> data]
Packets == [code : Codes, id : Nat, data : Nat]

(* A frame of the server's stack.  "open", "loop", "MSG", "SET_DEBUG_NAMES":
   process_request waits for the answer to that request ("loop" has none, it
   ends with the connection).  "poll": poll_events is in the debugger module.
   "GET_DEBUG_EVENT", "CALL": perform_request; saved is saved_poll_mode.
   noted: the module sent a message during this call.                      *)
Waiting == {"open", "loop", "MSG", "SET_DEBUG_NAMES"}
Serving == {"GET_DEBUG_EVENT", "CALL"}
Frames  == [op : Waiting \cup Serving \cup {"poll"}, id : Nat,
            saved : BOOLEAN, noted : BOOLEAN]
Frame(op, id, saved) == [op |-> op, id |-> id, saved |-> saved, noted |-> FALSE]

Top    == stack[Len(stack)]
Under  == SubSeq(stack, 1, Len(stack) - 1)
TopIs(ops) == stack # <<>> /\ Top.op \in ops
Push(f) == Append(stack, f)

ClientStates == {"off", "greet", "login", "opened", "idle", "init", "get",
                 "call", "term", "read", "termed"}
Asking == {"init", "get", "call", "term"}  \* in process_request with a request

\* A connection is accepted: the server has sent RPC_OPEN, the client's
\* open_remote waits for it.
Accepted ==
  /\ s2c' = <<Packet("OPEN", 0, 0)>> /\ c2s' = <<>>
  /\ stack' = <<Frame("open", 0, FALSE)>>
  /\ s_poll' = FALSE /\ broken' = FALSE
  /\ due' = <<>> /\ happened' = 0
  /\ messages' = 0 /\ requests' = 0
  /\ cpc' = "greet" /\ asked' = 0 /\ c_err' = FALSE
  /\ got' = <<>> /\ clean' = FALSE

Init ==
  /\ s2c = <<Packet("OPEN", 0, 0)>> /\ c2s = <<>>
  /\ stack = <<Frame("open", 0, FALSE)>>
  /\ s_poll = FALSE /\ broken = FALSE
  /\ due = <<>> /\ happened = 0
  /\ messages = 0 /\ requests = 0 /\ failures = 0 /\ sessions = 1
  /\ cpc = "greet" /\ asked = 0 /\ c_err = FALSE
  /\ c_pending = 0 /\ c_poll = FALSE
  /\ got = <<>> /\ clean = FALSE

(***************************************************************************)
(* The debuggee.  IDA ends a connection (TERM) only after the process is   *)
(* gone or detached, so nothing happens in it from then on.                *)
(***************************************************************************)
Debugging == cpc \in {"idle", "get", "call", "read"}

EventHappens ==
  /\ Debugging /\ happened < MaxEvents
  /\ happened' = happened + 1
  /\ due' = Append(due, happened + 1)
  /\ UNCHANGED <<c2s, s2c, clientVars, serverVars, counts, got, clean>>

(***************************************************************************)
(* The client                                                              *)
(***************************************************************************)
\* open_remote: RPC_OPEN arrived.  An incompatible server is told so and left;
\* otherwise the password (right or not) is sent.
Greet(compatible, password) ==
  /\ cpc = "greet" /\ s2c # <<>>
  /\ s2c' = Tail(s2c)
  /\ c2s' = Append(c2s, Packet("OK", 0, IF ~compatible THEN 0
                                        ELSE IF password THEN 2 ELSE 1))
  /\ cpc' = IF compatible THEN "login" ELSE "off"
  /\ UNCHANGED <<asked, c_pending, c_poll, c_err, serverVars, due, happened,
                 counts, got, clean>>

\* open_remote: the answer to the password
LoggedIn ==
  /\ cpc = "login" /\ s2c # <<>>
  /\ s2c' = Tail(s2c)
  /\ cpc' = IF Head(s2c).data = 1 THEN "opened" ELSE "off"
  /\ UNCHANGED <<c2s, asked, c_pending, c_poll, c_err, serverVars, due, happened,
                 counts, got, clean>>

\* process_request sends its request; with a network error it fails at once.
Ask(pc, code) ==
  /\ ~c_err
  /\ requests' = requests + 1
  /\ asked' = requests + 1
  /\ c2s' = Append(c2s, Packet(code, requests + 1, 0))
  /\ cpc' = pc

\* Mutant: the flags of the last connection stay.
ForgetEvents_not == UNCHANGED <<c_pending, c_poll>>
ForgetEvents == c_pending' = 0 /\ c_poll' = FALSE

\* dbg_init is the first request of every connection.
dbg_init ==
  /\ cpc = "opened"
  /\ Ask("init", "CALL")
  /\ ForgetEvents
  /\ UNCHANGED <<s2c, c_err, serverVars, due, happened, messages, failures,
                 sessions, got, clean>>

\* dbg_get_debug_event, first case: an EVENT packet came during another call.
TakePending ==
  /\ cpc = "idle" /\ c_pending # 0
  /\ got' = Append(got, c_pending)
  /\ c_pending' = 0
  /\ c_poll' = FALSE
  /\ UNCHANGED <<c2s, s2c, cpc, asked, c_err, serverVars, due, happened, counts,
                 clean>>

\* dbg_get_debug_event, second case: the server polls; read what it sent.
ReadWaiting ==
  /\ cpc = "idle" /\ c_pending = 0 /\ c_poll /\ ~c_err
  /\ s2c # <<>> \/ stack = <<>>  \* a closed socket counts as ready
  /\ cpc' = "read"
  /\ UNCHANGED <<c2s, s2c, asked, c_pending, c_poll, c_err, serverVars, due,
                 happened, counts, got, clean>>

\* dbg_get_debug_event, third case: ask the server.
AskForEvent ==
  /\ cpc = "idle" /\ c_pending = 0 /\ ~c_poll
  /\ Ask("get", "GET_DEBUG_EVENT")
  /\ UNCHANGED <<s2c, c_pending, c_poll, c_err, serverVars, due, happened,
                 messages, failures, sessions, got, clean>>

\* Any other request: memory, registers, breakpoints, continue_after_event...
Call ==
  /\ cpc = "idle" /\ requests < MaxCalls
  /\ Ask("call", "CALL")
  /\ UNCHANGED <<s2c, c_pending, c_poll, c_err, serverVars, due, happened,
                 messages, failures, sessions, got, clean>>

\* dbg_term, when nothing is left to report
Terminate ==
  /\ cpc = "idle" /\ due = <<>> /\ c_pending = 0
  /\ \A i \in DOMAIN s2c : s2c[i].data = 0
  /\ Ask("term", "CALL")
  /\ UNCHANGED <<s2c, c_pending, c_poll, c_err, serverVars, due, happened,
                 messages, failures, sessions, got, clean>>

\* Mutant: the socket is only closed.
Goodbye_not == c2s
Goodbye == IF c_err THEN c2s ELSE Append(c2s, Packet("OK", 0, 0))

\* close_remote, after dbg_term or after a network error (send_request then
\* sends nothing)
Close ==
  /\ cpc = "termed" \/ (cpc = "idle" /\ c_err)
  /\ c2s' = Goodbye
  /\ clean' = ~c_err
  /\ c_err' = FALSE
  /\ cpc' = "off"
  /\ UNCHANGED <<s2c, asked, c_pending, c_poll, serverVars, due, happened,
                 counts, got>>

\* Mutant: "no event" is not told from an event.
TakeEvent_any(p) == got' = Append(got, p.data) /\ UNCHANGED c_poll
\* dbg_get_debug_event: the answer to GET_DEBUG_EVENT
TakeEvent(p) ==
  IF p.data # 0 THEN got' = Append(got, p.data) /\ UNCHANGED c_poll
                ELSE c_poll' = TRUE /\ UNCHANGED got

\* process_request: RPC_OK or RPC_UNK.  A reader of events takes this for a
\* protocol error and returns; the others have their answer.
GetAnswer ==
  /\ cpc \in Asking \cup {"read"}
  /\ s2c # <<>> /\ Head(s2c).code \in {"OK", "UNK"}
  /\ s2c' = Tail(s2c)
  /\ cpc' = IF cpc = "term" THEN "termed" ELSE "idle"
  /\ IF cpc = "get" /\ Head(s2c).code = "OK" THEN TakeEvent(Head(s2c))
     ELSE UNCHANGED <<c_poll, got>>
  /\ UNCHANGED <<c2s, asked, c_pending, c_err, serverVars, due, happened, counts,
                 clean>>

\* perform_request: RPC_EVENT.  It is stored and acknowledged; who reads
\* events returns, who waits for an answer goes on.
GetEvent ==
  /\ cpc \in Asking \cup {"read"}
  /\ s2c # <<>> /\ Head(s2c).code = "EVENT"
  /\ s2c' = Tail(s2c)
  /\ c_pending' = Head(s2c).data
  /\ c2s' = Append(c2s, Packet("EVOK", 0, 0))
  /\ cpc' = IF cpc = "read" THEN "idle" ELSE cpc
  /\ UNCHANGED <<asked, c_poll, c_err, serverVars, due, happened, counts, got,
                 clean>>

\* Mutant: messages are not answered.
AnswerToMessage_not == c2s
AnswerToMessage == Append(c2s, Packet("OK", Head(s2c).id, 0))

\* perform_request: a message or names.  It is answered, and the wait goes on:
\* a reader of events blocks although nothing more may be there.
GetMessage ==
  /\ cpc \in Asking \cup {"read"}
  /\ s2c # <<>> /\ Head(s2c).code \in {"MSG", "SET_DEBUG_NAMES"}
  /\ s2c' = Tail(s2c)
  /\ c2s' = AnswerToMessage
  /\ UNCHANGED <<clientVars, serverVars, due, happened, counts, got, clean>>

\* recv_all: nothing came for RECV_TIMEOUT_PERIOD, or the server has closed.
\* A failed get leaves the flags as they are.
ReceiveFails ==
  /\ cpc \in Asking \cup {"read", "greet", "login"} /\ s2c = <<>>
  /\ \/ stack = <<>> /\ UNCHANGED failures
     \/ stack # <<>> /\ failures < MaxFailures /\ failures' = failures + 1
  /\ c_err' = (cpc \notin {"greet", "login"})
  /\ cpc' = IF cpc \in {"greet", "login"} THEN "off" ELSE "idle"
  /\ UNCHANGED <<c2s, s2c, asked, c_pending, c_poll, serverVars, due, happened,
                 messages, requests, sessions, got, clean>>

\* The next connection, with a new server object; the client object is reused.
OpenAgain ==
  /\ cpc = "off" /\ stack = <<>> /\ sessions < MaxSessions
  /\ sessions' = sessions + 1
  /\ Accepted
  /\ UNCHANGED <<c_pending, c_poll, failures>>

(***************************************************************************)
(* The server                                                              *)
(***************************************************************************)
\* handle_single_session: the client's answer to RPC_OPEN.  Only a compatible
\* client gets an answer, and only the right password starts the main loop.
Login ==
  /\ TopIs({"open"}) /\ c2s # <<>>
  /\ c2s' = Tail(c2s)
  /\ LET ok == Head(c2s).data = 2
     IN  /\ s2c' = IF Head(c2s).data = 0 THEN s2c
                   ELSE Append(s2c, Packet("OK", 0, IF ok THEN 1 ELSE 0))
         /\ stack' = IF ok THEN <<Frame("loop", 0, FALSE)>> ELSE <<>>
  /\ UNCHANGED <<clientVars, s_poll, broken, due, happened, counts, got, clean>>

\* recv_all finds nothing to read: ask the debugger module, with the flag
\* down so that messages it sends do not poll again.
poll_events ==
  /\ TopIs(Waiting) /\ s_poll /\ c2s = <<>> /\ cpc # "off"
  /\ s_poll' = FALSE
  /\ stack' = Push(Frame("poll", 0, FALSE))
  /\ UNCHANGED <<c2s, s2c, clientVars, broken, due, happened, counts, got, clean>>

\* Mutant: the server does not go on polling.
PollsAfterNothing_not == FALSE
PollsAfterNothing == TRUE
\* Mutant: it polls on after it has sent an event.
PollsAfterEvent_too == TRUE
PollsAfterEvent == Top.op = "GET_DEBUG_EVENT" /\ Top.saved

\* The module answers GDE_NO_EVENT: there is nothing, or it has told the user
\* of what there was.  The end of poll_events, and of perform_request.
FetchNothing ==
  /\ TopIs({"poll", "GET_DEBUG_EVENT"})
  /\ due = <<>> \/ Top.noted
  /\ stack' = Under
  /\ s_poll' = PollsAfterNothing
  /\ s2c' = IF Top.op = "poll" THEN s2c ELSE Append(s2c, Packet("OK", Top.id, 0))
  /\ UNCHANGED <<c2s, clientVars, broken, due, happened, counts, got, clean>>

\* The module has an event: poll_events sends it and polls no more, until
\* GET_DEBUG_EVENT is answered "no event"; perform_request answers with it.
FetchEvent ==
  /\ TopIs({"poll", "GET_DEBUG_EVENT"})
  /\ due # <<>>
  /\ due' = Tail(due)
  /\ stack' = Under
  /\ s2c' = Append(s2c, IF Top.op = "poll" THEN Packet("EVENT", 0, Head(due))
                        ELSE Packet("OK", Top.id, Head(due)))
  /\ s_poll' = PollsAfterEvent
  /\ UNCHANGED <<c2s, clientVars, broken, happened, counts, got, clean>>

\* Something the module only tells the user of: a signal that is logged and
\* does not suspend the process, a breakpoint condition that fails (dvmsg,
\* report_idc_error).  It sends a message and waits for the answer.
FetchNote ==
  /\ TopIs({"poll", "GET_DEBUG_EVENT"}) /\ Debugging
  /\ messages < MaxMessages
  /\ messages' = messages + 1
  /\ stack' = Append(Append(Under, [Top EXCEPT !.noted = TRUE]),
                     Frame("MSG", messages + 1, FALSE))
  /\ s2c' = Append(s2c, Packet("MSG", messages + 1, 0))
  /\ UNCHANGED <<c2s, clientVars, s_poll, broken, due, happened, requests,
                 failures, sessions, got, clean>>

\* A handler sends a message, or names of the debuggee (send_debug_names_to_ida).
CallAsks(code) ==
  /\ TopIs({"CALL"}) /\ messages < MaxMessages
  /\ messages' = messages + 1
  /\ stack' = Push(Frame(code, messages + 1, FALSE))
  /\ s2c' = Append(s2c, Packet(code, messages + 1, 0))
  /\ UNCHANGED <<c2s, clientVars, s_poll, broken, due, happened, requests,
                 failures, sessions, got, clean>>

\* process_request: a request of the client arrived; perform_request starts.
Serve ==
  /\ TopIs(Waiting \ {"open"}) /\ c2s # <<>> /\ Head(c2s).code \in Serving
  /\ c2s' = Tail(c2s)
  /\ stack' = Push(Frame(Head(c2s).code, Head(c2s).id, s_poll))
  /\ s_poll' = FALSE
  /\ UNCHANGED <<s2c, clientVars, broken, due, happened, counts, got, clean>>

\* Mutant: it is answered like a request.
AnswerToEvok_ok == Append(s2c, Packet("OK", 0, 0))
AnswerToEvok == s2c

\* perform_request: RPC_EVOK changes nothing and is not answered.
GetEvok ==
  /\ TopIs(Waiting \ {"open"}) /\ c2s # <<>> /\ Head(c2s).code = "EVOK"
  /\ c2s' = Tail(c2s)
  /\ s2c' = AnswerToEvok
  /\ UNCHANGED <<clientVars, serverVars, due, happened, counts, got, clean>>

\* The end of perform_request: the answer, or RPC_UNK to an unknown request
AnswerCall(code) ==
  /\ TopIs({"CALL"})
  /\ s2c' = Append(s2c, Packet(code, Top.id, 0))
  /\ stack' = Under
  /\ s_poll' = (s_poll \/ Top.saved)
  /\ UNCHANGED <<c2s, clientVars, broken, due, happened, counts, got, clean>>

\* process_request returns RPC_OK to whoever waits at the top of the stack; to
\* the main loop it is the end of the session (rpc_debmod_t::close_remote).
Answered ==
  /\ TopIs(Waiting \ {"open"}) /\ c2s # <<>> /\ Head(c2s).code = "OK"
  /\ c2s' = Tail(c2s)
  /\ stack' = Under
  /\ UNCHANGED <<s2c, clientVars, s_poll, broken, due, happened, counts, got,
                 clean>>

\* recv_all: the client closed the connection; process_request returns NULL.
ServerReceiveFails ==
  /\ TopIs(Waiting) /\ c2s = <<>> /\ cpc = "off"
  /\ broken' = TRUE
  /\ stack' = Under
  /\ UNCHANGED <<c2s, s2c, clientVars, s_poll, due, happened, counts, got, clean>>

(***************************************************************************)
Terminated == cpc = "off" /\ stack = <<>> /\ sessions = MaxSessions
              /\ UNCHANGED vars

ClientStep ==
  \/ LoggedIn \/ dbg_init \/ TakePending \/ ReadWaiting \/ AskForEvent
  \/ Call \/ Terminate \/ Close \/ GetAnswer \/ GetEvent \/ GetMessage
  \/ ReceiveFails \/ OpenAgain
  \/ \E compatible, password \in BOOLEAN : Greet(compatible, password)

ServerStep ==
  \/ Login \/ poll_events \/ FetchNothing \/ FetchEvent \/ FetchNote
  \/ Serve \/ GetEvok \/ Answered \/ ServerReceiveFails
  \/ \E code \in {"MSG", "SET_DEBUG_NAMES"} : CallAsks(code)
  \/ \E code \in {"OK", "UNK"} : AnswerCall(code)

Next == ClientStep \/ ServerStep \/ EventHappens \/ Terminated

Spec == Init /\ [][Next]_vars

(***************************************************************************)
(* Fairness: the server's thread runs; IDA's thread reads its socket and   *)
(* calls dbg_get_debug_event again and again.  Nothing says that IDA makes *)
(* other requests, that a receive fails, or that anything happens in the   *)
(* debuggee.                                                               *)
(***************************************************************************)
GetsEvents == TakePending \/ ReadWaiting \/ AskForEvent

FairSpec ==
  /\ Spec
  /\ WF_vars(ServerStep)
  /\ WF_vars(GetsEvents)
  /\ WF_vars(LoggedIn \/ dbg_init \/ GetAnswer \/ GetEvent \/ GetMessage)

-----------------------------------------------------------------------------
(***************************************************************************)
(* Properties                                                              *)
(***************************************************************************)
TypeOK ==
  /\ c2s \in Seq(Packets) /\ s2c \in Seq(Packets)
  /\ cpc \in ClientStates /\ asked \in Nat
  /\ c_pending \in Nat /\ c_poll \in BOOLEAN /\ c_err \in BOOLEAN
  /\ stack \in Seq(Frames) /\ s_poll \in BOOLEAN /\ broken \in BOOLEAN
  /\ due \in Seq(Nat) /\ got \in Seq(Nat \ {0})  \* "no event" is not given
  /\ {happened, messages, requests, failures, sessions} \subseteq Nat
  /\ clean \in BOOLEAN

\* The events on their way to the client, in order
Carried == {p \in Packets : p.code \in {"EVENT", "OK"} /\ p.data # 0}
EventsIn(q) ==
  LET at == {i \in DOMAIN q : q[i] \in Carried}
      nth(k) == CHOOSE i \in at : Cardinality({j \in at : j <= i}) = k
  IN  [k \in 1 .. Cardinality(at) |-> q[nth(k)].data]
Sent == EventsIn(s2c)
Held == IF c_pending = 0 THEN <<>> ELSE <<c_pending>>

Healthy == cpc \in {"idle", "init", "get", "call", "term", "read", "termed"} /\ ~c_err

\* While the connection is sound no event is lost, given twice or overtaken
\* by a later one: what IDA got, what the client holds, what is on its way
\* and what the module still has are all that happened, in order.
EventsConserved ==
  Healthy => got \o Held \o Sent \o due = [i \in 1 .. happened |-> i]

\* consts.h, RPC_EVOK: GET_DEBUG_EVENT must not reach the debugger module
\* while an event was sent and not acknowledged.  The code does not check it;
\* the flags of the two ends keep it from happening.
NoFetchWhileUnacknowledged ==
  (\E i \in DOMAIN stack : stack[i].op = "GET_DEBUG_EVENT") =>
     /\ \A i \in DOMAIN s2c : s2c[i].code # "EVENT"
     /\ \A i \in DOMAIN c2s : c2s[i].code # "EVOK"

\* Only one end is in charge of the next event: while the server polls, the
\* client waits for its packet and does not ask, or will when it has read the
\* answer "no event".
OneFetcher ==
  Healthy /\ (s_poll \/ \E j \in DOMAIN stack : stack[j].op = "poll" \/ stack[j].saved) =>
    \/ c_poll
    \/ cpc = "get" /\ \E i \in DOMAIN s2c : s2c[i].code = "OK" /\ s2c[i].id = asked

\* An answer reaches the call it answers: the client never takes an answer to
\* something else, nor reads one when it waits for an event, and the server's
\* main loop takes only the closing RPC_OK for the end of the session.
AnswersFindTheirCall ==
  /\ Healthy /\ s2c # <<>> /\ Head(s2c).code \in {"OK", "UNK"} =>
       cpc \in Asking /\ Head(s2c).id = asked
  /\ TopIs({"loop"}) /\ c2s # <<>> /\ Head(c2s).code = "OK" => Head(c2s).id = 0

\* A client that closed its connection as it should leaves no broken
\* connection behind, which the server would keep for a client to return.
BrokenOnlyByFailure == broken => ~clean

(* The connection implements the stream of events.                         *)
Stream == INSTANCE EventStream
            WITH occurred <- happened, given <- got, up <- cpc # "off" /\ ~c_err

\* Each step gives IDA the next event of the debuggee or none, and no event
\* waits for ever while the connection is sound.
ImplementsStream == Stream!Spec

\* Every request of IDA is answered, or fails.
RequestReturns == cpc \in Asking ~> cpc \notin Asking
=============================================================================
