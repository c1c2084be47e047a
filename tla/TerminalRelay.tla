--------------------------- MODULE TerminalRelay ----------------------------
(***************************************************************************)
(* The relay of browser terminals to a managed node: the hub of the panel  *)
(* (internal/agentterminal), the WebSocket handler of each browser tab     *)
(* (internal/api/handlers_terminal_agent.go) and the terminal server of    *)
(* the agent (cmd/hserver-agent/terminal.go).                              *)
(*                                                                         *)
(* The agent dials one connection at a time; it multiplexes every session  *)
(* of the node.  Each goroutine is a process of the model: the handler and *)
(* the forwarder of a tab, the Run loop and the shutdown of a connection,  *)
(* the read loop of the agent and the output loop of each PTY.  A write to *)
(* a full connection blocks, a write to a closed one fails.  The content   *)
(* of the messages is left out.                                            *)
(***************************************************************************)
EXTENDS Naturals, Sequences, FiniteSets

CONSTANTS
  Sessions,    \* browser tabs, each with the session id that Create draws
  MaxConns,    \* bound of the model: connections the agent dials
  MaxTraffic,  \* bound of the model: inputs, outputs and reconnections
  DownCap,     \* messages a connection buffers towards the agent
  UpCap,       \* messages a connection buffers towards the hub
  EventCap,    \* capacity of a session's event channel (64)
  PtyCap       \* maxTerminalSessions of the agent (8)

ASSUME RelayAssumption ==
  {MaxConns, MaxTraffic, DownCap, UpCap, EventCap, PtyCap} \subseteq Nat

Conns == 1 .. MaxConns
EventType == {"ready", "output", "error", "close"}
UpMessage == [type : EventType, session : Sessions]
DownMessage == [type : {"open", "input", "oversized", "close"}, session : Sessions]
Nothing == [type |-> "none"]

VARIABLES
  current,   \* Hub.agents of the node, 0 for none
  sessions,  \* the sessions in the map of each connection
  closed,    \* connections whose transport the hub has closed
  cut,       \* connections that broke, or that the agent has closed
  run,       \* the Attach and Run of each connection
  shut,      \* the shutdown of each connection, and the sessions it took
  handler,   \* the handler of each tab
  events,    \* the event channel of each session
  done,      \* sessions whose done channel is closed
  tab,       \* the forwarder of each tab
  dialed,    \* connections dialed so far
  agent,     \* the read loop of the agent
  ptys,      \* the sessions in the agent's map
  output,    \* the output loop of each PTY
  down, up,  \* what each connection holds towards the agent and the hub
  traffic,   \* inputs, outputs and reconnections so far
  refused    \* history: sessions whose input the agent refused as too large

hubVars == <<current, sessions, closed, run, shut>>
tabVars == <<handler, events, done, tab>>
agentVars == <<dialed, agent, ptys, output>>
wires == <<cut, down, up>>
history == <<traffic, refused>>
vars == <<hubVars, tabVars, agentVars, wires, history>>

Msg(type, s) == [type |-> type, session |-> s]

-----------------------------------------------------------------------------
(* Hub.Attach and AgentConnection.Run.                                     *)

RunAt(c, at) == run' = [run EXCEPT ![c].at = at]

ReadAgain(c) == run' = [run EXCEPT ![c].at = "read", ![c].msg = Nothing]

\* closeOnce: the first caller runs the shutdown, a later one waits for it.
Shutdown(c) == shut' = [shut EXCEPT ![c].at = IF @ = "no" THEN "unlist" ELSE @]

Attach(c) ==
  /\ run[c].at = "attach"
  /\ current' = c
  /\ run' = [run EXCEPT ![c].at = "replace", ![c].previous = current]
  /\ UNCHANGED <<sessions, closed, shut, tabVars, agentVars, wires, history>>

\* The connection that was replaced is shut down before Run starts.
Replace(c) ==
  LET p == run[c].previous
  IN /\ run[c].at = "replace"
     /\ \/ (p # 0 => shut[p].at = "done") /\ RunAt(c, "read") /\ UNCHANGED shut
        \/ p # 0 /\ shut[p].at = "no" /\ Shutdown(p) /\ UNCHANGED run
     /\ UNCHANGED <<current, sessions, closed, tabVars, agentVars, wires, history>>

\* A message for a session that is not in the map is dropped.
ReadUp(c) ==
  /\ run[c].at = "read" /\ c \notin closed /\ up[c] # <<>>
  /\ up' = [up EXCEPT ![c] = Tail(@)]
  /\ IF Head(up[c]).session \in sessions[c]
       THEN run' = [run EXCEPT ![c].at = "deliver", ![c].msg = Head(up[c])]
       ELSE UNCHANGED run
  /\ UNCHANGED <<current, sessions, closed, shut, tabVars, agentVars, cut, down, history>>

\* The channel takes the message, or the session is done.
Deliver(c) ==
  LET m == run[c].msg
      s == m.session
  IN /\ run[c].at = "deliver"
     /\ \/ Len(events[s]) < EventCap /\ events' = [events EXCEPT ![s] = Append(@, m.type)]
        \/ s \in done /\ UNCHANGED events
     /\ IF m.type \in {"close", "error"} THEN RunAt(c, "remove") ELSE ReadAgain(c)
     /\ UNCHANGED <<current, sessions, closed, shut, handler, done, tab, agentVars,
                    wires, history>>

\* A close or an error of the agent ends the session.
RemoveEnded(c) ==
  /\ run[c].at = "remove"
  /\ sessions' = [sessions EXCEPT ![c] = @ \ {run[c].msg.session}]
  /\ RunAt(c, "finish")
  /\ UNCHANGED <<current, closed, shut, tabVars, agentVars, wires, history>>

FinishEnded(c) ==
  /\ run[c].at = "finish"
  /\ done' = done \union {run[c].msg.session}
  /\ ReadAgain(c)
  /\ UNCHANGED <<current, sessions, closed, shut, handler, events, tab, agentVars,
                 wires, history>>

ReadFails(c) ==
  /\ run[c].at = "read"
  /\ c \in closed \union cut
  /\ RunAt(c, "end")
  /\ Shutdown(c)
  /\ UNCHANGED <<current, sessions, closed, tabVars, agentVars, wires, history>>

Run(c) ==
  \/ Attach(c) \/ Replace(c) \/ ReadUp(c) \/ Deliver(c)
  \/ RemoveEnded(c) \/ FinishEnded(c) \/ ReadFails(c)

-----------------------------------------------------------------------------
(* AgentConnection.shutdown.                                               *)

\* Mutant: the entry of the node is removed whichever connection it holds.
Unlist_Any(c) ==
  /\ shut[c].at = "unlist"
  /\ current' = 0
  /\ shut' = [shut EXCEPT ![c].at = "close"]
  /\ UNCHANGED <<sessions, closed, run, tabVars, agentVars, wires, history>>

Unlist(c) ==
  /\ shut[c].at = "unlist"
  /\ current' = IF current = c THEN 0 ELSE current
  /\ shut' = [shut EXCEPT ![c].at = "close"]
  /\ UNCHANGED <<sessions, closed, run, tabVars, agentVars, wires, history>>

\* Mutant: the sessions are taken, and the transport closed at the end.
CloseTransport_Late(c) ==
  /\ shut[c].at = "close"
  /\ shut' = [shut EXCEPT ![c].at = "swap"]
  /\ UNCHANGED <<current, sessions, closed, run, tabVars, agentVars, wires, history>>

CloseTransport(c) ==
  /\ shut[c].at = "close"
  /\ closed' = closed \union {c}
  /\ up' = [up EXCEPT ![c] = <<>>]
  /\ shut' = [shut EXCEPT ![c].at = "swap"]
  /\ UNCHANGED <<current, sessions, run, tabVars, agentVars, cut, down, history>>

TakeSessions(c) ==
  /\ shut[c].at = "swap"
  /\ shut' = [shut EXCEPT ![c] = [at |-> "notify", took |-> sessions[c]]]
  /\ sessions' = [sessions EXCEPT ![c] = {}]
  /\ UNCHANGED <<current, closed, run, tabVars, agentVars, wires, history>>

\* Mutant: the session is not ended when its channel has no room for the close.
EndSession_Unfinished(c, s) ==
  /\ shut[c].at = "notify" /\ s \in shut[c].took
  /\ events' = [events EXCEPT ![s] = IF Len(@) < EventCap THEN Append(@, "close") ELSE @]
  /\ done' = IF Len(events[s]) < EventCap THEN done \union {s} ELSE done
  /\ shut' = [shut EXCEPT ![c].took = @ \ {s}]
  /\ UNCHANGED <<current, sessions, closed, run, handler, tab, agentVars, wires, history>>

\* A close is put into the channel if there is room, and the session is done.
EndSession(c, s) ==
  /\ shut[c].at = "notify" /\ s \in shut[c].took
  /\ events' = [events EXCEPT ![s] = IF Len(@) < EventCap THEN Append(@, "close") ELSE @]
  /\ done' = done \union {s}
  /\ shut' = [shut EXCEPT ![c].took = @ \ {s}]
  /\ UNCHANGED <<current, sessions, closed, run, handler, tab, agentVars, wires, history>>

ShutdownEnds(c) ==
  /\ shut[c].at = "notify" /\ shut[c].took = {}
  /\ shut' = [shut EXCEPT ![c].at = "done"]
  /\ UNCHANGED <<current, sessions, closed, run, tabVars, agentVars, wires, history>>

ShutdownStep(c) ==
  \/ Unlist(c) \/ CloseTransport(c) \/ TakeSessions(c) \/ ShutdownEnds(c)
  \/ \E s \in Sessions : EndSession(c, s)

-----------------------------------------------------------------------------
(* The handler of a tab: handleRemoteTerminalWS, Hub.Open, Session.Send    *)
(* and Session.Close.                                                      *)

HandlerAt(s, at) == handler' = [handler EXCEPT ![s].at = at]

\* AgentConnection.write: what is written to an agent that is gone is lost.
HubWrites(c, m) ==
  /\ c \notin closed /\ Len(down[c]) < DownCap
  /\ down' = IF agent.conn = c THEN [down EXCEPT ![c] = Append(@, m)] ELSE down

HubWriteFails(c) == c \in closed \union cut /\ UNCHANGED down

\* A tab is refused while Connected finds no connection.
Connect(s) ==
  /\ handler[s].at = "idle" /\ current # 0
  /\ HandlerAt(s, "lookup")
  /\ UNCHANGED <<hubVars, events, done, tab, agentVars, wires, history>>

Lookup(s) ==
  /\ handler[s].at = "lookup"
  /\ handler' = [handler EXCEPT ![s] =
       [@ EXCEPT !.at = IF current = 0 THEN "ended" ELSE "register", !.conn = current]]
  /\ UNCHANGED <<hubVars, events, done, tab, agentVars, wires, history>>

Register(s) ==
  LET c == handler[s].conn
  IN /\ handler[s].at = "register"
     /\ sessions' = [sessions EXCEPT ![c] = @ \union {s}]
     /\ HandlerAt(s, "open")
     /\ UNCHANGED <<current, closed, run, shut, events, done, tab, agentVars, wires, history>>

OpenSent(s) ==
  /\ handler[s].at = "open"
  /\ HubWrites(handler[s].conn, Msg("open", s))
  /\ HandlerAt(s, "serve")
  /\ tab' = [tab EXCEPT ![s] = "on"]
  /\ UNCHANGED <<hubVars, events, done, agentVars, cut, up, history>>

OpenFails(s) ==
  LET c == handler[s].conn
  IN /\ handler[s].at = "open"
     /\ HubWriteFails(c)
     /\ sessions' = [sessions EXCEPT ![c] = @ \ {s}]
     /\ HandlerAt(s, "finish")
     /\ UNCHANGED <<current, closed, run, shut, events, done, tab, agentVars, cut, up, history>>

\* The browser sends input, within or beyond the limit of the agent.
Input(s, type) ==
  /\ handler[s].at = "serve" /\ traffic < MaxTraffic
  /\ traffic' = traffic + 1
  /\ handler' = [handler EXCEPT ![s] =
       IF s \in done THEN [@ EXCEPT !.at = "close"] ELSE [@ EXCEPT !.at = "send", !.input = type]]
  /\ UNCHANGED <<hubVars, events, done, tab, agentVars, wires, refused>>

SendInput(s) ==
  LET c == handler[s].conn
  IN /\ handler[s].at = "send"
     /\ \/ HubWrites(c, Msg(handler[s].input, s)) /\ HandlerAt(s, "serve")
        \/ HubWriteFails(c) /\ HandlerAt(s, "close")
     /\ UNCHANGED <<hubVars, events, done, tab, agentVars, cut, up, history>>

\* The browser is gone or idle, or the panel stops.
Leave(s) ==
  /\ handler[s].at = "serve"
  /\ HandlerAt(s, "close")
  /\ UNCHANGED <<hubVars, events, done, tab, agentVars, wires, history>>

\* The forwarder has closed the WebSocket: its next read fails.
TabClosed(s) == tab[s] = "ended" /\ Leave(s)

\* Mutant: the session is taken out of the map without telling the agent.
CloseRemoves_Silent(s) ==
  LET c == handler[s].conn
  IN /\ handler[s].at = "close"
     /\ sessions' = [sessions EXCEPT ![c] = @ \ {s}]
     /\ HandlerAt(s, "finish")
     /\ UNCHANGED <<current, closed, run, shut, events, done, tab, agentVars, wires, history>>

\* removeSession: the agent is told only if the session was in the map.
CloseRemoves(s) ==
  LET c == handler[s].conn
  IN /\ handler[s].at = "close"
     /\ sessions' = [sessions EXCEPT ![c] = @ \ {s}]
     /\ HandlerAt(s, IF s \in sessions[c] THEN "notify" ELSE "finish")
     /\ UNCHANGED <<current, closed, run, shut, events, done, tab, agentVars, wires, history>>

CloseNotifies(s) ==
  LET c == handler[s].conn
  IN /\ handler[s].at = "notify"
     /\ HubWrites(c, Msg("close", s)) \/ HubWriteFails(c)
     /\ HandlerAt(s, "finish")
     /\ UNCHANGED <<hubVars, events, done, tab, agentVars, cut, up, history>>

Finish(s) ==
  /\ handler[s].at = "finish"
  /\ done' = done \union {s}
  /\ HandlerAt(s, "ended")
  /\ UNCHANGED <<hubVars, events, tab, agentVars, wires, history>>

Handler(s) ==
  \/ Lookup(s) \/ Register(s) \/ OpenSent(s) \/ OpenFails(s) \/ SendInput(s) \/ TabClosed(s)
  \/ CloseRemoves(s) \/ CloseNotifies(s) \/ Finish(s)

-----------------------------------------------------------------------------
(* forwardRemoteTerminalOutput.                                            *)

\* Mutant: the forwarder ends with the first write to a browser that is gone.
ForwardEvent_Gone(s) ==
  /\ tab[s] = "on" /\ events[s] # <<>>
  /\ events' = [events EXCEPT ![s] = Tail(@)]
  /\ tab' = [tab EXCEPT ![s] = IF Head(events[s]) \in {"close", "error"}
                                   \/ handler[s].at \notin {"serve", "send"} THEN "ended" ELSE @]
  /\ UNCHANGED <<hubVars, handler, done, agentVars, wires, history>>

ForwardEvent(s) ==
  /\ tab[s] = "on" /\ events[s] # <<>>
  /\ events' = [events EXCEPT ![s] = Tail(@)]
  /\ tab' = [tab EXCEPT ![s] = IF Head(events[s]) \in {"close", "error"} THEN "ended" ELSE @]
  /\ UNCHANGED <<hubVars, handler, done, agentVars, wires, history>>

\* One event that is already there is still forwarded.
ForwardDone(s) ==
  /\ tab[s] = "on" /\ s \in done
  /\ events' = [events EXCEPT ![s] = IF @ = <<>> THEN @ ELSE Tail(@)]
  /\ tab' = [tab EXCEPT ![s] = "ended"]
  /\ UNCHANGED <<hubVars, handler, done, agentVars, wires, history>>

Forwarder(s) == ForwardEvent(s) \/ ForwardDone(s)

-----------------------------------------------------------------------------
(* The agent: runTerminalConnector and serveAgentTerminal.                 *)

\* agentTerminalServer.send
AgentWrites(c, m) ==
  /\ c \notin closed \union cut /\ Len(up[c]) < UpCap
  /\ up' = [up EXCEPT ![c] = Append(@, m)]

AgentWriteFails(c) == c \in closed \union cut /\ UNCHANGED up

Dial ==
  /\ agent.conn = 0 /\ dialed < MaxConns
  /\ dialed > 0 => traffic < MaxTraffic
  /\ traffic' = IF dialed > 0 THEN traffic + 1 ELSE traffic
  /\ dialed' = dialed + 1
  /\ agent' = [agent EXCEPT !.conn = dialed']
  /\ run' = [run EXCEPT ![dialed'].at = "attach"]
  /\ UNCHANGED <<current, sessions, closed, shut, tabVars, ptys, output, wires, refused>>

\* The answer of the agent to a message, and the PTYs it leaves.
Answer(m, answer, left) ==
  /\ down' = [down EXCEPT ![agent.conn] = Tail(@)]
  /\ agent' = [agent EXCEPT !.msg = answer]
  /\ ptys' = left
  /\ refused' = IF m.type = "oversized" /\ answer.type = "error"
                  THEN refused \union {m.session} ELSE refused

AgentReads ==
  LET m == Head(down[agent.conn])
      s == m.session
  IN /\ agent.conn # 0 /\ agent.msg = Nothing
     /\ agent.conn \notin cut /\ down[agent.conn] # <<>>
     /\ \/ m.type = "open" /\ Cardinality(ptys) < PtyCap
           /\ Answer(m, Msg("ready", s), ptys \union {s})
        \/ m.type = "open"      \* the limit is reached, or the shell does not start
           /\ Answer(m, Msg("error", s), ptys)
        \/ m.type \in {"input", "oversized"} /\ s \notin ptys
           /\ Answer(m, Nothing, ptys)
        \/ m.type = "input" /\ s \in ptys
           /\ \/ Answer(m, Nothing, ptys)
              \/ Answer(m, Msg("close", s), ptys \ {s})   \* the write fails
        \/ m.type = "oversized" /\ s \in ptys
           /\ Answer(m, Msg("error", s), ptys)
        \/ m.type = "close"
           /\ Answer(m, Nothing, ptys \ {s})
     /\ UNCHANGED <<hubVars, tabVars, dialed, output, cut, up, traffic>>

\* Once ready is written, the output loop of the PTY starts.
AgentAnswers ==
  LET m == agent.msg
  IN /\ m # Nothing
     /\ agent' = [agent EXCEPT !.msg = Nothing]
     /\ \/ /\ AgentWrites(agent.conn, m)
           /\ output' = IF m.type = "ready" THEN [output EXCEPT ![m.session] = "on"] ELSE output
           /\ UNCHANGED ptys
        \/ /\ AgentWriteFails(agent.conn)
           /\ ptys' = IF m.type = "ready" THEN ptys \ {m.session} ELSE ptys
           /\ UNCHANGED output
     /\ UNCHANGED <<hubVars, tabVars, dialed, cut, down, history>>

\* The read fails: closeAll, and the connection is closed.
AgentDisconnects ==
  /\ agent.conn # 0 /\ agent.msg = Nothing
  /\ agent.conn \in closed \union cut
  /\ cut' = cut \union {agent.conn}
  /\ agent' = [agent EXCEPT !.conn = 0]
  /\ ptys' = {}
  /\ down' = [down EXCEPT ![agent.conn] = <<>>]
  /\ UNCHANGED <<hubVars, tabVars, dialed, output, up, history>>

-----------------------------------------------------------------------------
(* forwardOutput, on the connection that carried the session's open.       *)

OutputAt(s, at) == output' = [output EXCEPT ![s] = at]

PtyOutputs(s) ==
  /\ output[s] = "on" /\ s \in ptys /\ traffic < MaxTraffic
  /\ traffic' = traffic + 1
  /\ OutputAt(s, "send")
  /\ UNCHANGED <<hubVars, tabVars, dialed, agent, ptys, wires, refused>>

SendOutput(s) ==
  LET c == handler[s].conn
  IN /\ output[s] = "send"
     /\ \/ AgentWrites(c, Msg("output", s)) /\ OutputAt(s, "on") /\ UNCHANGED ptys
        \/ AgentWriteFails(c) /\ OutputAt(s, "off") /\ ptys' = ptys \ {s}
     /\ UNCHANGED <<hubVars, tabVars, dialed, agent, cut, down, history>>

\* The shell exits, or closeSession has closed the PTY: the read fails.
PtyEnds(s) ==
  /\ output[s] = "on"
  /\ OutputAt(s, IF s \in ptys THEN "close" ELSE "off")
  /\ ptys' = ptys \ {s}
  /\ UNCHANGED <<hubVars, tabVars, dialed, agent, wires, history>>

SendClose(s) ==
  LET c == handler[s].conn
  IN /\ output[s] = "close"
     /\ AgentWrites(c, Msg("close", s)) \/ AgentWriteFails(c)
     /\ OutputAt(s, "off")
     /\ UNCHANGED <<hubVars, tabVars, dialed, agent, ptys, cut, down, history>>

Output(s) == SendOutput(s) \/ SendClose(s) \/ (s \notin ptys /\ PtyEnds(s))

ConnectionBreaks(c) ==
  /\ agent.conn = c /\ c \notin cut
  /\ cut' = cut \union {c}
  /\ UNCHANGED <<hubVars, tabVars, agentVars, down, up, history>>

-----------------------------------------------------------------------------
Init ==
  /\ current = 0 /\ closed = {} /\ cut = {} /\ dialed = 0
  /\ sessions = [c \in Conns |-> {}]
  /\ run = [c \in Conns |-> [at |-> "none", msg |-> Nothing, previous |-> 0]]
  /\ shut = [c \in Conns |-> [at |-> "no", took |-> {}]]
  /\ handler = [s \in Sessions |-> [at |-> "idle", conn |-> 0, input |-> "input"]]
  /\ events = [s \in Sessions |-> <<>>] /\ done = {}
  /\ tab = [s \in Sessions |-> "off"]
  /\ agent = [conn |-> 0, msg |-> Nothing] /\ ptys = {}
  /\ output = [s \in Sessions |-> "off"]
  /\ down = [c \in Conns |-> <<>>] /\ up = [c \in Conns |-> <<>>]
  /\ traffic = 0 /\ refused = {}

Next ==
  \/ Dial \/ AgentReads \/ AgentAnswers \/ AgentDisconnects
  \/ \E c \in Conns : Run(c) \/ ShutdownStep(c) \/ ConnectionBreaks(c)
  \/ \E s \in Sessions :
       \/ Connect(s) \/ Handler(s) \/ Forwarder(s) \/ Leave(s)
       \/ Input(s, "input") \/ Input(s, "oversized")
       \/ SendOutput(s) \/ SendClose(s) \/ PtyOutputs(s) \/ PtyEnds(s)

Spec == Init /\ [][Next]_vars

\* Every goroutine keeps running.  A writer waits for a mutex of Go, which hands
\* the lock to a waiter that starves, so a write that is possible again and again
\* happens.
Fairness ==
  /\ WF_vars(AgentReads) /\ WF_vars(AgentDisconnects) /\ SF_vars(AgentAnswers)
  /\ \A c \in Conns : WF_vars(Run(c)) /\ WF_vars(ShutdownStep(c))
  /\ \A s \in Sessions : WF_vars(Forwarder(s)) /\ SF_vars(Handler(s)) /\ SF_vars(Output(s))

FairSpec == Spec /\ Fairness

-----------------------------------------------------------------------------
RunType == [at : {"none", "attach", "replace", "read", "deliver", "remove", "finish", "end"},
            msg : UpMessage \union {Nothing}, previous : {0} \union Conns]
ShutType == [at : {"no", "unlist", "close", "swap", "notify", "done"}, took : SUBSET Sessions]
HandlerType == [at : {"idle", "lookup", "register", "open", "serve", "send", "close",
                      "notify", "finish", "ended"},
                conn : {0} \union Conns, input : {"input", "oversized"}]

HubType ==
  /\ current \in {0} \union Conns
  /\ sessions \in [Conns -> SUBSET Sessions]
  /\ closed \subseteq Conns
  /\ run \in [Conns -> RunType]
  /\ shut \in [Conns -> ShutType]
  /\ \A c \in Conns : run[c].at \in {"deliver", "remove", "finish"} => run[c].msg \in UpMessage

TabType ==
  /\ handler \in [Sessions -> HandlerType]
  /\ events \in [Sessions -> Seq(EventType)]
  /\ done \subseteq Sessions
  /\ tab \in [Sessions -> {"off", "on", "ended"}]
  /\ \A s \in Sessions : handler[s].at \notin {"idle", "lookup", "ended"} => handler[s].conn \in Conns

AgentType ==
  /\ dialed \in {0} \union Conns
  /\ agent \in [conn : {0} \union Conns, msg : UpMessage \union {Nothing}]
  /\ agent.conn = 0 => agent.msg = Nothing
  /\ ptys \subseteq Sessions
  /\ output \in [Sessions -> {"off", "on", "send", "close"}]

WireType ==
  /\ cut \subseteq Conns
  /\ down \in [Conns -> Seq(DownMessage)]
  /\ up \in [Conns -> Seq(UpMessage)]
  /\ traffic \in Nat /\ refused \subseteq Sessions

\* Types; in particular a handler never uses the connection of an offline node,
\* which Hub.Open turns away.
TypeOK == HubType /\ TabType /\ AgentType /\ WireType

\* A session that a tab is using never falls out of sight of the hub: it is in the
\* map of its connection, or it is done, or the Run loop or the shutdown that took
\* it out of the map is about to end it.  Otherwise the tab would wait for events
\* of a connection that is gone until its own idle timeout.
NotStranded ==
  \A s \in Sessions :
    handler[s].at \in {"serve", "send"} =>
      LET c == handler[s].conn
      IN \/ s \in done
         \/ s \in sessions[c] /\ shut[c].at \notin {"notify", "done"}
         \/ s \in shut[c].took
         \/ run[c].at = "finish" /\ run[c].msg.session = s

\* A connection that serves the agent and is not shutting down is the one new tabs
\* find, unless the Attach of a newer one is about to shut it down: the shutdown of
\* a replaced connection must not unlist its successor.
LiveIsListed ==
  \A c \in Conns :
    run[c].at \in {"replace", "read", "deliver", "remove", "finish"} /\ shut[c].at = "no" =>
      \/ current = c
      \/ \E d \in Conns : run[d].at = "replace" /\ run[d].previous = c

\* The Run loop, which serves every session of the node, waits for room in the
\* channel of a session only while somebody makes room or ends the wait: the
\* forwarder goes on reading after the browser is gone, until the session is done.
\* Otherwise the loop, the agent that writes to it and the handler that writes a
\* close to the agent could all wait for one another.
RunIsUnblocked ==
  \A c \in Conns :
    run[c].at = "deliver" /\ Len(events[run[c].msg.session]) >= EventCap =>
      tab[run[c].msg.session] = "on" \/ run[c].msg.session \in done

\* When the connection that carries a session goes, its tab ends.
DisconnectEndsTab ==
  \A s \in Sessions :
    handler[s].at = "serve" /\ handler[s].conn \in closed \union cut ~> handler[s].at = "ended"

\* The PTY of a tab that has ended is closed, so that the agent's limit counts only
\* sessions in use; excepted are the sessions whose input the agent refused, which
\* the hub forgets without a close.
PtyReleased ==
  \A s \in Sessions : handler[s].at = "ended" ~> s \notin ptys \/ s \in refused
=============================================================================
