------------------------ MODULE TerminalRelayProofs -------------------------
(* Proofs about the terminal relay, for any number of tabs and connections   *)
(* and any capacity of the buffers.                                          *)
EXTENDS TerminalRelay, TLAPS

(***************************************************************************)
(* The inductive invariant.                                                *)
(***************************************************************************)

\* The handler of s has opened the session on connection c.
Opened(s, c) == handler[s].conn = c /\ tab[s] # "off"

\* Whatever is on its way about a session is on the connection that opened it.
TabTraced ==
  \A s \in Sessions :
    /\ tab[s] # "off" =>
         handler[s].conn \in Conns /\ handler[s].at \notin {"idle", "lookup", "register", "open"}
    /\ handler[s].at \in {"serve", "send", "close", "notify"} => tab[s] # "off"
DownTraced == \A c \in Conns : \A i \in 1 .. Len(down[c]) : Opened(down[c][i].session, c)
UpTraced == \A c \in Conns : \A i \in 1 .. Len(up[c]) : Opened(up[c][i].session, c)
RunTraced ==
  \A c \in Conns : run[c].at \in {"deliver", "remove", "finish"} => Opened(run[c].msg.session, c)
AgentTraced == agent.msg # Nothing => Opened(agent.msg.session, agent.conn)
OutputTraced == \A s \in Sessions : output[s] # "off" => tab[s] # "off"

Traced == TabTraced /\ DownTraced /\ UpTraced /\ RunTraced /\ AgentTraced /\ OutputTraced

\* The hub is done with a session, or its Run loop is about to be.
Ending(s) ==
  \/ s \in done
  \/ /\ handler[s].conn \in Conns
     /\ run[handler[s].conn].at \in {"remove", "finish"} /\ run[handler[s].conn].msg.session = s

\* A forwarder has ended, or is going to, only if its session is ending.
Explained ==
  \A s \in Sessions :
    tab[s] = "ended" \/ (\E i \in 1 .. Len(events[s]) : events[s][i] \in {"close", "error"})
      => Ending(s)

\* The transport is closed before the sessions are taken, so that a handler that
\* registers its session too late fails to write its open.
Kept ==
  /\ \A c \in Conns : shut[c].at \in {"swap", "notify", "done"} => c \in closed
  /\ \A c \in Conns : shut[c].at # "notify" => shut[c].took = {}
  /\ \A s \in Sessions :
       handler[s].at = "open" => handler[s].conn \in closed \/ s \in sessions[handler[s].conn]
  /\ NotStranded

Listed ==
  /\ \A c \in Conns : c > dialed => run[c].at = "none"
  /\ LiveIsListed

Inv == TypeOK /\ Traced /\ Explained /\ Kept /\ Listed

-----------------------------------------------------------------------------
\* Connection 0 stands for no connection.
LEMMA ConnsArePositive == Conns \subseteq Nat \ {0}
  BY RelayAssumption DEF Conns

\* What the records on the wires are.
LEMMA MsgUp ==
  ASSUME NEW type \in EventType, NEW s \in Sessions
  PROVE  Msg(type, s) \in UpMessage /\ Msg(type, s).session = s /\ Msg(type, s).type = type
  BY DEF Msg, UpMessage

LEMMA MsgDown ==
  ASSUME NEW type \in {"open", "input", "oversized", "close"}, NEW s \in Sessions
  PROVE  Msg(type, s) \in DownMessage
  BY DEF Msg, DownMessage

LEMMA MsgSession == \A type, s : Msg(type, s).session = s
  BY DEF Msg

LEMMA NothingIsNoMessage == Nothing \notin UpMessage
  <1>1. ASSUME Nothing \in UpMessage PROVE FALSE
    BY <1>1 DEF Nothing, UpMessage, EventType
  <1> QED BY <1>1

\* A part of the state that a step leaves alone keeps its type.
LEMMA HubFrame == HubType /\ UNCHANGED hubVars => HubType'
  BY DEF HubType, hubVars
LEMMA TabFrame == TabType /\ UNCHANGED tabVars => TabType'
  BY DEF TabType, tabVars
LEMMA AgentFrame == AgentType /\ UNCHANGED agentVars => AgentType'
  BY DEF AgentType, agentVars
LEMMA WireFrame == WireType /\ UNCHANGED <<wires, history>> => WireType'
  BY DEF WireType, wires, history

\* A step of the Run loop keeps the types.
LEMMA RunTypes ==
  ASSUME TypeOK, NEW c \in Conns, Run(c) PROVE TypeOK'
  <1> USE TabFrame, AgentFrame, WireFrame DEF TypeOK
  <1>1. CASE Attach(c)
    <2>1. run[c] \in RunType /\ current \in {0} \union Conns /\ run \in [Conns -> RunType]
      BY DEF HubType
    <2>2. run' \in [Conns -> RunType] /\ run'[c].at = "replace"
      BY ZenonT(30), <1>1, <2>1 DEF Attach, RunType
    <2>3. \A d \in Conns \ {c} : run'[d] = run[d]
      BY <1>1, <2>1 DEF Attach
    <2>4. HubType'
      BY <1>1, <2>1, <2>2, <2>3 DEF Attach, HubType
    <2> QED BY <1>1, <2>4 DEF Attach
  <1>2. CASE Replace(c)
    <2>1. run \in [Conns -> RunType] /\ shut \in [Conns -> ShutType]
          /\ run[c].previous \in {0} \union Conns
      BY DEF HubType, RunType
    <2>2. CASE RunAt(c, "read") /\ UNCHANGED shut
      BY <1>2, <2>1, <2>2 DEF Replace, RunAt, HubType, RunType
    <2>3. CASE run[c].previous # 0 /\ Shutdown(run[c].previous) /\ UNCHANGED run
      BY <1>2, <2>1, <2>3 DEF Replace, Shutdown, HubType, ShutType
    <2> QED BY <1>2, <2>2, <2>3 DEF Replace
  <1>3. CASE ReadUp(c)
    <2>1. Head(up[c]) \in UpMessage /\ Tail(up[c]) \in Seq(UpMessage)
      BY <1>3 DEF ReadUp, WireType
    <2>2. HubType'
      BY SMTT(30), <1>3, <2>1 DEF ReadUp, HubType, RunType
    <2>3. WireType'
      BY <1>3, <2>1 DEF ReadUp, WireType, history
    <2> QED BY <1>3, <2>2, <2>3 DEF ReadUp
  <1>4. CASE Deliver(c)
    <2>1. run[c].msg \in UpMessage
      BY <1>4 DEF Deliver, HubType
    <2>2. HubType'
      BY <1>4, <2>1 DEF Deliver, RunAt, ReadAgain, HubType, RunType
    <2>3. run[c].msg.type \in EventType /\ run[c].msg.session \in Sessions
      BY <2>1 DEF UpMessage
    <2>4. events' \in [Sessions -> Seq(EventType)]
      <3>1. events \in [Sessions -> Seq(EventType)]
        BY DEF TabType
      <3>2. Append(events[run[c].msg.session], run[c].msg.type) \in Seq(EventType)
        BY <2>3, <3>1
      <3> QED BY ZenonT(30), <1>4, <2>3, <3>1, <3>2 DEF Deliver
    <2>5. TabType'
      BY <1>4, <2>4 DEF Deliver, TabType
    <2> QED BY <1>4, <2>2, <2>5 DEF Deliver
  <1>5. CASE RemoveEnded(c)
    <2>1. HubType'
      BY <1>5 DEF RemoveEnded, RunAt, HubType, RunType
    <2> QED BY <1>5, <2>1 DEF RemoveEnded
  <1>6. CASE FinishEnded(c)
    <2>1. run[c].msg.session \in Sessions
      BY <1>6 DEF FinishEnded, HubType, UpMessage
    <2>2. run \in [Conns -> RunType] /\ run[c] \in RunType
      BY DEF HubType
    <2>3. [run[c] EXCEPT !.at = "read", !.msg = Nothing] \in RunType
      BY ZenonT(30), <2>2 DEF RunType
    <2>4. run' = [run EXCEPT ![c] = [run[c] EXCEPT !.at = "read", !.msg = Nothing]]
      BY ZenonT(30), <1>6, <2>2 DEF FinishEnded, ReadAgain
    <2>5. run' \in [Conns -> RunType] /\ run'[c].at = "read" /\ \A d \in Conns \ {c} : run'[d] = run[d]
      BY <2>2, <2>3, <2>4 DEF RunType
    <2>6. HubType'
      BY <1>6, <2>5 DEF FinishEnded, HubType
    <2>7. TabType'
      BY <1>6, <2>1 DEF FinishEnded, TabType
    <2> QED BY <1>6, <2>6, <2>7 DEF FinishEnded
  <1>7. CASE ReadFails(c)
    <2>1. HubType'
      BY <1>7 DEF ReadFails, RunAt, Shutdown, HubType, RunType, ShutType
    <2> QED BY <1>7, <2>1 DEF ReadFails
  <1> QED BY <1>1, <1>2, <1>3, <1>4, <1>5, <1>6, <1>7 DEF Run

\* A step of the shutdown keeps the types.
LEMMA ShutdownTypes ==
  ASSUME TypeOK, NEW c \in Conns, ShutdownStep(c) PROVE TypeOK'
  <1> USE TabFrame, AgentFrame, WireFrame DEF TypeOK
  <1>1. CASE Unlist(c)
    <2>1. HubType'
      BY <1>1 DEF Unlist, HubType, ShutType
    <2> QED BY <1>1, <2>1 DEF Unlist
  <1>2. CASE CloseTransport(c)
    <2>1. HubType'
      BY <1>2 DEF CloseTransport, HubType, ShutType
    <2>2. WireType'
      BY <1>2 DEF CloseTransport, WireType, history
    <2> QED BY <1>2, <2>1, <2>2 DEF CloseTransport
  <1>3. CASE TakeSessions(c)
    <2>1. HubType'
      BY <1>3 DEF TakeSessions, HubType, ShutType
    <2> QED BY <1>3, <2>1 DEF TakeSessions
  <1>4. CASE ShutdownEnds(c)
    <2>1. HubType'
      BY <1>4 DEF ShutdownEnds, HubType, ShutType
    <2> QED BY <1>4, <2>1 DEF ShutdownEnds
  <1>5. ASSUME NEW s \in Sessions, EndSession(c, s) PROVE TypeOK'
    <2>1. HubType'
      BY <1>5 DEF EndSession, HubType, ShutType
    <2>2. TabType'
      BY <1>5 DEF EndSession, TabType, EventType
    <2> QED BY <1>5, <2>1, <2>2 DEF EndSession
  <1> QED BY <1>1, <1>2, <1>3, <1>4, <1>5 DEF ShutdownStep

\* What the hub appends to a connection is a message for the agent.
LEMMA HubWriteTypes ==
  ASSUME TypeOK, NEW c \in Conns, NEW m \in DownMessage, HubWrites(c, m) \/ HubWriteFails(c),
         UNCHANGED <<cut, up, history>>
  PROVE  WireType'
  <1>1. down \in [Conns -> Seq(DownMessage)] /\ Append(down[c], m) \in Seq(DownMessage)
    BY DEF TypeOK, WireType
  <1>2. down' \in [Conns -> Seq(DownMessage)]
    BY ZenonT(30), <1>1 DEF HubWrites, HubWriteFails
  <1> QED BY <1>2 DEF TypeOK, WireType, history

\* A handler that only moves on keeps the types.
LEMMA HandlerMoves ==
  ASSUME TypeOK, NEW s \in Sessions,
         NEW at \in {"lookup", "open", "serve", "close", "notify", "finish", "ended"},
         HandlerAt(s, at), at # "lookup" => handler[s].at \notin {"idle", "lookup", "ended"}
  PROVE  /\ handler' \in [Sessions -> HandlerType]
         /\ \A t \in Sessions :
              handler'[t].at \notin {"idle", "lookup", "ended"} => handler'[t].conn \in Conns
  BY ZenonT(30) DEF TypeOK, TabType, HandlerAt, HandlerType

\* A step of a handler, the arrival of a browser and what it does keep the types.
LEMMA HandlerTypes ==
  ASSUME TypeOK, NEW s \in Sessions,
         Connect(s) \/ Handler(s) \/ Leave(s) \/ Input(s, "input") \/ Input(s, "oversized")
  PROVE  TypeOK'
  <1> USE HubFrame, AgentFrame, WireFrame DEF TypeOK
  <1>h. handler \in [Sessions -> HandlerType] /\ handler[s] \in HandlerType
    BY DEF TabType
  <1>c. handler[s].at \notin {"idle", "lookup", "ended"} => handler[s].conn \in Conns
    BY DEF TabType
  <1>1. CASE Connect(s)
    BY <1>1, HandlerMoves DEF Connect, TabType
  <1>2. CASE Lookup(s)
    <2>1. handler' \in [Sessions -> HandlerType]
      BY ZenonT(30), <1>2, <1>h DEF Lookup, HubType, HandlerType
    <2>2. TabType'
      BY <1>2, <1>h, <2>1 DEF Lookup, TabType, HubType, HandlerType
    <2> QED BY <1>2, <2>2 DEF Lookup
  <1>3. CASE Register(s)
    <2>1. HubType'
      BY <1>3, <1>c DEF Register, HubType
    <2> QED BY ZenonT(30), <1>3, <2>1, HandlerMoves DEF Register, TabType
  <1>4. CASE OpenSent(s)
    <2>1. WireType'
      BY <1>4, <1>c, MsgDown, HubWriteTypes DEF OpenSent
    <2> QED BY SMTT(30), <1>4, <2>1, HandlerMoves DEF OpenSent, TabType
  <1>5. CASE OpenFails(s)
    <2>1. HubType'
      BY <1>5, <1>c DEF OpenFails, HubType
    <2>2. UNCHANGED <<wires, history>>
      BY <1>5 DEF OpenFails, HubWriteFails, wires
    <2> QED BY ZenonT(30), <1>5, <2>1, <2>2, HandlerMoves DEF OpenFails, TabType
  <1>6. CASE SendInput(s)
    <2>1. handler[s].input \in {"input", "oversized"}
      BY <1>h DEF HandlerType
    <2>2. WireType'
      BY <1>6, <1>c, <2>1, MsgDown, HubWriteTypes DEF SendInput
    <2> QED BY SMTT(30), <1>6, <2>2, HandlerMoves DEF SendInput, TabType
  <1>7. CASE Leave(s)
    BY <1>7, HandlerMoves DEF Leave, TabType
  <1>8. CASE CloseRemoves(s)
    <2>1. HubType'
      BY <1>8, <1>c DEF CloseRemoves, HubType
    <2> QED BY SMTT(30), <1>8, <2>1, HandlerMoves DEF CloseRemoves, TabType
  <1>9. CASE CloseNotifies(s)
    <2>1. WireType'
      BY <1>9, <1>c, MsgDown, HubWriteTypes DEF CloseNotifies
    <2> QED BY ZenonT(30), <1>9, <2>1, HandlerMoves DEF CloseNotifies, TabType
  <1>10. CASE Finish(s)
    BY <1>10, HandlerMoves DEF Finish, TabType
  <1>11. ASSUME NEW type \in {"input", "oversized"}, Input(s, type) PROVE TypeOK'
    <2>1. handler' \in [Sessions -> HandlerType]
      BY ZenonT(30), <1>11, <1>h DEF Input, HandlerType
    <2>2. TabType'
      BY <1>11, <1>h, <2>1 DEF Input, TabType, HandlerType
    <2>3. WireType'
      BY <1>11 DEF Input, WireType, wires
    <2> QED BY <1>11, <2>2, <2>3 DEF Input
  <1> QED
    BY <1>1, <1>2, <1>3, <1>4, <1>5, <1>6, <1>7, <1>8, <1>9, <1>10, <1>11 DEF Handler, TabClosed

\* A step of a forwarder keeps the types.
LEMMA ForwarderTypes ==
  ASSUME TypeOK, NEW s \in Sessions, Forwarder(s) PROVE TypeOK'
  <1> USE HubFrame, AgentFrame, WireFrame DEF TypeOK
  <1>1. events \in [Sessions -> Seq(EventType)] /\ events[s] \in Seq(EventType)
    BY DEF TabType
  <1>2. events[s] # <<>> => Tail(events[s]) \in Seq(EventType)
    BY <1>1
  <1>3. CASE ForwardEvent(s)
    BY <1>1, <1>2, <1>3 DEF ForwardEvent, TabType
  <1>4. CASE ForwardDone(s)
    BY <1>1, <1>2, <1>4 DEF ForwardDone, TabType
  <1> QED BY <1>3, <1>4 DEF Forwarder

\* What the agent appends to a connection is a message for the hub.
LEMMA AgentWriteTypes ==
  ASSUME TypeOK, NEW c \in Conns, NEW m \in UpMessage, AgentWrites(c, m) \/ AgentWriteFails(c),
         UNCHANGED <<cut, down, history>>
  PROVE  WireType'
  <1>1. up \in [Conns -> Seq(UpMessage)] /\ Append(up[c], m) \in Seq(UpMessage)
    BY DEF TypeOK, WireType
  <1>2. up' \in [Conns -> Seq(UpMessage)]
    BY SMTT(30), <1>1 DEF AgentWrites, AgentWriteFails
  <1> QED BY <1>2 DEF TypeOK, WireType, history

\* What is read from a wire, and what is left.
LEMMA HeadAndTail ==
  ASSUME NEW S, NEW q \in Seq(S), q # << >>
  PROVE  Head(q) \in S /\ Tail(q) \in Seq(S)
  OBVIOUS

\* A step of the agent's read loop, and the loss of a connection, keep the types.
LEMMA AgentTypes ==
  ASSUME TypeOK,
         Dial \/ AgentReads \/ AgentAnswers \/ AgentDisconnects
           \/ \E c \in Conns : ConnectionBreaks(c)
  PROVE  TypeOK'
  <1> USE HubFrame, TabFrame, AgentFrame DEF TypeOK
  <1>a. agent \in [conn : {0} \union Conns, msg : UpMessage \union {Nothing}]
    BY DEF AgentType
  <1>1. CASE Dial
    <2>1. dialed' \in Conns
      BY <1>1, RelayAssumption DEF Dial, AgentType, Conns
    <2>2. HubType'
      BY <1>1, <2>1 DEF Dial, HubType, RunType
    <2>3. AgentType'
      BY <1>1, <1>a, <2>1 DEF Dial, AgentType
    <2>4. WireType'
      BY <1>1 DEF Dial, WireType, wires
    <2> QED BY <1>1, <2>2, <2>3, <2>4 DEF Dial
  <1>2. CASE AgentReads
    <2> DEFINE m == Head(down[agent.conn])
    <2>1. agent.conn \in Conns /\ down \in [Conns -> Seq(DownMessage)]
      BY SMTT(30), <1>2, <1>a DEF AgentReads, WireType
    <2>a. down[agent.conn] \in Seq(DownMessage) /\ down[agent.conn] # << >>
      BY ZenonT(30), <1>2, <2>1 DEF AgentReads
    <2>2. m \in DownMessage /\ Tail(down[agent.conn]) \in Seq(DownMessage)
      BY ONLY <2>a, HeadAndTail
    <2>3. m.session \in Sessions
      BY <2>2 DEF DownMessage
    <2>4. PICK answer \in UpMessage \union {Nothing}, left \in SUBSET Sessions :
            Answer(m, answer, left)
      <3> DEFINE s == m.session
      <3>1. {Msg("ready", s), Msg("error", s), Msg("close", s)} \subseteq UpMessage
        BY <2>3, MsgUp DEF EventType
      <3>2. {ptys, ptys \union {s}, ptys \ {s}} \subseteq SUBSET Sessions
        BY SMTT(30), <2>3 DEF AgentType
      <3>3. \/ Answer(m, Msg("ready", s), ptys \union {s}) \/ Answer(m, Msg("error", s), ptys)
            \/ Answer(m, Nothing, ptys) \/ Answer(m, Msg("close", s), ptys \ {s})
            \/ Answer(m, Nothing, ptys \ {s})
        BY SMTT(30), <1>2 DEF AgentReads
      <3> HIDE DEF m, s
      <3> QED BY <3>1, <3>2, <3>3
    <2>5. AgentType'
      BY ZenonT(30), <1>2, <1>a, <2>4 DEF AgentReads, Answer, AgentType
    <2>6. WireType'
      BY ZenonT(30), <1>2, <2>1, <2>2, <2>3, <2>4 DEF AgentReads, Answer, WireType
    <2> QED BY SMTT(30), <1>2, <2>5, <2>6 DEF AgentReads
  <1>3. CASE AgentAnswers
    <2>1. agent.msg \in UpMessage /\ agent.conn \in Conns
      BY <1>3, <1>a DEF AgentAnswers, AgentType
    <2>2. AgentType'
      BY <1>3, <1>a, <2>1 DEF AgentAnswers, AgentType, UpMessage
    <2>3. WireType'
      BY <1>3, <2>1, AgentWriteTypes DEF AgentAnswers
    <2> QED BY <1>3, <2>2, <2>3 DEF AgentAnswers
  <1>4. CASE AgentDisconnects
    <2>1. AgentType'
      BY <1>4, <1>a DEF AgentDisconnects, AgentType
    <2>2. WireType'
      BY <1>4, <1>a DEF AgentDisconnects, WireType, history
    <2> QED BY <1>4, <2>1, <2>2 DEF AgentDisconnects
  <1>5. ASSUME NEW c \in Conns, ConnectionBreaks(c) PROVE TypeOK'
    BY <1>5 DEF ConnectionBreaks, WireType, history
  <1> QED BY <1>1, <1>2, <1>3, <1>4, <1>5

\* A step of an output loop keeps the types.  A loop that runs belongs to a session
\* that was opened, which the second hypothesis states.
LEMMA OutputTypes ==
  ASSUME TypeOK, NEW s \in Sessions, output[s] # "off" => handler[s].conn \in Conns,
         SendOutput(s) \/ SendClose(s) \/ PtyOutputs(s) \/ PtyEnds(s)
  PROVE  TypeOK'
  <1> USE HubFrame, TabFrame, WireFrame DEF TypeOK
  <1>m. Msg("output", s) \in UpMessage /\ Msg("close", s) \in UpMessage
    BY MsgUp DEF EventType
  <1>1. CASE SendOutput(s)
    <2>1. WireType'
      BY <1>1, <1>m, AgentWriteTypes DEF SendOutput
    <2>2. AgentType'
      BY SMTT(30), <1>1 DEF SendOutput, OutputAt, AgentType
    <2> QED BY <1>1, <2>1, <2>2 DEF SendOutput
  <1>2. CASE SendClose(s)
    <2>1. WireType'
      BY <1>2, <1>m, AgentWriteTypes DEF SendClose
    <2>2. AgentType'
      BY SMTT(30), <1>2 DEF SendClose, OutputAt, AgentType
    <2> QED BY <1>2, <2>1, <2>2 DEF SendClose
  <1>3. CASE PtyOutputs(s)
    <2>1. WireType'
      BY <1>3 DEF PtyOutputs, WireType, wires
    <2>2. AgentType'
      BY <1>3 DEF PtyOutputs, OutputAt, AgentType
    <2> QED BY SMTT(30), <1>3, <2>1, <2>2 DEF PtyOutputs
  <1>4. CASE PtyEnds(s)
    <2>1. AgentType'
      BY <1>4 DEF PtyEnds, OutputAt, AgentType
    <2> QED BY <1>4, <2>1 DEF PtyEnds
  <1> QED BY <1>1, <1>2, <1>3, <1>4

-----------------------------------------------------------------------------
\* The effect of moving one Run loop, one shutdown and one handler.
LEMMA RunEffect ==
  ASSUME TypeOK, NEW c \in Conns, NEW at, RunAt(c, at)
  PROVE  /\ run'[c].at = at /\ run'[c].msg = run[c].msg /\ run'[c].previous = run[c].previous
         /\ \A d \in Conns \ {c} : run'[d] = run[d]
  BY DEF RunAt, TypeOK, HubType, RunType

LEMMA ReadEffect ==
  ASSUME TypeOK, NEW c \in Conns, ReadAgain(c)
  PROVE  run'[c].at = "read" /\ \A d \in Conns \ {c} : run'[d] = run[d]
  BY DEF ReadAgain, TypeOK, HubType, RunType

LEMMA ShutdownEffect ==
  ASSUME TypeOK, NEW c \in Conns, Shutdown(c)
  PROVE  /\ shut'[c].at = (IF shut[c].at = "no" THEN "unlist" ELSE shut[c].at)
         /\ shut'[c].took = shut[c].took
         /\ \A d \in Conns \ {c} : shut'[d] = shut[d]
  BY DEF Shutdown, TypeOK, HubType, ShutType

LEMMA HandlerEffect ==
  ASSUME TypeOK, NEW s \in Sessions, NEW at, HandlerAt(s, at)
  PROVE  /\ handler'[s].at = at /\ handler'[s].conn = handler[s].conn
         /\ \A t \in Sessions \ {s} : handler'[t] = handler[t]
  BY DEF HandlerAt, TypeOK, TabType, HandlerType

-----------------------------------------------------------------------------
\* The list of live connections.  Only Attach, Replace and the end of a Run loop,
\* Unlist and Dial touch what it speaks of.
LEMMA ListedFrame ==
  ASSUME TypeOK, Listed, UNCHANGED <<current, dialed>>,
         \A c \in Conns : run'[c].at = run[c].at /\ run'[c].previous = run[c].previous,
         \A c \in Conns : shut[c].at # "no" => shut'[c].at # "no"
  PROVE  Listed'
  BY DEF Listed, LiveIsListed

\* The Run loop moves between the states in which its connection is live.
LEMMA ListedLive ==
  ASSUME TypeOK, Listed, NEW c \in Conns, UNCHANGED <<current, dialed, shut>>,
         {run[c].at, run'[c].at} \subseteq {"read", "deliver", "remove", "finish"},
         \A d \in Conns \ {c} : run'[d] = run[d]
  PROVE  Listed'
  <1>1. \A d \in Conns : d > dialed => d # c
    BY DEF Listed
  <1>2. \A d \in Conns : run[d].at = "replace" => d # c
    OBVIOUS
  <1> QED BY <1>1, <1>2 DEF Listed, LiveIsListed

LEMMA ListedRun ==
  ASSUME TypeOK, Listed, NEW c \in Conns, Run(c) PROVE Listed'
  <1>d. UNCHANGED dialed
    BY DEF Run, Attach, Replace, ReadUp, Deliver, RemoveEnded, FinishEnded, ReadFails, agentVars
  <1>1. CASE Attach(c)
    <2>1. /\ run[c].at = "attach" /\ run'[c].at = "replace" /\ run'[c].previous = current
          /\ current' = c /\ UNCHANGED shut /\ \A d \in Conns \ {c} : run'[d] = run[d]
      BY <1>1 DEF Attach, TypeOK, HubType, RunType
    <2> QED BY <1>d, <2>1 DEF Listed, LiveIsListed
  <1>2. CASE Replace(c)
    <2> DEFINE p == run[c].previous
    <2>1. p \in {0} \union Conns /\ run[c].at = "replace" /\ UNCHANGED current
      BY <1>2 DEF Replace, TypeOK, HubType, RunType
    <2>2. CASE (p # 0 => shut[p].at = "done") /\ RunAt(c, "read") /\ UNCHANGED shut
      <3>1. run'[c].at = "read" /\ \A d \in Conns \ {c} : run'[d] = run[d]
        BY <2>2, RunEffect
      <3>2. \A d \in Conns : d > dialed => d # c
        BY <2>1 DEF Listed
      <3> QED BY <1>d, <2>1, <2>2, <3>1, <3>2, ConnsArePositive DEF Listed, LiveIsListed
    <2>3. CASE p # 0 /\ Shutdown(p) /\ UNCHANGED run
      <3>1. \A d \in Conns : shut[d].at # "no" => shut'[d].at # "no"
        BY <2>1, <2>3, ShutdownEffect
      <3> QED BY <1>d, <2>1, <2>3, <3>1, ListedFrame
    <2> QED BY <1>2, <2>2, <2>3 DEF Replace
  <1>3. CASE ReadUp(c)
    <2>1. run'[c].at \in {"read", "deliver"} /\ \A d \in Conns \ {c} : run'[d] = run[d]
      BY <1>3 DEF ReadUp, TypeOK, HubType, RunType
    <2> QED BY <1>d, <1>3, <2>1, ListedLive DEF ReadUp
  <1>4. CASE Deliver(c)
    <2>1. run'[c].at \in {"read", "remove"} /\ \A d \in Conns \ {c} : run'[d] = run[d]
      BY <1>4, RunEffect, ReadEffect DEF Deliver
    <2> QED BY SMTT(30), <1>d, <1>4, <2>1, ListedLive DEF Deliver
  <1>5. CASE RemoveEnded(c)
    BY <1>d, <1>5, RunEffect, ListedLive DEF RemoveEnded
  <1>6. CASE FinishEnded(c)
    BY <1>d, <1>6, ReadEffect, ListedLive DEF FinishEnded
  <1>7. CASE ReadFails(c)
    <2>1. /\ run[c].at = "read" /\ run'[c].at = "end" /\ UNCHANGED current
          /\ \A d \in Conns \ {c} : run'[d] = run[d] /\ shut'[d] = shut[d]
      BY <1>7, RunEffect, ShutdownEffect DEF ReadFails
    <2>2. \A d \in Conns : d > dialed => d # c
      BY <2>1 DEF Listed
    <2> QED BY <1>d, <2>1, <2>2 DEF Listed, LiveIsListed
  <1> QED BY SMTT(30), <1>1, <1>2, <1>3, <1>4, <1>5, <1>6, <1>7 DEF Run

LEMMA ListedShutdown ==
  ASSUME TypeOK, Listed, NEW c \in Conns, ShutdownStep(c) PROVE Listed'
  <1>1. UNCHANGED <<run, dialed>>
    BY DEF ShutdownStep, Unlist, CloseTransport, TakeSessions, EndSession, ShutdownEnds, agentVars
  <1>2. \A d \in Conns : shut[d].at # "no" => shut'[d].at # "no"
    BY DEF ShutdownStep, Unlist, CloseTransport, TakeSessions, EndSession, ShutdownEnds,
           TypeOK, HubType, ShutType
  <1>3. CASE Unlist(c)
    <2>1. shut[c].at = "unlist" /\ current' = (IF current = c THEN 0 ELSE current)
      BY <1>3 DEF Unlist
    <2> QED BY <1>1, <1>2, <2>1 DEF Listed, LiveIsListed
  <1>4. CASE UNCHANGED current
    BY <1>1, <1>2, <1>4, ListedFrame
  <1> QED
    BY <1>3, <1>4 DEF ShutdownStep, CloseTransport, TakeSessions, EndSession, ShutdownEnds

LEMMA ListedDial ==
  ASSUME TypeOK, Listed, Dial PROVE Listed'
  <1>1. dialed \in Nat /\ dialed' = dialed + 1 /\ dialed' \in Conns
    BY RelayAssumption DEF Dial, TypeOK, AgentType, Conns
  <1>2. /\ run[dialed'].at = "none" /\ run'[dialed'].at = "attach"
        /\ \A d \in Conns \ {dialed'} : run'[d] = run[d]
    <2>1. run[dialed'].at = "none"
      BY <1>1 DEF Listed
    <2> QED BY <1>1, <2>1 DEF Dial, TypeOK, HubType, RunType
  <1>3. \A d \in Conns : d > dialed' => d # dialed' /\ d > dialed
    BY <1>1, ConnsArePositive
  <1> QED BY <1>1, <1>2, <1>3 DEF Dial, Listed, LiveIsListed

-----------------------------------------------------------------------------
\* The sessions of the tabs in use.

LEMMA KeptFrame ==
  ASSUME Kept, UNCHANGED <<sessions, closed, run, shut, handler, done>> PROVE Kept'
  BY DEF Kept, NotStranded

LEMMA KeptRun ==
  ASSUME TypeOK, Traced, Kept, NEW c \in Conns, Run(c) PROVE Kept'
  <1>h. UNCHANGED <<handler, closed>>
    BY DEF Run, Attach, Replace, ReadUp, Deliver, RemoveEnded, FinishEnded, ReadFails, tabVars
  <1>c. \A s \in Sessions : handler[s].at \in {"open", "serve", "send"} => handler[s].conn \in Conns
    BY DEF TypeOK, TabType
  <1>f. ASSUME UNCHANGED <<sessions, done>>, run[c].at # "finish",
               \A d \in Conns \ {c} : run'[d] = run[d],
               \A d \in Conns : \/ shut'[d] = shut[d]
                                \/ shut[d].at = "no" /\ shut'[d].at = "unlist"
                                   /\ shut'[d].took = shut[d].took
        PROVE  Kept'
    BY <1>h, <1>c, <1>f DEF Kept, NotStranded
  <1>1. CASE Attach(c)
    BY <1>1, <1>f DEF Attach, tabVars, TypeOK, HubType
  <1>2. CASE Replace(c)
    <2>1. run[c].previous \in {0} \union Conns /\ UNCHANGED <<sessions, done>>
      BY <1>2 DEF Replace, TypeOK, HubType, RunType, tabVars
    <2>2. CASE RunAt(c, "read") /\ UNCHANGED shut
      BY <1>2, <1>f, <2>1, <2>2, RunEffect DEF Replace
    <2>3. CASE run[c].previous # 0 /\ shut[run[c].previous].at = "no" /\ Shutdown(run[c].previous) /\ UNCHANGED run
      BY <1>2, <1>f, <2>1, <2>3, ShutdownEffect DEF Replace
    <2> QED BY <1>2, <2>2, <2>3 DEF Replace
  <1>3. CASE ReadUp(c)
    BY SMTT(30), <1>3, <1>f DEF ReadUp, tabVars, TypeOK, HubType
  <1>4. CASE Deliver(c)
    BY SMTT(30), <1>4, <1>f, RunEffect, ReadEffect DEF Deliver
  <1>5. CASE RemoveEnded(c)
    <2> DEFINE s == run[c].msg.session
    <2>1. /\ run[c].at = "remove" /\ run'[c].at = "finish" /\ run'[c].msg.session = s
          /\ \A d \in Conns \ {c} : run'[d] = run[d] /\ sessions'[d] = sessions[d]
          /\ sessions'[c] = sessions[c] \ {s} /\ UNCHANGED <<shut, done>>
      BY <1>5, RunEffect DEF RemoveEnded, TypeOK, HubType, tabVars
    <2>2. Opened(s, c) /\ s \in Sessions
      BY <2>1 DEF Traced, RunTraced, TypeOK, HubType, UpMessage
    <2>3. handler[s].at # "open"
      BY SMTT(30), <2>2 DEF Traced, TabTraced, Opened
    <2>4. NotStranded'
      BY <1>h, <1>c, <2>1 DEF Kept, NotStranded
    <2> QED BY <1>h, <1>c, <2>1, <2>3, <2>4 DEF Kept
  <1>6. CASE FinishEnded(c)
    <2>1. /\ run[c].at = "finish" /\ done' = done \union {run[c].msg.session}
          /\ \A d \in Conns \ {c} : run'[d] = run[d]
          /\ UNCHANGED <<sessions, shut>>
      BY SMTT(30), <1>6, ReadEffect DEF FinishEnded
    <2>2. NotStranded'
      BY <1>h, <1>c, <2>1 DEF Kept, NotStranded
    <2> QED BY <1>h, <2>1, <2>2 DEF Kept
  <1>7. CASE ReadFails(c)
    <2>1. UNCHANGED <<sessions, done>> /\ run[c].at = "read"
      BY <1>7 DEF ReadFails, tabVars
    <2>2. shut'[c] = shut[c] \/ (shut[c].at = "no" /\ shut'[c].at = "unlist" /\ shut'[c].took = shut[c].took)
      BY <1>7 DEF ReadFails, Shutdown, TypeOK, HubType, ShutType
    <2> QED BY <1>7, <1>f, <2>1, <2>2, RunEffect, ShutdownEffect DEF ReadFails
  <1> QED BY SMTT(30), <1>1, <1>2, <1>3, <1>4, <1>5, <1>6, <1>7 DEF Run

LEMMA KeptDial ==
  ASSUME TypeOK, Listed, Kept, Dial PROVE Kept'
  <1>1. dialed' \in Conns /\ run[dialed'].at = "none"
    BY RelayAssumption DEF Dial, TypeOK, AgentType, Conns, Listed
  <1>2. \A c \in Conns : run[c].at = "finish" => run'[c] = run[c]
    BY <1>1 DEF Dial, TypeOK, HubType
  <1>3. \A s \in Sessions : handler[s].at \in {"serve", "send"} => handler[s].conn \in Conns
    BY DEF TypeOK, TabType
  <1>4. UNCHANGED <<sessions, closed, shut, handler, done>>
    BY DEF Dial, tabVars
  <1>5. NotStranded'
    BY <1>2, <1>3, <1>4 DEF Kept, NotStranded
  <1> QED BY <1>4, <1>5 DEF Kept

LEMMA KeptShutdown ==
  ASSUME TypeOK, Kept, NEW c \in Conns, ShutdownStep(c) PROVE Kept'
  <1>h. UNCHANGED <<handler, run>>
    BY DEF ShutdownStep, Unlist, CloseTransport, TakeSessions, EndSession, ShutdownEnds, tabVars
  <1>c. \A s \in Sessions : handler[s].at \in {"open", "serve", "send"} => handler[s].conn \in Conns
    BY DEF TypeOK, TabType
  <1>t. shut \in [Conns -> ShutType] /\ sessions \in [Conns -> SUBSET Sessions]
    BY DEF TypeOK, HubType
  <1>f. ASSUME UNCHANGED <<sessions, done>>, closed \subseteq closed',
               \A d \in Conns \ {c} : shut'[d] = shut[d],
               shut'[c].took = shut[c].took, shut[c].at # "notify",
               shut'[c].at = "close" \/ (shut'[c].at = "swap" /\ c \in closed')
        PROVE  Kept'
    BY <1>h, <1>c, <1>f DEF Kept, NotStranded
  <1>1. CASE Unlist(c)
    BY <1>1, <1>f, <1>t DEF Unlist, ShutType, tabVars
  <1>2. CASE CloseTransport(c)
    BY SMTT(30), <1>2, <1>f, <1>t DEF CloseTransport, ShutType, tabVars
  <1>3. CASE TakeSessions(c)
    <2>1. /\ shut[c].at = "swap" /\ shut'[c].at = "notify" /\ shut'[c].took = sessions[c]
          /\ sessions'[c] = {} /\ UNCHANGED <<closed, done>>
          /\ \A d \in Conns \ {c} : shut'[d] = shut[d] /\ sessions'[d] = sessions[d]
      BY <1>3, <1>t DEF TakeSessions, ShutType, tabVars
    <2>2. c \in closed /\ shut[c].took = {}
      BY <2>1 DEF Kept
    <2>3. NotStranded'
      BY <1>h, <1>c, <2>1, <2>2 DEF Kept, NotStranded
    <2> QED BY <1>h, <1>c, <2>1, <2>2, <2>3 DEF Kept
  <1>4. CASE ShutdownEnds(c)
    <2>1. /\ shut[c].at = "notify" /\ shut[c].took = {} /\ shut'[c].at = "done" /\ shut'[c].took = {}
          /\ UNCHANGED <<sessions, closed, done>> /\ \A d \in Conns \ {c} : shut'[d] = shut[d]
      BY <1>4, <1>t DEF ShutdownEnds, ShutType, tabVars
    <2> QED BY <1>h, <1>c, <2>1 DEF Kept, NotStranded
  <1>5. ASSUME NEW s \in Sessions, EndSession(c, s) PROVE Kept'
    <2>1. /\ shut[c].at = "notify" /\ shut'[c].at = "notify" /\ shut'[c].took = shut[c].took \ {s}
          /\ done' = done \union {s} /\ UNCHANGED <<sessions, closed>>
          /\ \A d \in Conns \ {c} : shut'[d] = shut[d]
      BY <1>5, <1>t DEF EndSession, ShutType
    <2> QED BY <1>h, <1>c, <2>1 DEF Kept, NotStranded
  <1> QED BY <1>1, <1>2, <1>3, <1>4, <1>5 DEF ShutdownStep

LEMMA KeptHandler ==
  ASSUME TypeOK, Kept, NEW s \in Sessions,
         Connect(s) \/ Handler(s) \/ Leave(s) \/ Input(s, "input") \/ Input(s, "oversized")
  PROVE  Kept'
  <1>h. UNCHANGED <<closed, run, shut>>
    BY DEF Connect, Handler, Leave, Input, Lookup, Register, OpenSent, OpenFails, SendInput,
           TabClosed, CloseRemoves, CloseNotifies, Finish, hubVars
  <1>c. \A t \in Sessions : handler[t].at \in {"open", "serve", "send"} => handler[t].conn \in Conns
    BY ZenonT(30) DEF TypeOK, TabType
  <1>t. handler \in [Sessions -> HandlerType] /\ sessions \in [Conns -> SUBSET Sessions]
    BY DEF TypeOK, TabType, HubType
  \* A handler outside the states of interest, or one that goes on serving.
  <1>f. ASSUME UNCHANGED <<sessions, done>>, \A t \in Sessions \ {s} : handler'[t] = handler[t],
               \/ handler'[s].at \notin {"open", "serve", "send"}
               \/ {handler[s].at, handler'[s].at} \subseteq {"serve", "send"}
                  /\ handler'[s].conn = handler[s].conn
        PROVE  Kept'
    BY <1>h, <1>f DEF Kept, NotStranded
  \* A handler that takes its own session out of the map.
  <1>g. ASSUME UNCHANGED done, \A t \in Sessions \ {s} : handler'[t] = handler[t],
               handler'[s].at \notin {"open", "serve", "send"},
               \A d \in Conns : sessions'[d] \union {s} = sessions[d] \union {s}
        PROVE  Kept'
    <2>1. \A t \in Sessions \ {s}, d \in Conns : t \in sessions'[d] <=> t \in sessions[d]
      BY SMTT(30), <1>g
    <2>2. NotStranded'
      BY <1>h, <1>c, <1>g, <2>1 DEF Kept, NotStranded
    <2> QED BY <1>h, <1>c, <1>g, <2>1, <2>2 DEF Kept
  <1>1. CASE Connect(s)
    BY <1>1, <1>f, HandlerEffect DEF Connect, hubVars
  <1>2. CASE Lookup(s)
    BY <1>2, <1>f, <1>t DEF Lookup, hubVars, HandlerType
  <1>3. CASE Register(s)
    <2> DEFINE c == handler[s].conn
    <2>1. c \in Conns
      BY SMTT(30), <1>3 DEF Register, TypeOK, TabType
    <2>2. /\ handler'[s].at = "open" /\ handler'[s].conn = c
          /\ \A t \in Sessions \ {s} : handler'[t] = handler[t]
      BY <1>3, HandlerEffect DEF Register
    <2>3. /\ sessions'[c] = sessions[c] \union {s} /\ UNCHANGED done
          /\ \A d \in Conns \ {c} : sessions'[d] = sessions[d]
      BY <1>3, <1>t, <2>1 DEF Register
    <2>4. NotStranded'
      BY SMTT(30), <1>h, <1>c, <2>1, <2>2, <2>3 DEF Kept, NotStranded
    <2> QED BY <1>h, <1>c, <2>1, <2>2, <2>3, <2>4 DEF Kept
  <1>4. CASE OpenSent(s)
    <2> DEFINE c == handler[s].conn
    <2>1. handler[s].at = "open" /\ c \in Conns /\ c \notin closed
      BY SMTT(30), <1>4, <1>c DEF OpenSent, HubWrites
    <2>2. /\ handler'[s].at = "serve" /\ handler'[s].conn = c
          /\ \A t \in Sessions \ {s} : handler'[t] = handler[t]
      BY <1>4, HandlerEffect DEF OpenSent
    <2>3. s \in sessions[c] /\ shut[c].at \notin {"notify", "done"}
      BY <2>1 DEF Kept
    <2>4. UNCHANGED <<sessions, done>>
      BY <1>4 DEF OpenSent, hubVars
    <2> QED BY <1>h, <2>2, <2>3, <2>4 DEF Kept, NotStranded
  <1>5. CASE OpenFails(s)
    <2>1. handler[s].conn \in Conns
      BY <1>5, <1>c DEF OpenFails
    <2> QED BY SMTT(30), <1>5, <1>g, <1>t, <2>1, HandlerEffect DEF OpenFails
  <1>6. CASE SendInput(s)
    BY <1>6, <1>f, HandlerEffect DEF SendInput, hubVars
  <1>7. CASE Leave(s)
    BY <1>7, <1>f, HandlerEffect DEF Leave, hubVars
  <1>8. CASE CloseRemoves(s)
    <2>1. handler[s].conn \in Conns
      BY SMTT(30), <1>8 DEF CloseRemoves, TypeOK, TabType
    <2>2. handler'[s].at \in {"notify", "finish"} /\ \A t \in Sessions \ {s} : handler'[t] = handler[t]
      BY <1>8, HandlerEffect DEF CloseRemoves
    <2> QED BY <1>8, <1>g, <1>t, <2>1, <2>2 DEF CloseRemoves
  <1>9. CASE CloseNotifies(s)
    BY SMTT(30), <1>9, <1>f, HandlerEffect DEF CloseNotifies, hubVars
  <1>10. CASE Finish(s)
    <2>1. /\ handler'[s].at = "ended" /\ \A t \in Sessions \ {s} : handler'[t] = handler[t]
          /\ done \subseteq done' /\ UNCHANGED sessions
      BY <1>10, HandlerEffect DEF Finish, hubVars
    <2> QED BY <1>h, <2>1 DEF Kept, NotStranded
  <1>11. ASSUME NEW type \in {"input", "oversized"}, Input(s, type) PROVE Kept'
    BY <1>11, <1>f, <1>t DEF Input, hubVars, HandlerType
  <1> QED
    BY <1>1, <1>2, <1>3, <1>4, <1>5, <1>6, <1>7, <1>8, <1>9, <1>10, <1>11 DEF Handler, TabClosed

-----------------------------------------------------------------------------
\* What is on its way about a session.

\* The elements of a queue after a message is taken or added.
LEMMA TailElements ==
  ASSUME NEW S, NEW q \in Seq(S), q # <<>>
  PROVE  \A i \in 1 .. Len(Tail(q)) : i + 1 \in 1 .. Len(q) /\ Tail(q)[i] = q[i + 1]
  OBVIOUS

LEMMA AppendElements ==
  ASSUME NEW S, NEW q \in Seq(S), NEW m \in S
  PROVE  \A i \in 1 .. Len(Append(q, m)) :
           \/ i \in 1 .. Len(q) /\ Append(q, m)[i] = q[i]
           \/ Append(q, m)[i] = m
  OBVIOUS

LEMMA QueueElements ==
  ASSUME NEW S, NEW q \in Seq(S) PROVE \A i \in 1 .. Len(q) : q[i] \in S
  OBVIOUS

LEMMA WireSessions ==
  ASSUME TypeOK
  PROVE  /\ \A c \in Conns : \A i \in 1 .. Len(down[c]) : down[c][i].session \in Sessions
         /\ \A c \in Conns : \A i \in 1 .. Len(up[c]) : up[c][i].session \in Sessions
  <1>1. \A c \in Conns : down[c] \in Seq(DownMessage) /\ up[c] \in Seq(UpMessage)
    BY DEF TypeOK, WireType
  <1>2. \A c \in Conns : \A i \in 1 .. Len(down[c]) : down[c][i] \in DownMessage
    BY <1>1, QueueElements
  <1>3. \A c \in Conns : \A i \in 1 .. Len(up[c]) : up[c][i] \in UpMessage
    BY <1>1, QueueElements
  <1> QED BY <1>2, <1>3 DEF DownMessage, UpMessage

\* A session that is opened stays opened on the same connection.
OpenedNext(s, c) == handler'[s].conn = c /\ tab'[s] # "off"
Stays == \A s \in Sessions, c \in Conns : Opened(s, c) => OpenedNext(s, c)

\* The tabs move only forward.
LEMMA TabsMove ==
  ASSUME TypeOK, Traced, Next PROVE Stays /\ TabTraced'
  <1>t. handler \in [Sessions -> HandlerType] /\ tab \in [Sessions -> {"off", "on", "ended"}]
    BY DEF TypeOK, TabType
  <1>p. \A s \in Sessions : tab[s] # "off" =>
          handler[s].conn \in Conns /\ handler[s].at \notin {"idle", "lookup", "register", "open"}
    BY DEF Traced, TabTraced
  <1>q. \A s \in Sessions : handler[s].at \in {"serve", "send", "close", "notify"} => tab[s] # "off"
    BY DEF Traced, TabTraced
  <1>1. CASE UNCHANGED <<handler, tab>>
    BY <1>1 DEF Stays, Opened, OpenedNext, Traced, TabTraced
  <1>2. ASSUME NEW s \in Sessions, NEW at, HandlerAt(s, at), UNCHANGED tab,
               at \notin {"idle", "lookup", "register", "open"} \/ tab[s] = "off",
               at \in {"serve", "send", "close", "notify"} =>
                 handler[s].at \in {"serve", "send", "close", "notify"}
        PROVE  Stays /\ TabTraced'
    <2>1. handler'[s].at = at /\ handler'[s].conn = handler[s].conn /\ \A t \in Sessions \ {s} : handler'[t] = handler[t]
      BY <1>2, HandlerEffect
    <2> QED BY <1>2, <1>p, <1>q, <2>1 DEF Stays, Opened, OpenedNext, TabTraced
  <1>3. ASSUME NEW s \in Sessions, Connect(s) \/ Handler(s) \/ Leave(s) PROVE Stays /\ TabTraced'
    <2>1. CASE Lookup(s)
      <3>1. tab[s] = "off" /\ UNCHANGED tab /\ handler'[s].at \in {"ended", "register"} /\ \A t \in Sessions \ {s} : handler'[t] = handler[t]
        BY <1>p, <1>t, <2>1 DEF Lookup, HandlerType
      <3> QED BY <1>p, <1>q, <3>1 DEF Stays, Opened, OpenedNext, TabTraced
    <2>2. CASE OpenSent(s)
      <3>1. /\ handler'[s].at = "serve" /\ handler'[s].conn = handler[s].conn
            /\ \A t \in Sessions \ {s} : handler'[t] = handler[t]
        BY <2>2, HandlerEffect DEF OpenSent
      <3>2. handler[s].conn \in Conns
        BY <2>2 DEF OpenSent, TypeOK, TabType
      <3>3. tab'[s] = "on" /\ \A t \in Sessions \ {s} : tab'[t] = tab[t]
        BY SMTT(30), <1>t, <2>2 DEF OpenSent
      <3> QED BY <1>p, <1>q, <3>1, <3>2, <3>3 DEF Stays, Opened, OpenedNext, TabTraced
    <2>3. CASE Connect(s) \/ Register(s)
      BY SMTT(30), <1>2, <1>p, <2>3 DEF Connect, Register
    <2>4. CASE OpenFails(s) \/ SendInput(s) \/ Leave(s) \/ CloseRemoves(s)
      BY ZenonT(30), <1>2, <2>4 DEF OpenFails, SendInput, Leave, CloseRemoves
    <2>5. CASE CloseNotifies(s) \/ Finish(s)
      BY ZenonT(30), <1>2, <2>5 DEF CloseNotifies, Finish
    <2> QED BY <1>3, <2>1, <2>2, <2>3, <2>4, <2>5 DEF Handler, TabClosed
  <1>4. ASSUME NEW s \in Sessions, NEW type \in {"input", "oversized"}, Input(s, type)
        PROVE  Stays /\ TabTraced'
    <2>1. /\ handler[s].at = "serve" /\ handler'[s].at \in {"close", "send"} /\ handler'[s].conn = handler[s].conn /\ UNCHANGED tab
          /\ \A t \in Sessions \ {s} : handler'[t] = handler[t]
      BY <1>4, <1>t DEF Input, HandlerType
    <2> QED BY <1>p, <1>q, <2>1 DEF Stays, Opened, OpenedNext, TabTraced
  <1>5. ASSUME NEW s \in Sessions, Forwarder(s) PROVE Stays /\ TabTraced'
    <2>1. tab'[s] \in {"on", "ended"} /\ tab[s] = "on" /\ UNCHANGED handler
          /\ \A t \in Sessions \ {s} : tab'[t] = tab[t]
      BY SMTT(30), <1>5, <1>t DEF Forwarder, ForwardEvent, ForwardDone
    <2> QED BY <1>p, <1>q, <2>1 DEF Stays, Opened, OpenedNext, TabTraced
  <1>6. ASSUME NEW c \in Conns, Run(c) \/ ShutdownStep(c) \/ ConnectionBreaks(c)
        PROVE  UNCHANGED <<handler, tab>>
    BY <1>6 DEF Run, ShutdownStep, ConnectionBreaks, Attach, Replace, ReadUp, Deliver, RemoveEnded,
          FinishEnded, ReadFails, Unlist, CloseTransport, TakeSessions, ShutdownEnds, EndSession, tabVars
  <1>7. ASSUME NEW s \in Sessions, SendOutput(s) \/ SendClose(s) \/ PtyOutputs(s) \/ PtyEnds(s)
        PROVE  UNCHANGED <<handler, tab>>
    BY <1>7 DEF SendOutput, SendClose, PtyOutputs, PtyEnds, tabVars
  <1>8. ASSUME Dial \/ AgentReads \/ AgentAnswers \/ AgentDisconnects
        PROVE  UNCHANGED <<handler, tab>>
    BY <1>8 DEF Dial, AgentReads, AgentAnswers, AgentDisconnects, tabVars
  <1> QED BY <1>1, <1>3, <1>4, <1>5, <1>6, <1>7, <1>8 DEF Next

\* The parts of Traced that a step leaves alone.
LEMMA TracedFrames ==
  ASSUME TypeOK, Traced, Stays
  PROVE  /\ UNCHANGED down => DownTraced'
         /\ UNCHANGED up => UpTraced'
         /\ UNCHANGED run => RunTraced'
         /\ UNCHANGED agent => AgentTraced'
         /\ UNCHANGED output => OutputTraced'
  <1>1. \A c \in Conns : \A i \in 1 .. Len(down[c]) : down[c][i].session \in Sessions
    BY WireSessions
  <1>2. \A c \in Conns : \A i \in 1 .. Len(up[c]) : up[c][i].session \in Sessions
    BY WireSessions
  <1>3. \A c \in Conns : run[c].at \in {"deliver", "remove", "finish"} => run[c].msg.session \in Sessions
    BY DEF TypeOK, HubType, UpMessage
  <1>4. agent.msg # Nothing => agent.msg.session \in Sessions /\ agent.conn \in Conns
    BY DEF TypeOK, AgentType, UpMessage
  <1>5. \A s \in Sessions : output[s] # "off" => handler[s].conn \in Conns
    BY DEF Traced, TabTraced, OutputTraced
  <1>6. UNCHANGED down => DownTraced'
    BY <1>1 DEF Traced, DownTraced, Stays, Opened, OpenedNext
  <1>7. UNCHANGED up => UpTraced'
    BY <1>2 DEF Traced, UpTraced, Stays, Opened, OpenedNext
  <1>8. UNCHANGED run => RunTraced'
    BY <1>3 DEF Traced, RunTraced, Stays, Opened, OpenedNext
  <1>9. UNCHANGED agent => AgentTraced'
    BY <1>4 DEF Traced, AgentTraced, Stays, Opened, OpenedNext
  <1>10. UNCHANGED output => OutputTraced'
    BY <1>5 DEF Traced, OutputTraced, Stays, Opened, OpenedNext
  <1> QED BY <1>6, <1>7, <1>8, <1>9, <1>10

\* Every step keeps what is on its way traced.
LEMMA TracedStep ==
  ASSUME TypeOK, Traced, Next PROVE Traced'
  <1>s. Stays /\ TabTraced'
    BY TabsMove
  <1>f. /\ UNCHANGED down => DownTraced'
        /\ UNCHANGED up => UpTraced'
        /\ UNCHANGED run => RunTraced'
        /\ UNCHANGED agent => AgentTraced'
        /\ UNCHANGED output => OutputTraced'
    BY SMTT(30), <1>s, TracedFrames
  <1> USE <1>s, <1>f DEF Traced
  <1>r. ASSUME NEW c \in Conns, \A d \in Conns \ {c} : run'[d] = run[d],
               \/ run'[c].at \notin {"deliver", "remove", "finish"}
               \/ run[c].at \in {"deliver", "remove", "finish"} /\ run'[c].msg = run[c].msg
        PROVE  RunTraced'
    <2>1. \A d \in Conns : run[d].at \in {"deliver", "remove", "finish"} => run[d].msg.session \in Sessions
      BY DEF TypeOK, HubType, UpMessage
    <2> QED BY SMTT(30), <1>r, <2>1 DEF RunTraced, Stays, Opened, OpenedNext
  <1>w. ASSUME NEW c \in Conns, NEW m \in DownMessage, HubWrites(c, m) \/ HubWriteFails(c),
               OpenedNext(m.session, c)
        PROVE  DownTraced'
    <2>1. down \in [Conns -> Seq(DownMessage)]
      BY DEF TypeOK, WireType
    <2>2. \A d \in Conns : \A i \in 1 .. Len(down'[d]) :
            \/ i \in 1 .. Len(down[d]) /\ down'[d][i] = down[d][i]
            \/ d = c /\ down'[d][i] = m
      <3>1. CASE down' = [down EXCEPT ![c] = Append(@, m)]
        <4>1. down'[c] = Append(down[c], m) /\ \A d \in Conns \ {c} : down'[d] = down[d]
          BY <2>1, <3>1
        <4>2. down[c] \in Seq(DownMessage)
          BY <2>1
        <4> QED BY <4>1, <4>2, AppendElements
      <3>2. CASE UNCHANGED down
        BY <3>2
      <3> QED BY <1>w, <3>1, <3>2 DEF HubWrites, HubWriteFails
    <2>3. \A d \in Conns : \A i \in 1 .. Len(down[d]) : OpenedNext(down[d][i].session, d)
      BY WireSessions DEF DownTraced, Stays
    <2> QED BY <1>w, <2>2, <2>3 DEF DownTraced, Opened, OpenedNext
  <1>a. ASSUME NEW c \in Conns, NEW m \in UpMessage, AgentWrites(c, m) \/ AgentWriteFails(c),
               Opened(m.session, c)
        PROVE  UpTraced'
    <2>1. up \in [Conns -> Seq(UpMessage)] /\ m.session \in Sessions
      BY ZenonT(30) DEF TypeOK, WireType, UpMessage
    <2>2. \A d \in Conns : \A i \in 1 .. Len(up'[d]) :
            \/ i \in 1 .. Len(up[d]) /\ up'[d][i] = up[d][i]
            \/ d = c /\ up'[d][i] = m
      <3>1. CASE up' = [up EXCEPT ![c] = Append(@, m)]
        <4>1. up'[c] = Append(up[c], m) /\ \A d \in Conns \ {c} : up'[d] = up[d]
          BY <2>1, <3>1
        <4>2. up[c] \in Seq(UpMessage)
          BY <2>1
        <4> QED BY <4>1, <4>2, AppendElements
      <3>2. CASE UNCHANGED up
        BY <3>2
      <3> QED BY <1>a, <3>1, <3>2 DEF AgentWrites, AgentWriteFails
    <2>3. \A d \in Conns : \A i \in 1 .. Len(up[d]) : OpenedNext(up[d][i].session, d)
      BY WireSessions DEF UpTraced, Stays
    <2>4. OpenedNext(m.session, c)
      BY <1>a, <2>1 DEF Stays
    <2> QED BY <2>2, <2>3, <2>4 DEF UpTraced, Opened, OpenedNext
  <1>1. ASSUME NEW c \in Conns, Run(c) PROVE Traced'
    <2>1. CASE Attach(c)
      <3>1. run'[c].at = "replace" /\ \A d \in Conns \ {c} : run'[d] = run[d]
        BY <2>1 DEF Attach, TypeOK, HubType, RunType
      <3> QED BY ZenonT(30), <1>r, <2>1, <3>1 DEF Attach, agentVars, wires
    <2>2. CASE Replace(c)
      <3>1. RunTraced'
        BY <1>r, <2>2, RunEffect DEF Replace
      <3> QED BY <2>2, <3>1 DEF Replace, agentVars, wires
    <2>3. CASE ReadUp(c)
      <3>1. up \in [Conns -> Seq(UpMessage)] /\ up[c] \in Seq(UpMessage) /\ up[c] # <<>>
        BY <2>3 DEF ReadUp, TypeOK, WireType
      <3>2. up'[c] = Tail(up[c]) /\ \A d \in Conns \ {c} : up'[d] = up[d]
        BY SMTT(30), <2>3, <3>1 DEF ReadUp
      <3>3. \A d \in Conns : \A i \in 1 .. Len(up[d]) : OpenedNext(up[d][i].session, d)
        BY WireSessions DEF UpTraced, Stays
      <3>4. UpTraced'
        <4>1. \A i \in 1 .. Len(Tail(up[c])) : i + 1 \in 1 .. Len(up[c]) /\ Tail(up[c])[i] = up[c][i + 1]
          BY <3>1, TailElements
        <4>2. \A i \in 1 .. Len(Tail(up[c])) : OpenedNext(Tail(up[c])[i].session, c)
          BY <3>3, <4>1
        <4>3. \A d \in Conns : \A i \in 1 .. Len(up'[d]) : OpenedNext(up'[d][i].session, d)
          BY ZenonT(30), <3>2, <3>3, <4>2
        <4> QED BY ZenonT(30), <4>3 DEF UpTraced, Opened, OpenedNext
      <3>5. Head(up[c]) = up[c][1] /\ 1 \in 1 .. Len(up[c])
        BY <3>1
      <3>6. CASE UNCHANGED run
        BY <2>3, <3>4, <3>6 DEF ReadUp, agentVars
      <3>7. CASE run' = [run EXCEPT ![c].at = "deliver", ![c].msg = Head(up[c])]
        <4>1. run'[c].msg = up[c][1] /\ \A d \in Conns \ {c} : run'[d] = run[d]
          BY <3>5, <3>7 DEF TypeOK, HubType, RunType
        <4>2. OpenedNext(up[c][1].session, c)
          BY <3>3, <3>5
        <4>3. \A d \in Conns \ {c} : run[d].at \in {"deliver", "remove", "finish"} => OpenedNext(run[d].msg.session, d)
          BY DEF RunTraced, Stays, TypeOK, HubType, UpMessage
        <4>4. RunTraced'
          BY SMTT(30), <4>1, <4>2, <4>3 DEF RunTraced, Opened, OpenedNext
        <4> QED BY <2>3, <3>4, <4>4 DEF ReadUp, agentVars
      <3> QED BY <2>3, <3>6, <3>7 DEF ReadUp
    <2>4. CASE Deliver(c)
      <3>1. RunTraced'
        BY SMTT(30), <1>r, <2>4, RunEffect, ReadEffect DEF Deliver
      <3> QED BY SMTT(30), <2>4, <3>1 DEF Deliver, agentVars, wires
    <2>5. CASE RemoveEnded(c)
      <3>1. RunTraced'
        BY SMTT(30), <1>r, <2>5, RunEffect DEF RemoveEnded
      <3> QED BY <2>5, <3>1 DEF RemoveEnded, agentVars, wires
    <2>6. CASE FinishEnded(c)
      <3>1. RunTraced'
        BY SMTT(30), <1>r, <2>6, ReadEffect DEF FinishEnded
      <3> QED BY SMTT(30), <2>6, <3>1 DEF FinishEnded, agentVars, wires
    <2>7. CASE ReadFails(c)
      <3>1. RunTraced'
        BY <1>r, <2>7, RunEffect DEF ReadFails
      <3> QED BY <2>7, <3>1 DEF ReadFails, agentVars, wires
    <2> QED BY <1>1, <2>1, <2>2, <2>3, <2>4, <2>5, <2>6, <2>7 DEF Run
  <1>2. ASSUME NEW c \in Conns, ShutdownStep(c) PROVE Traced'
    <2>1. CASE CloseTransport(c)
      <3>1. up'[c] = <<>> /\ \A d \in Conns \ {c} : up'[d] = up[d]
        BY SMTT(30), <2>1 DEF CloseTransport, TypeOK, WireType
      <3>2. UpTraced'
        <4>1. \A d \in Conns : \A i \in 1 .. Len(up[d]) : OpenedNext(up[d][i].session, d)
          BY WireSessions DEF UpTraced, Stays
        <4>2. \A i \in 1 .. Len(up'[c]) : FALSE
          BY <3>1
        <4>3. \A d \in Conns : \A i \in 1 .. Len(up'[d]) : OpenedNext(up'[d][i].session, d)
          BY <3>1, <4>1, <4>2
        <4> QED BY <4>3 DEF UpTraced, Opened, OpenedNext
      <3> QED BY <2>1, <3>2 DEF CloseTransport, agentVars
    <2>2. CASE UNCHANGED <<run, agent, output, down, up>>
      BY <2>2
    <2> QED
      BY <1>2, <2>1, <2>2
      DEF ShutdownStep, Unlist, TakeSessions, ShutdownEnds, EndSession, agentVars, wires
  <1>3. ASSUME NEW s \in Sessions, Connect(s) \/ Handler(s) \/ Leave(s) PROVE Traced'
    <2>0. UNCHANGED <<run, agent, output, up>>
      BY SMTT(30), <1>3 DEF Connect, Handler, Leave, Lookup, Register, OpenSent, OpenFails, SendInput, TabClosed,
            CloseRemoves, CloseNotifies, Finish, hubVars, agentVars, wires
    <2>1. CASE OpenSent(s)
      <3>1. handler[s].conn \in Conns /\ handler'[s].conn = handler[s].conn /\ tab'[s] = "on"
        BY ZenonT(30), <2>1, HandlerEffect DEF OpenSent, TypeOK, TabType
      <3>2. OpenedNext(s, handler[s].conn)
        BY SMTT(30), <3>1 DEF OpenedNext
      <3> QED BY SMTT(30), <1>w, <2>0, <2>1, <3>1, <3>2, MsgDown, MsgSession DEF OpenSent
    <2>2. CASE SendInput(s) \/ CloseNotifies(s)
      <3>1. handler[s].conn \in Conns /\ handler[s].input \in {"input", "oversized"}
        BY SMTT(30), <2>2 DEF SendInput, CloseNotifies, TypeOK, TabType, HandlerType
      <3>2. tab[s] # "off" => OpenedNext(s, handler[s].conn)
        BY <3>1 DEF Stays, Opened
      <3>3. tab[s] # "off"
        BY <2>2 DEF SendInput, CloseNotifies, TabTraced
      <3> QED BY <1>w, <2>0, <2>2, <3>1, <3>2, <3>3, MsgDown, MsgSession DEF SendInput, CloseNotifies
    <2>3. CASE UNCHANGED down
      BY <2>0, <2>3
    <2> QED
      BY <1>3, <2>1, <2>2, <2>3
      DEF Connect, Handler, Leave, Lookup, Register, OpenFails, HubWriteFails, TabClosed,
          CloseRemoves, Finish, wires
  <1>4. ASSUME NEW s \in Sessions, Input(s, "input") \/ Input(s, "oversized") \/ Forwarder(s)
        PROVE  Traced'
    BY <1>4 DEF Input, Forwarder, ForwardEvent, ForwardDone, hubVars, agentVars, wires
  <1>5. ASSUME NEW s \in Sessions, SendOutput(s) \/ SendClose(s) \/ PtyOutputs(s) \/ PtyEnds(s)
        PROVE  Traced'
    <2>1. UNCHANGED <<run, agent, down>>
      BY <1>5 DEF SendOutput, SendClose, PtyOutputs, PtyEnds, hubVars, wires
    <2>2. output[s] # "off" /\ \A t \in Sessions \ {s} : output'[t] = output[t]
      BY SMTT(30), <1>5 DEF SendOutput, SendClose, PtyOutputs, PtyEnds, OutputAt, TypeOK, AgentType
    <2>3. tab[s] # "off" /\ handler[s].conn \in Conns
      BY <2>2 DEF OutputTraced, TabTraced
    <2>4. OutputTraced'
      <3>1. \A t \in Sessions : tab[t] # "off" => tab'[t] # "off"
        BY DEF Stays, Opened, OpenedNext, TabTraced
      <3> QED BY <2>2, <2>3, <3>1 DEF OutputTraced
    <2>5. UpTraced'
      <3>1. Opened(s, handler[s].conn)
        BY <2>3 DEF Opened
      <3>2. /\ Msg("output", s) \in UpMessage /\ Msg("output", s).session = s
            /\ Msg("close", s) \in UpMessage /\ Msg("close", s).session = s
        BY SMTT(30), MsgUp DEF EventType
      <3>3. CASE SendOutput(s)
        BY SMTT(30), <1>a, <2>3, <3>1, <3>2, <3>3 DEF SendOutput
      <3>4. CASE SendClose(s)
        BY <1>a, <2>3, <3>1, <3>2, <3>4 DEF SendClose
      <3> QED BY <1>5, <3>3, <3>4 DEF PtyOutputs, PtyEnds, wires
    <2> QED BY SMTT(30), <2>1, <2>4, <2>5
  <1>6. CASE Dial
    <2>1. dialed' \in Conns
      BY <1>6, RelayAssumption DEF Dial, TypeOK, AgentType, Conns
    <2>2. run'[dialed'].at = "attach" /\ \A d \in Conns \ {dialed'} : run'[d] = run[d]
      BY <1>6, <2>1 DEF Dial, TypeOK, HubType, RunType
    <2>3. RunTraced'
      BY <1>r, <2>1, <2>2
    <2>4. agent.msg = Nothing /\ agent'.msg = Nothing
      BY SMTT(30), <1>6 DEF Dial, TypeOK, AgentType
    <2> QED BY <1>6, <2>3, <2>4 DEF Dial, AgentTraced, wires
  <1>7. CASE AgentReads
    <2> DEFINE c == agent.conn  m == Head(down[c])
    <2>1. c \in Conns /\ down \in [Conns -> Seq(DownMessage)] /\ down[c] # <<>>
          /\ agent \in [conn : {0} \union Conns, msg : UpMessage \union {Nothing}]
      BY ZenonT(30), <1>7 DEF AgentReads, TypeOK, AgentType, WireType
    <2>2. down[c] \in Seq(DownMessage) /\ m = down[c][1] /\ 1 \in 1 .. Len(down[c])
      BY <2>1
    <2>3. \A d \in Conns : \A i \in 1 .. Len(down[d]) : OpenedNext(down[d][i].session, d)
      BY WireSessions DEF DownTraced, Stays
    <2>4. PICK answer, left : Answer(m, answer, left) /\ (answer # Nothing => answer.session = m.session)
      <3> DEFINE s == m.session
      <3>1. \/ Answer(m, Msg("ready", s), ptys \union {s}) \/ Answer(m, Msg("error", s), ptys)
            \/ Answer(m, Nothing, ptys) \/ Answer(m, Msg("close", s), ptys \ {s})
            \/ Answer(m, Nothing, ptys \ {s})
        BY SMTT(30), <1>7 DEF AgentReads
      <3>2. Msg("ready", s).session = s /\ Msg("error", s).session = s /\ Msg("close", s).session = s
        BY MsgSession
      <3> HIDE DEF m, s
      <3>3. \E answer, left : Answer(m, answer, left) /\ (answer # Nothing => answer.session = s)
        BY SMTT(30), <3>1, <3>2
      <3> QED BY SMTT(30), <3>3 DEF s
    <2>5. DownTraced'
      <3>1. down'[c] = Tail(down[c]) /\ \A d \in Conns \ {c} : down'[d] = down[d]
        BY <2>1, <2>4 DEF Answer
      <3>2. \A i \in 1 .. Len(Tail(down[c])) : i + 1 \in 1 .. Len(down[c]) /\ Tail(down[c])[i] = down[c][i + 1]
        BY <2>1, <2>2, TailElements
      <3>3. \A i \in 1 .. Len(Tail(down[c])) : OpenedNext(Tail(down[c])[i].session, c)
        BY <2>1, <2>3, <3>2
      <3>4. \A d \in Conns : \A i \in 1 .. Len(down'[d]) : OpenedNext(down'[d][i].session, d)
        BY ZenonT(30), <2>3, <3>1, <3>3
      <3> QED BY ZenonT(30), <3>4 DEF DownTraced, Opened, OpenedNext
    <2>6. agent'.conn = c /\ agent'.msg = answer
      BY <2>1, <2>4 DEF Answer
    <2>7. OpenedNext(m.session, c)
      BY <2>1, <2>2, <2>3
    <2>8. AgentTraced'
      BY <2>4, <2>6, <2>7 DEF AgentTraced, Opened, OpenedNext
    <2> QED BY SMTT(30), <1>7, <2>5, <2>8 DEF AgentReads, hubVars
  <1>8. CASE AgentAnswers
    <2>1. agent.msg \in UpMessage /\ agent.conn \in Conns /\ Opened(agent.msg.session, agent.conn)
          /\ agent.msg.session \in Sessions
      BY <1>8 DEF AgentAnswers, TypeOK, AgentType, AgentTraced, UpMessage
    <2>2. UpTraced'
      BY <1>8, <1>a, <2>1 DEF AgentAnswers
    <2>3. AgentTraced'
      BY <1>8 DEF AgentAnswers, AgentTraced, TypeOK, AgentType
    <2>4. OutputTraced'
      <3>1. \A t \in Sessions : tab[t] # "off" => tab'[t] # "off"
        BY DEF Stays, Opened, OpenedNext, TabTraced
      <3>2. \A t \in Sessions : output'[t] = output[t] \/ t = agent.msg.session
        BY <1>8, <2>1 DEF AgentAnswers, TypeOK, AgentType
      <3> QED BY <2>1, <3>1, <3>2 DEF OutputTraced, Opened
    <2> QED BY <1>8, <2>2, <2>3, <2>4 DEF AgentAnswers, hubVars
  <1>9. CASE AgentDisconnects
    <2>1. agent.conn \in Conns /\ agent.msg = Nothing /\ agent'.msg = Nothing
      BY <1>9 DEF AgentDisconnects, TypeOK, AgentType
    <2>2. down'[agent.conn] = <<>> /\ \A d \in Conns \ {agent.conn} : down'[d] = down[d]
      BY <1>9, <2>1 DEF AgentDisconnects, TypeOK, WireType
    <2>3. DownTraced'
      <3>1. \A d \in Conns : \A i \in 1 .. Len(down[d]) : OpenedNext(down[d][i].session, d)
        BY WireSessions DEF DownTraced, Stays
      <3>2. \A i \in 1 .. Len(down'[agent.conn]) : FALSE
        BY <2>2
      <3>3. \A d \in Conns : \A i \in 1 .. Len(down'[d]) : OpenedNext(down'[d][i].session, d)
        BY <2>2, <3>1, <3>2
      <3> QED BY <3>3 DEF DownTraced, Opened, OpenedNext
    <2> QED BY <1>9, <2>1, <2>3 DEF AgentDisconnects, AgentTraced, hubVars
  <1>10. ASSUME NEW c \in Conns, ConnectionBreaks(c) PROVE Traced'
    BY <1>10 DEF ConnectionBreaks, hubVars, agentVars
  <1> QED
    BY <1>1, <1>2, <1>3, <1>4, <1>5, <1>6, <1>7, <1>8, <1>9, <1>10 DEF Next

-----------------------------------------------------------------------------
\* The end of the forwarders.

\* A session that is ending goes on ending.
LEMMA EndingStays ==
  ASSUME TypeOK, Traced, Listed, Next PROVE \A s \in Sessions : Ending(s) => Ending(s)'
  <1>1. done \subseteq done'
    <2>1. ASSUME NEW c \in Conns, Run(c) \/ ShutdownStep(c) \/ ConnectionBreaks(c) PROVE done \subseteq done'
      BY <2>1 DEF Run, ShutdownStep, ConnectionBreaks, Attach, Replace, ReadUp, Deliver, RemoveEnded,
            FinishEnded, ReadFails, Unlist, CloseTransport, TakeSessions, ShutdownEnds, EndSession, tabVars
    <2>2. ASSUME NEW s \in Sessions, Connect(s) \/ Handler(s) \/ Leave(s) PROVE done \subseteq done'
      BY <2>2 DEF Connect, Handler, Leave, Lookup, Register, OpenSent, OpenFails, SendInput, TabClosed,
            CloseRemoves, CloseNotifies, Finish
    <2>3. ASSUME NEW s \in Sessions, Input(s, "input") \/ Input(s, "oversized") \/ Forwarder(s)
          PROVE  done \subseteq done'
      BY SMTT(30), <2>3 DEF Input, Forwarder, ForwardEvent, ForwardDone
    <2>4. ASSUME NEW s \in Sessions, SendOutput(s) \/ SendClose(s) \/ PtyOutputs(s) \/ PtyEnds(s)
          PROVE  done \subseteq done'
      BY <2>4 DEF SendOutput, SendClose, PtyOutputs, PtyEnds, tabVars
    <2>5. ASSUME Dial \/ AgentReads \/ AgentAnswers \/ AgentDisconnects PROVE done \subseteq done'
      BY SMTT(30), <2>5 DEF Dial, AgentReads, AgentAnswers, AgentDisconnects, tabVars
    <2> QED BY SMTT(30), <2>1, <2>2, <2>3, <2>4, <2>5 DEF Next
  <1>2. \A c \in Conns : run[c].at \in {"remove", "finish"} =>
          \/ run'[c].at \in {"remove", "finish"} /\ run'[c].msg = run[c].msg
          \/ run[c].msg.session \in done'
    <2>1. ASSUME NEW d \in Conns, Run(d)
          PROVE  \A c \in Conns : run[c].at \in {"remove", "finish"} =>
                   \/ run'[c].at \in {"remove", "finish"} /\ run'[c].msg = run[c].msg
                   \/ run[c].msg.session \in done'
      <3>1. CASE Attach(d) \/ ReadUp(d)
        <4>1. run[d].at \in {"attach", "read"} /\ \A c \in Conns \ {d} : run'[c] = run[c]
          BY SMTT(30), <3>1 DEF Attach, ReadUp, TypeOK, HubType
        <4> QED BY <4>1
      <3>2. CASE Replace(d)
        BY SMTT(30), <3>2, RunEffect DEF Replace
      <3>3. CASE Deliver(d)
        BY ZenonT(30), <3>3, RunEffect, ReadEffect DEF Deliver
      <3>4. CASE RemoveEnded(d)
        BY <3>4, RunEffect DEF RemoveEnded
      <3>5. CASE FinishEnded(d)
        BY <3>5, ReadEffect DEF FinishEnded
      <3>6. CASE ReadFails(d)
        BY <3>6, RunEffect DEF ReadFails
      <3> QED BY ZenonT(30), <2>1, <3>1, <3>2, <3>3, <3>4, <3>5, <3>6 DEF Run
    <2>2. CASE Dial
      <3>1. dialed' \in Conns /\ dialed' > dialed
        BY <2>2, RelayAssumption DEF Dial, TypeOK, AgentType, Conns
      <3>2. run[dialed'].at = "none"
        BY <3>1 DEF Listed
      <3>3. \A d \in Conns \ {dialed'} : run'[d] = run[d]
        BY <2>2, <3>1 DEF Dial, TypeOK, HubType
      <3> QED BY <3>2, <3>3
    <2>3. ASSUME NEW c \in Conns, ShutdownStep(c) \/ ConnectionBreaks(c) PROVE UNCHANGED run
      BY <2>3 DEF ShutdownStep, ConnectionBreaks, Unlist, CloseTransport, TakeSessions, ShutdownEnds,
            EndSession, hubVars
    <2>4. ASSUME NEW s \in Sessions, Connect(s) \/ Handler(s) \/ Leave(s) PROVE UNCHANGED run
      BY <2>4 DEF Connect, Handler, Leave, Lookup, Register, OpenSent, OpenFails, SendInput, TabClosed,
            CloseRemoves, CloseNotifies, Finish, hubVars
    <2>5. ASSUME NEW s \in Sessions, Input(s, "input") \/ Input(s, "oversized") \/ Forwarder(s)
          PROVE  UNCHANGED run
      BY SMTT(30), <2>5 DEF Input, Forwarder, ForwardEvent, ForwardDone, hubVars
    <2>6. ASSUME NEW s \in Sessions, SendOutput(s) \/ SendClose(s) \/ PtyOutputs(s) \/ PtyEnds(s)
          PROVE  UNCHANGED run
      BY <2>6 DEF SendOutput, SendClose, PtyOutputs, PtyEnds, hubVars
    <2>7. ASSUME AgentReads \/ AgentAnswers \/ AgentDisconnects PROVE UNCHANGED run
      BY <2>7 DEF AgentReads, AgentAnswers, AgentDisconnects, hubVars
    <2>8. CASE UNCHANGED run
      BY <2>8
    <2> QED BY SMTT(30), <2>1, <2>2, <2>3, <2>4, <2>5, <2>6, <2>7, <2>8 DEF Next
  <1>3. Stays
    BY TabsMove
  <1> SUFFICES ASSUME NEW s \in Sessions, Ending(s) PROVE Ending(s)'
    OBVIOUS
  <1> DEFINE c == handler[s].conn
  <1>4. CASE s \in done
    BY SMTT(30), <1>1, <1>4 DEF Ending
  <1>5. CASE c \in Conns /\ run[c].at \in {"remove", "finish"} /\ run[c].msg.session = s
    <2>1. Opened(s, c)
      BY <1>5 DEF Traced, RunTraced
    <2>2. handler'[s].conn = c
      BY <1>3, <1>5, <2>1 DEF Stays, OpenedNext
    <2> QED BY <1>2, <1>5, <2>2 DEF Ending
  <1> QED BY <1>4, <1>5 DEF Ending

\* Every step keeps the end of a forwarder explained.
LEMMA ExplainedStep ==
  ASSUME TypeOK, Traced, Listed, Explained, Next PROVE Explained'
  <1>e. \A s \in Sessions : Ending(s) => Ending(s)'
    BY EndingStays
  <1>t. events \in [Sessions -> Seq(EventType)] /\ tab \in [Sessions -> {"off", "on", "ended"}]
    BY DEF TypeOK, TabType
  <1>f. ASSUME UNCHANGED <<tab, events>> PROVE Explained'
    BY <1>e, <1>f DEF Explained
  \* One session is ending after the step, the others keep tab and events.
  <1>g. ASSUME NEW s \in Sessions, UNCHANGED tab,
               \A t \in Sessions \ {s} : events'[t] = events[t], Ending(s)'
        PROVE  Explained'
    BY SMTT(30), <1>e, <1>g DEF Explained
  <1>1. ASSUME NEW c \in Conns, Deliver(c) PROVE Explained'
    <2>1. PICK m \in UpMessage, s \in Sessions : m = run[c].msg /\ s = m.session
      BY SMTT(30), <1>1 DEF Deliver, TypeOK, HubType, UpMessage
    <2>2. m.type \in EventType /\ Opened(s, c)
      BY SMTT(30), <1>1, <2>1 DEF Deliver, UpMessage, Traced, RunTraced
    <2>3. UNCHANGED <<tab, handler, done>> /\ \A t \in Sessions \ {s} : events'[t] = events[t]
      BY ZenonT(30), <1>1, <1>t, <2>1 DEF Deliver
    <2>4. CASE m.type \in {"close", "error"}
      <3>1. run'[c].at = "remove" /\ run'[c].msg = m
        BY ZenonT(30), <1>1, <2>1, <2>4, RunEffect DEF Deliver
      <3>2. Ending(s)'
        BY <2>1, <2>3, <2>2, <3>1 DEF Ending, Opened
      <3> QED BY SMTT(30), <1>g, <2>3, <3>2
    <2>5. CASE m.type \notin {"close", "error"} /\ events' = [events EXCEPT ![s] = Append(@, m.type)]
      <3>1. events'[s] = Append(events[s], m.type) /\ events[s] \in Seq(EventType)
        BY <1>t, <2>5
      <3>2. \A i \in 1 .. Len(events'[s]) :
              (i \in 1 .. Len(events[s]) /\ events'[s][i] = events[s][i]) \/ events'[s][i] = m.type
        BY <2>2, <3>1, AppendElements
      <3>3. \A t \in Sessions : (\E i \in 1 .. Len(events'[t]) : events'[t][i] \in {"close", "error"})
              => \E i \in 1 .. Len(events[t]) : events[t][i] \in {"close", "error"}
        BY <2>3, <2>5, <3>2
      <3> QED BY <1>e, <2>3, <3>3 DEF Explained
    <2>6. CASE UNCHANGED events
      BY <1>f, <2>3, <2>6
    <2> QED BY ZenonT(30), <1>1, <2>1, <2>4, <2>5, <2>6 DEF Deliver
  <1>2. ASSUME NEW c \in Conns, NEW s \in Sessions, EndSession(c, s) PROVE Explained'
    <2>1. UNCHANGED tab /\ s \in done' /\ \A t \in Sessions \ {s} : events'[t] = events[t]
      BY <1>2, <1>t DEF EndSession
    <2> QED BY <1>g, <2>1 DEF Ending
  <1>3. ASSUME NEW s \in Sessions, Forwarder(s) PROVE Explained'
    <2>1. /\ \A t \in Sessions \ {s} : events'[t] = events[t] /\ tab'[t] = tab[t]
          /\ events[s] \in Seq(EventType)
          /\ events'[s] = events[s] \/ (events[s] # <<>> /\ events'[s] = Tail(events[s]))
      BY SMTT(30), <1>3, <1>t DEF Forwarder, ForwardEvent, ForwardDone
    <2>2. \A i \in 1 .. Len(events'[s]) : \E j \in 1 .. Len(events[s]) : events'[s][i] = events[s][j]
      <3>1. CASE events'[s] = events[s]
        BY <3>1
      <3>2. CASE events[s] # <<>> /\ events'[s] = Tail(events[s])
        BY <2>1, <3>2, TailElements
      <3> QED BY <2>1, <3>1, <3>2
    <2>3. (\E i \in 1 .. Len(events'[s]) : events'[s][i] \in {"close", "error"}) => Ending(s)'
      BY ZenonT(30), <1>e, <2>2 DEF Explained
    <2>4. tab'[s] = "ended" => Ending(s)'
      <3>1. CASE ForwardEvent(s)
        <4>1. Head(events[s]) = events[s][1] /\ 1 \in 1 .. Len(events[s])
          BY <2>1, <3>1 DEF ForwardEvent
        <4> QED BY <1>e, <1>t, <3>1, <4>1 DEF ForwardEvent, Explained
      <3>2. CASE ForwardDone(s)
        BY <1>e, <3>2 DEF ForwardDone, Ending
      <3> QED BY <1>3, <3>1, <3>2 DEF Forwarder
    <2>5. \A t \in Sessions \ {s} :
            tab'[t] = "ended" \/ (\E i \in 1 .. Len(events'[t]) : events'[t][i] \in {"close", "error"}) => Ending(t)'
      BY <1>e, <2>1 DEF Explained
    <2> QED BY <2>3, <2>4, <2>5 DEF Explained
  <1>4. ASSUME NEW s \in Sessions, OpenSent(s) PROVE Explained'
    <2>1. tab'[s] = "on" /\ UNCHANGED events /\ \A t \in Sessions \ {s} : tab'[t] = tab[t]
      BY <1>4, <1>t DEF OpenSent
    <2> QED BY <1>e, <2>1 DEF Explained
  <1>5. ASSUME NEW c \in Conns, Run(c) \/ ShutdownStep(c) \/ ConnectionBreaks(c) PROVE Explained'
    BY <1>5, <1>1, <1>2, <1>f
    DEF Run, ShutdownStep, ConnectionBreaks, Attach, Replace, ReadUp, RemoveEnded, FinishEnded,
        ReadFails, Unlist, CloseTransport, TakeSessions, ShutdownEnds, tabVars
  <1>6. ASSUME NEW s \in Sessions, Connect(s) \/ Handler(s) \/ Leave(s) PROVE Explained'
    BY <1>6, <1>4, <1>f
    DEF Connect, Handler, Leave, Lookup, Register, OpenFails, SendInput, TabClosed, CloseRemoves,
        CloseNotifies, Finish
  <1>7. ASSUME NEW s \in Sessions, Input(s, "input") \/ Input(s, "oversized") PROVE Explained'
    BY SMTT(30), <1>7, <1>f DEF Input
  <1>8. ASSUME NEW s \in Sessions, SendOutput(s) \/ SendClose(s) \/ PtyOutputs(s) \/ PtyEnds(s)
        PROVE  Explained'
    BY ZenonT(30), <1>8, <1>f DEF SendOutput, SendClose, PtyOutputs, PtyEnds, tabVars
  <1>9. ASSUME Dial \/ AgentReads \/ AgentAnswers \/ AgentDisconnects PROVE Explained'
    BY <1>9, <1>f DEF Dial, AgentReads, AgentAnswers, AgentDisconnects, tabVars
  <1> QED BY <1>3, <1>5, <1>6, <1>7, <1>8, <1>9 DEF Next

-----------------------------------------------------------------------------
\* The initial state satisfies the invariant.
LEMMA InvInit == Init => Inv
  <1> SUFFICES ASSUME Init PROVE Inv
    OBVIOUS
  <1> USE DEF Init
  <1>1. TypeOK
    BY SMTT(30), ConnsArePositive
    DEF TypeOK, HubType, TabType, AgentType, WireType, RunType, ShutType, HandlerType
  <1>2. Traced
    BY DEF Traced, TabTraced, DownTraced, UpTraced, RunTraced, AgentTraced, OutputTraced
  <1>3. Explained
    BY SMTT(30) DEF Explained
  <1>4. Kept
    BY DEF Kept, NotStranded
  <1>5. Listed
    BY DEF Listed, LiveIsListed
  <1> QED BY <1>1, <1>2, <1>3, <1>4, <1>5 DEF Inv

\* Every step preserves it: types, what is on its way, the forwarders, the sessions
\* of the tabs and the list of connections.
LEMMA InvStep == Inv /\ [Next]_vars => Inv'
  <1> SUFFICES ASSUME Inv, [Next]_vars PROVE Inv'
    OBVIOUS
  <1> USE DEF Inv
  <1>1. CASE UNCHANGED vars
    <2> USE <1>1 DEF vars, hubVars, tabVars, agentVars, wires, history
    <2>1. TypeOK'
      BY HubFrame, TabFrame, AgentFrame, WireFrame DEF TypeOK
    <2>2. Traced'
      <3>1. TabTraced' /\ OutputTraced'
        BY SMTT(30) DEF Traced, TabTraced, OutputTraced
      <3>2. DownTraced' /\ UpTraced'
        BY SMTT(30) DEF Traced, DownTraced, UpTraced, Opened
      <3>3. RunTraced' /\ AgentTraced'
        BY SMTT(30) DEF Traced, RunTraced, AgentTraced, Opened
      <3> QED BY <3>1, <3>2, <3>3 DEF Traced
    <2>3. Explained'
      BY SMTT(30) DEF Explained, Ending
    <2>4. Kept' /\ Listed'
      BY SMTT(30), KeptFrame, ListedFrame
    <2> QED BY <2>1, <2>2, <2>3, <2>4
  <1>2. CASE Next
    <2>1. Traced' /\ Explained'
      BY <1>2, TracedStep, ExplainedStep
    <2>2. ASSUME NEW c \in Conns, Run(c) PROVE Inv'
      BY <2>1, <2>2, RunTypes, ListedRun, KeptRun
    <2>3. ASSUME NEW c \in Conns, ShutdownStep(c) PROVE Inv'
      BY <2>1, <2>3, ShutdownTypes, ListedShutdown, KeptShutdown
    <2>4. ASSUME UNCHANGED <<current, run, shut, dialed>> PROVE Listed'
      BY <2>4, ListedFrame
    <2>5. ASSUME NEW s \in Sessions,
                 Connect(s) \/ Handler(s) \/ Leave(s) \/ Input(s, "input") \/ Input(s, "oversized")
          PROVE  Inv'
      <3>1. UNCHANGED <<current, run, shut, dialed>>
        BY <2>5 DEF Connect, Handler, Leave, Input, Lookup, Register, OpenSent, OpenFails, SendInput,
              TabClosed, CloseRemoves, CloseNotifies, Finish, hubVars, agentVars
      <3> QED BY <2>1, <2>4, <2>5, <3>1, HandlerTypes, KeptHandler
    <2>6. ASSUME NEW s \in Sessions, Forwarder(s) PROVE Inv'
      <3>1. UNCHANGED <<hubVars, handler, done, dialed>>
        BY SMTT(30), <2>6 DEF Forwarder, ForwardEvent, ForwardDone, agentVars
      <3> QED BY <2>1, <2>4, <2>6, <3>1, ForwarderTypes, KeptFrame DEF hubVars
    <2>7. ASSUME NEW s \in Sessions, SendOutput(s) \/ SendClose(s) \/ PtyOutputs(s) \/ PtyEnds(s)
          PROVE  Inv'
      <3>1. UNCHANGED <<hubVars, handler, done, dialed>>
        BY <2>7 DEF SendOutput, SendClose, PtyOutputs, PtyEnds, tabVars
      <3>2. output[s] # "off" => handler[s].conn \in Conns
        BY DEF Traced, OutputTraced, TabTraced
      <3> QED BY SMTT(30), <2>1, <2>4, <2>7, <3>1, <3>2, OutputTypes, KeptFrame DEF hubVars
    <2>8. CASE Dial
      BY <2>1, <2>8, AgentTypes, ListedDial, KeptDial
    <2>9. ASSUME AgentReads \/ AgentAnswers \/ AgentDisconnects \/ \E c \in Conns : ConnectionBreaks(c)
          PROVE  Inv'
      <3>1. UNCHANGED <<hubVars, handler, done, dialed>>
        BY <2>9 DEF AgentReads, AgentAnswers, AgentDisconnects, ConnectionBreaks, tabVars, agentVars
      <3> QED BY <2>1, <2>4, <2>9, <3>1, AgentTypes, KeptFrame DEF hubVars
    <2> QED BY <1>2, <2>2, <2>3, <2>5, <2>6, <2>7, <2>8, <2>9 DEF Next
  <1> QED BY <1>1, <1>2

\* The invariant holds in every reachable state.
THEOREM Invariance == Spec => []Inv
  BY InvInit, InvStep, PTL DEF Spec

\* The types are kept; no handler uses the connection of an offline node.
THEOREM RelayTypes == Spec => []TypeOK
  <1>1. Inv => TypeOK
    BY DEF Inv
  <1> QED BY <1>1, Invariance, PTL

\* No tab is left with a session of its connection that nobody is going to end.
THEOREM NoTabIsStranded == Spec => []NotStranded
  <1>1. Inv => NotStranded
    BY DEF Inv, Kept
  <1> QED BY <1>1, Invariance, PTL

\* A live connection is listed or about to be shut down by its successor.
THEOREM LiveConnectionIsListed == Spec => []LiveIsListed
  <1>1. Inv => LiveIsListed
    BY DEF Inv, Listed
  <1> QED BY <1>1, Invariance, PTL

\* The Run loop of a node never waits for a channel that nobody reads.
THEOREM RunNeverBlocks == Spec => []RunIsUnblocked
  <1>1. Inv => RunIsUnblocked
    <2> SUFFICES ASSUME Inv, NEW c \in Conns, run[c].at = "deliver"
                 PROVE  tab[run[c].msg.session] = "on" \/ run[c].msg.session \in done
      BY SMTT(30) DEF RunIsUnblocked
    <2> DEFINE s == run[c].msg.session
    <2>1. s \in Sessions /\ handler[s].conn = c /\ tab[s] # "off" /\ tab[s] \in {"off", "on", "ended"}
      BY SMTT(30) DEF Inv, TypeOK, HubType, TabType, UpMessage, Traced, RunTraced, Opened
    <2>2. tab[s] = "ended" => Ending(s)
      BY <2>1 DEF Inv, Explained
    <2> QED BY <2>1, <2>2 DEF Ending
  <1> QED BY <1>1, Invariance, PTL
=============================================================================
