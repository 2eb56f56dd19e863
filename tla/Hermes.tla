------------------------------- MODULE Hermes -------------------------------
(***************************************************************************)
(* The Hermes gateway client (src/hal9000/hermes/client.py) and the        *)
(* session side of HermesService (src/hal9000/hermes/service.py): the      *)
(* socket worker thread, the table of pending requests, the session, the   *)
(* model preference workflow, the one queued prompt and the registration   *)
(* of HAL's own MCP server.                                                *)
(*                                                                         *)
(* Everything but the worker runs on the Qt thread, so a handler is one    *)
(* step; `hal' is the state it works on and the operators below that take  *)
(* and return an h are the methods a handler calls, in the order it calls  *)
(* them.  The worker posts its notifications to the Qt event queue         *)
(* (`signals') and takes frames from the queue hal.out.                    *)
(*                                                                         *)
(* Requests whose answers only emit Qt signals (model.options,             *)
(* session.interrupt, approvals) are left out.  The preference generation  *)
(* is only ever compared with the current one, so an entry of a request    *)
(* table says whether it belongs to the current generation.  Request and   *)
(* session identifiers are reused once nothing mentions them.              *)
(***************************************************************************)
EXTENDS Naturals, FiniteSets, SequencesExt

CONSTANTS Prompt,      \* texts the controller may submit
          Model,       \* routes the user or the router may ask for
          Default,     \* the route of a new Hermes session
          SelfMcp,     \* whether enableSelfMcp was called
          AskConfirm,  \* whether Hermes may ask to confirm reload.mcp
          SlowDial,    \* whether a dial may outlast the 1.2 s join of stop()
          Ids,         \* request identifiers
          Sessions,    \* identifiers of Hermes sessions
          Registered,  \* Hermes' first entry for the MCP server: absent, match, differs
          Resumable,   \* settings.last_session_id: a session, or 0
          MaxTrouble,  \* bound: faults, refusals, early timeouts, stops, reconnects
          MaxRoute     \* bound: route and reasoning changes

NoPrompt == "none"

ASSUME HermesAssumption ==
  /\ Default \in Model /\ NoPrompt \notin Prompt
  /\ {SelfMcp, AskConfirm, SlowDial} \subseteq BOOLEAN
  /\ Ids \subseteq Nat \ {0} /\ Sessions \subseteq Nat \ {0}
  /\ {MaxTrouble, MaxRoute} \subseteq Nat /\ Resumable \in Sessions \cup {0}
  /\ Registered \in {"absent", "match", "differs"}

VARIABLES hal,      \* the service and its client, on the Qt thread
          signals,  \* notifications queued for the Qt thread
          sock,     \* the current worker: "none", "dialing" or "open"
          late,     \* a stopped worker that still dials: "no", "dialing", "closing"
          gate,     \* Hermes: the route of every session
          server,   \* Hermes: its entry for HAL's MCP server
          escaped,  \* history: a prompt ran on a route that its turn ruled out
          left      \* what the bounds still allow

vars == <<hal, signals, sock, late, gate, server, escaped, left>>

Stage == {"idle", "listing", "removing", "adding", "testing", "reloading",
          "ready", "degraded", "retrying", "approval"}
Method == {"create", "resume", "model", "effort", "prompt",
           "list", "remove", "add", "test", "reload"}
McpMethod == {"list", "remove", "add", "test"}
Fate == {"new", "queued", "settled"}  \* settled: submitted, or reported to the user

-----------------------------------------------------------------------------
(* The client: request, and the prompt and session requests built on it.    *)

PendIds == {hal.pend[i].id : i \in DOMAIN hal.pend}

\* The ids that a table, a queue or a variable still mentions, or the requests
\* that were pending when the step began, which it may be rejecting in turn.
UsedIds(h) == {h.pend[i].id : i \in DOMAIN h.pend} \cup {h.out[i].id : i \in DOMAIN h.out}
              \cup {signals[i].id : i \in DOMAIN signals} \cup {f.id : f \in h.flow}
              \cup {h.mcpReq, h.reloadReq, h.sess} \cup PendIds
FreshId(h) == CHOOSE n \in Ids : n \notin UsedIds(h) /\ \A k \in Ids \ UsedIds(h) : n <= k

Usable(h) == h.conn = "connected" /\ h.link

\* request on a usable connection: the table and the worker's queue get the frame.
Posted(h, m, arg) ==
  LET n == FreshId(h) IN
  [h EXCEPT !.pend = Append(@, [id |-> n, m |-> m]),
            !.out = Append(@, [id |-> n, m |-> m, s |-> h.runtime, arg |-> arg])]

\* The route a submitted prompt must run on: any, if Hermes may fall back.
Required(h) == IF h.fallback THEN Model ELSE {h.desired}

\* prompt.submit; a client that is not connected reports the error at once.
SubmitPrompt(h, p) ==
  IF Usable(h)
  THEN [Posted(h, "prompt", [need |-> Required(h), settled |-> h.opening = "done"])
          EXCEPT !.fate[p] = "settled"]
  ELSE [h EXCEPT !.fate[p] = "settled"]

\* _create_or_resume_session.  Without a connection session.resume fails at
\* once, which forgets the stored session and tries session.create, which
\* fails as well.
CreateOrResumeSession(h) ==
  IF h.sess # 0 THEN h
  ELSE IF Usable(h)
  THEN [Posted(h, IF h.stored # 0 THEN "resume" ELSE "create", h.stored)
          EXCEPT !.sess = FreshId(h)]
  ELSE IF h.stored # 0 THEN [h EXCEPT !.stored = 0, !.runtime = 0] ELSE h

-----------------------------------------------------------------------------
(* Prompts and the preference workflow.                                     *)

\* Mutant: the queued prompt is dropped without a word.
Forgotten(h) == [h EXCEPT !.queued = NoPrompt]
\* A prompt that leaves the queue unsent is reported as undelivered.
Undelivered(h) ==
  IF h.queued = NoPrompt THEN h
  ELSE [h EXCEPT !.fate[h.queued] = "settled", !.queued = NoPrompt]

SendPrompt(h, p) ==
  IF h.prefFailed THEN [h EXCEPT !.fate[p] = "settled"]
  ELSE IF h.runtime # 0 /\ ~h.prefPending THEN SubmitPrompt(h, p)
  ELSE LET q == [(IF h.queued = p THEN h ELSE Undelivered(h))
                   EXCEPT !.queued = p, !.fate[p] = "queued"]
       IN IF q.conn = "connected" /\ q.runtime = 0 THEN CreateOrResumeSession(q) ELSE q

\* _finish_session_preferences of the current generation.
FinishPreferences(h, deliver, state) ==
  LET d == [h EXCEPT !.prefPending = FALSE, !.prefFailed = ~deliver, !.prefState = state]
  IN IF h.queued # NoPrompt /\ deliver
     THEN SendPrompt([d EXCEPT !.queued = NoPrompt], h.queued)
     ELSE Undelivered(d)
FailPreferences(h) == FinishPreferences(h, FALSE, "failed")

\* Starting a generation makes every request of an earlier one stale.
NextGeneration(h) == [h EXCEPT !.flow = {[f EXCEPT !.cur = FALSE] : f \in @}]

\* _request_model and _request_reasoning: the table entry is written after
\* request returned, so an error reported by request itself finds no entry.
RequestPreference(h, m) ==
  LET e == [id |-> FreshId(h), m |-> m, route |-> h.desired, cur |-> TRUE,
            persist |-> h.persist, fallback |-> h.fallback]
      r == IF Usable(h) THEN Posted(h, m, h.desired) ELSE h
  IN [r EXCEPT !.flow = @ \cup {e}]

BeginPreferences(h) ==
  LET g == [NextGeneration(h) EXCEPT !.prefPending = TRUE, !.prefFailed = FALSE,
                                     !.prefState = "applying"]
  IN IF g.runtime = 0 \/ g.conn # "connected" THEN FailPreferences(g)
     ELSE RequestPreference(g, "model")

\* Mutant: a refused preference request is dropped.
RefusalIgnored(h, e) == h
\* What a refused or failed preference request does: a manual choice, or one
\* that forbids Hermes' own fallback, keeps prompts back.
PreferenceRefused(h, e) ==
  IF e.persist \/ ~e.fallback THEN FailPreferences(h)
  ELSE FinishPreferences(h, TRUE, "retryable")

-----------------------------------------------------------------------------
(* The self MCP registration.                                               *)

RequestMcp(h, m, stage) ==
  LET r == IF Usable(h) THEN Posted(h, m, 0) ELSE h
  IN [r EXCEPT !.mcp = stage, !.mcpReq = FreshId(h)]

EnsureMcp(h) ==
  IF h.mcp \in {"idle", "degraded", "retrying"} THEN RequestMcp(h, "list", "listing") ELSE h

MarkMcpReady(h) ==
  [h EXCEPT !.mcp = "ready", !.mcpReq = 0, !.reloadReq = 0, !.retry = FALSE]

\* Mutant: a registration that finishes without a session opens none.
FinishMcpSetupOnly(h) ==
  LET d == [h EXCEPT !.mcpReq = 0, !.retry = FALSE]
      r == IF Usable(d) THEN Posted(d, "reload", 0) ELSE d
  IN IF h.runtime # 0
     THEN [r EXCEPT !.mcp = "reloading", !.reloadReq = FreshId(d)]
     ELSE MarkMcpReady(d)
\* The tools of an open session are reloaded; without one it is opened now.
FinishMcpSetup(h) ==
  LET d == [h EXCEPT !.mcpReq = 0, !.retry = FALSE]
      r == IF Usable(d) THEN Posted(d, "reload", 0) ELSE d
  IN IF h.runtime # 0
     THEN [r EXCEPT !.mcp = "reloading", !.reloadReq = FreshId(d)]
     ELSE CreateOrResumeSession(MarkMcpReady(d))

\* A failed registration opens the session all the same and arms the retry.
McpFailed(h) ==
  LET d == [h EXCEPT !.mcp = "degraded", !.mcpReq = 0]
      s == IF d.runtime = 0 THEN CreateOrResumeSession(d) ELSE d
  IN IF s.conn = "connected" THEN [s EXCEPT !.retry = TRUE] ELSE s

-----------------------------------------------------------------------------
(* Answers.                                                                 *)

\* Mutant: the generation of an answer is not compared with the current one.
AnyGeneration(h, id, m) == {f \in h.flow : f.id = id /\ f.m = m}
\* The entry of the current generation that an answer belongs to, if any.
CurrentEntry(h, id, m) == {f \in h.flow : f.id = id /\ f.m = m /\ f.cur}
Dropped(h, id) == [h EXCEPT !.flow = {f \in @ : f.id # id}]

OnRpcError(h, id, m) ==
  IF m \in McpMethod /\ id = h.mcpReq THEN McpFailed(h)
  ELSE IF m = "reload" /\ id = h.reloadReq THEN McpFailed([h EXCEPT !.reloadReq = 0])
  ELSE LET c == IF m \notin {"create", "resume"} THEN h
                ELSE [h EXCEPT !.sess = 0, !.opening = IF m = "create" THEN "failed" ELSE @]
       IN IF m = "resume" /\ c.stored # 0
          THEN CreateOrResumeSession([c EXCEPT !.stored = 0, !.runtime = 0])
          ELSE IF m \in {"model", "effort"} /\ CurrentEntry(c, id, m) # {}
          THEN PreferenceRefused(Dropped(c, id), CHOOSE e \in CurrentEntry(c, id, m) : TRUE)
          ELSE Dropped(c, id)

OnMcpResult(h, m, v) ==
  CASE m = "list" /\ v = "absent" -> RequestMcp(h, "add", "adding")
    [] m = "list" /\ v = "match" -> RequestMcp(h, "test", "testing")
    [] m = "list" /\ v = "differs" -> RequestMcp(h, "remove", "removing")
    [] m = "remove" -> RequestMcp(h, "add", "adding")
    [] m = "add" -> RequestMcp(h, "test", "testing")
    [] m = "test" /\ v = "ok" -> FinishMcpSetup(h)
    [] m = "test" /\ v = "refused" -> McpFailed(h)

OnReloadResult(h, v) ==
  LET c == [h EXCEPT !.reloadReq = 0] IN
  CASE v = "confirm" -> [c EXCEPT !.mcp = "approval"]
    [] v = "refused" -> McpFailed(c)
    [] v = "ok" -> MarkMcpReady(c)

OnPreferenceResult(h, id, m, v) ==
  LET c == Dropped(h, id) IN
  IF CurrentEntry(h, id, m) = {} THEN c
  ELSE LET e == CHOOSE e \in CurrentEntry(h, id, m) : TRUE
       IN IF v = "refused" THEN PreferenceRefused(c, e)
          ELSE IF m = "model"
          THEN RequestPreference(IF e.persist THEN [c EXCEPT !.saved = e.route] ELSE c, "effort")
          ELSE FinishPreferences(c, TRUE, "ready")

\* A session answer is taken whichever request it answers.
OnSessionResult(h, s) ==
  BeginPreferences([h EXCEPT !.sess = 0, !.runtime = s, !.stored = s, !.opening = "done"])

OnRpcResult(h, id, m, v, s) ==
  IF m \in McpMethod THEN IF id = h.mcpReq THEN OnMcpResult(h, m, v) ELSE h
  ELSE IF m = "reload" THEN IF id = h.reloadReq THEN OnReloadResult(h, v) ELSE h
  ELSE IF m \in {"create", "resume"} THEN OnSessionResult(h, s)
  ELSE IF m \in {"model", "effort"} THEN OnPreferenceResult(h, id, m, v)
  ELSE h

-----------------------------------------------------------------------------
(* Connection changes.                                                      *)

\* _reject_all: every pending request fails, in the order they were made,
\* before the client's state changes.
RejectAll(h) ==
  LET after[n \in 0..Len(h.pend)] ==
        IF n = 0 THEN [h EXCEPT !.pend = <<>>]
        ELSE OnRpcError(after[n - 1], h.pend[n].id, h.pend[n].m)
  IN  after[Len(h.pend)]

OnConnection(h) ==
  IF h.conn # "connected"
  THEN LET c == [h EXCEPT !.sess = 0] IN
       IF c.mcp = "reloading" THEN [c EXCEPT !.reloadReq = 0, !.mcp = "degraded"] ELSE c
  ELSE LET c == [h EXCEPT !.opening = "due"] IN
       IF SelfMcp /\ c.mcp # "ready" THEN EnsureMcp(c) ELSE CreateOrResumeSession(c)

SetState(h, v) == IF v = h.conn THEN h ELSE OnConnection([h EXCEPT !.conn = v])

OnTransportState(h, v) ==
  SetState(IF v \in {"reconnecting", "offline"} /\ h.conn = "connected" THEN RejectAll(h) ELSE h, v)

OnTransportError(h) == IF h.conn = "reconnecting" THEN h ELSE SetState(h, "error")

Note(v) == [t |-> "state", v |-> v, id |-> 0, s |-> 0]
Fault == [t |-> "error", v |-> "error", id |-> 0, s |-> 0]

\* The replies still on a socket are lost with it: the queue keeps some
\* prefix that holds every notification and every reply already read.
Kept == {SubSeq(signals, 1, k) : k \in {j \in 0..Len(signals) :
           \A i \in (j + 1)..Len(signals) : signals[i].t = "reply"}}

\* worker.stop: an open socket is polled every 80 ms, so its thread ends and
\* posts "offline" before stop returns; one that dials may outlast the join.
StopWorker(tail) ==
  \/ sock = "none" /\ late' = late /\ signals' = signals \o tail
  \/ /\ sock # "none" /\ late' = late
     /\ \E kept \in Kept : signals' = kept \o <<Note("offline")>> \o tail
  \/ /\ sock = "dialing" /\ SlowDial /\ late = "no"
     /\ late' = "dialing" /\ signals' = signals \o tail

\* History: stopping the worker now leaves notifications of it to be handled
\* later, by a client that has moved on.
LeavesNotes == sock # "none" /\ (signals # <<>> \/ (sock = "dialing" /\ SlowDial))

-----------------------------------------------------------------------------
(* Steps of the Qt thread that the controller starts.                       *)

Spend(f) == left[f] > 0 /\ left' = [left EXCEPT ![f] = @ - 1]

\* connectTo: the frames in the old worker's queue go with it; pending
\* requests stay.
ConnectTo ==
  /\ IF hal.link THEN Spend("trouble") ELSE UNCHANGED left
  /\ StopWorker(<<Note("connecting")>>) /\ sock' = "dialing"
  /\ hal' = SetState([hal EXCEPT !.link = TRUE, !.url = TRUE, !.out = <<>>,
                                 !.stale = @ \/ LeavesNotes], "connecting")
  /\ UNCHANGED <<gate, server, escaped>>

\* start of a service that uses a remote gateway.
Start == hal.conn \notin {"connected", "connecting"} /\ ConnectTo

\* reconnect, once the address is known.
Reconnect == hal.url /\ ConnectTo

\* stop: the workflow, the queue and the MCP stage are reset, then the client
\* closes, which rejects what is pending without a worker.
Stop ==
  LET r == [Undelivered(hal) EXCEPT !.flow = {}, !.prefPending = FALSE, !.prefFailed = FALSE,
              !.prefState = "unconfigured", !.mcp = "idle", !.mcpReq = 0, !.reloadReq = 0,
              !.sess = 0, !.retry = FALSE, !.link = FALSE, !.out = <<>>,
              !.stale = @ \/ LeavesNotes]
  IN /\ hal.link
     /\ StopWorker(<<>>) /\ sock' = "none"
     /\ hal' = SetState(RejectAll(r), "offline")
     /\ Spend("trouble") /\ UNCHANGED <<gate, server, escaped>>

\* Stutter on everything but hal.
Quiet == UNCHANGED <<signals, sock, late, gate, server, escaped>>

Submit(p) ==
  /\ hal.fate[p] \in {"new", "queued"}
  /\ hal' = SendPrompt(hal, p)
  /\ Quiet /\ UNCHANGED left

\* cancel: the queued prompt goes; the interrupt itself changes no state here.
Cancel ==
  /\ hal.queued # NoPrompt
  /\ hal' = Undelivered(hal)
  /\ Quiet /\ UNCHANGED left

CanSet == hal.runtime # 0 /\ hal.conn = "connected"

\* The user's choice of a model, to be saved once Hermes has accepted it.
SwitchModel(m) ==
  /\ CanSet /\ Spend("route")
  /\ hal' = BeginPreferences([hal EXCEPT !.desired = m, !.persist = TRUE,
                                         !.chosen = @ \cup {m}])
  /\ Quiet

\* The route the router picked for a turn; nothing to do if it is in place.
EnsureRoute(m, fallback) ==
  LET r == [hal EXCEPT !.desired = m, !.persist = FALSE, !.fallback = fallback]
  IN /\ ~ (m = hal.desired /\ fallback = hal.fallback
           /\ hal.prefState \in {"ready", "applying"})
     /\ Spend("route")
     /\ hal' = IF CanSet THEN BeginPreferences(r) ELSE r
     /\ Quiet

\* setReasoning of a supported effort, and of one that is not supported.
SetReasoning(supported) ==
  /\ supported => CanSet
  /\ Spend("route")
  /\ hal' = IF supported THEN BeginPreferences(hal) ELSE FailPreferences(NextGeneration(hal))
  /\ Quiet

-----------------------------------------------------------------------------
(* Steps of the Qt thread that a signal or a timer starts.                  *)

OnReply(h, r) ==
  LET k == {i \in DOMAIN h.pend : h.pend[i].id = r.id} IN
  IF k = {} THEN h
  ELSE LET i == CHOOSE i \in k : TRUE
           p == [h EXCEPT !.pend = RemoveAt(@, i)]
       IN IF r.v = "error" THEN OnRpcError(p, r.id, h.pend[i].m)
          ELSE OnRpcResult(p, r.id, h.pend[i].m, r.v, r.s)

Deliver ==
  /\ signals # <<>>
  /\ signals' = Tail(signals)
  /\ hal' = LET e == Head(signals) IN
            CASE e.t = "state" -> OnTransportState(hal, e.v)
              [] e.t = "error" -> OnTransportError(hal)
              [] e.t = "reply" -> OnReply(hal, e)
  /\ UNCHANGED <<sock, late, gate, server, escaped, left>>

\* No answer to this request is on its way any more.
Unanswered(id) == /\ \A i \in DOMAIN hal.out : hal.out[i].id # id
                  /\ \A i \in DOMAIN signals : signals[i].id # id

\* A request's timer: early at most MaxTimeout times.
Timeout(i) ==
  /\ IF Unanswered(hal.pend[i].id) THEN UNCHANGED left ELSE Spend("trouble")
  /\ hal' = OnRpcError([hal EXCEPT !.pend = RemoveAt(@, i)], hal.pend[i].id, hal.pend[i].m)
  /\ Quiet

RetryMcp ==
  LET c == [hal EXCEPT !.retry = FALSE] IN
  /\ hal.retry
  /\ hal' = IF hal.conn = "connected" THEN EnsureMcp([c EXCEPT !.mcp = "retrying"]) ELSE c
  /\ Quiet /\ UNCHANGED left

-----------------------------------------------------------------------------
(* The worker thread and Hermes.                                            *)

Dialed ==
  /\ sock = "dialing"
  /\ sock' = "open" /\ signals' = Append(signals, Note("connected"))
  /\ UNCHANGED <<hal, late, gate, server, escaped, left>>

DialFails ==
  /\ sock = "dialing" /\ Spend("trouble")
  /\ signals' = signals \o <<Fault, Note("reconnecting")>>
  /\ UNCHANGED <<hal, sock, late, gate, server, escaped>>

\* The socket closes under recv, or send raises, which is reported first.
SocketDrops(raised) ==
  /\ sock = "open" /\ Spend("trouble")
  /\ sock' = "dialing"
  /\ \E kept \in Kept :
       signals' = kept \o (IF raised THEN <<Fault>> ELSE <<>>) \o <<Note("reconnecting")>>
  /\ UNCHANGED <<hal, late, gate, server, escaped>>

\* A stopped worker whose dial ends at last: a connection it got is announced
\* and closed.
LateDial(connected) ==
  /\ late = "dialing"
  /\ late' = IF connected THEN "closing" ELSE "no"
  /\ signals' = Append(signals, Note(IF connected THEN "connected" ELSE "offline"))
  /\ UNCHANGED <<hal, sock, gate, server, escaped, left>>

LateClose ==
  /\ late = "closing"
  /\ late' = "no" /\ signals' = Append(signals, Note("offline"))
  /\ UNCHANGED <<hal, sock, gate, server, escaped, left>>

FreshSession ==
  CHOOSE s \in Sessions : s \notin ({hal.runtime, hal.stored}
    \cup {hal.out[i].s : i \in DOMAIN hal.out}
    \cup {hal.out[i].arg : i \in {j \in DOMAIN hal.out : hal.out[j].m = "resume"}}
    \cup {signals[i].s : i \in DOMAIN signals})

\* What Hermes may answer, the session it answers for, and the routes it is
\* left with; a resumed session may have lost its route.
Answers(m) ==
  CASE m = "list" -> {server}
    [] m = "reload" -> {"ok"} \cup (IF AskConfirm THEN {"confirm"} ELSE {})
    [] OTHER -> {"ok"}
Refusals(m) == {"error"} \cup (IF m \in {"test", "reload", "model", "effort"}
                               THEN {"refused"} ELSE {})

SessionOf(f) == CASE f.m = "create" -> FreshSession [] f.m = "resume" -> f.arg [] OTHER -> f.s

Routes(f, v) ==
  LET s == SessionOf(f) IN
  CASE v = "ok" /\ f.m = "create" -> {[gate EXCEPT ![s] = Default]}
    [] v = "ok" /\ f.m = "resume" -> {gate, [gate EXCEPT ![s] = Default]}
    [] v = "ok" /\ f.m = "model" -> {[gate EXCEPT ![s] = f.arg]}
    [] OTHER -> {gate}

Serve(v) ==
  LET f == Head(hal.out) IN
  /\ sock = "open" /\ hal.out # <<>>
  /\ \/ v \in Answers(f.m) /\ UNCHANGED left
     \/ v \in Refusals(f.m) /\ Spend("trouble")
  /\ hal' = [hal EXCEPT !.out = Tail(@)]
  /\ signals' = Append(signals, [t |-> "reply", v |-> v, id |-> f.id, s |-> SessionOf(f)])
  /\ gate' \in Routes(f, v)
  /\ server' = IF v # "ok" THEN server ELSE CASE f.m = "remove" -> "absent" [] f.m = "add" -> "match" [] OTHER -> server
  /\ escaped' = (escaped \/ (f.m = "prompt" /\ v = "ok" /\ f.arg.settled
                             /\ gate[f.s] \notin f.arg.need))
  /\ UNCHANGED <<sock, late>>

-----------------------------------------------------------------------------
Init ==
  /\ hal = [conn |-> "offline", link |-> FALSE, url |-> FALSE, pend |-> <<>>, out |-> <<>>,
            sess |-> 0, runtime |-> 0, stored |-> Resumable, queued |-> NoPrompt, flow |-> {},
            prefPending |-> FALSE, prefFailed |-> FALSE, prefState |-> "unconfigured",
            desired |-> Default, persist |-> TRUE, fallback |-> TRUE, saved |-> Default,
            mcp |-> "idle", mcpReq |-> 0, reloadReq |-> 0, retry |-> FALSE,
            fate |-> [p \in Prompt |-> "new"], chosen |-> {Default},
            opening |-> "no", stale |-> FALSE]
  /\ signals = <<>> /\ sock = "none" /\ late = "no"
  /\ gate = [s \in Sessions |-> Default] /\ escaped = FALSE
  /\ server = Registered
  /\ left = [trouble |-> MaxTrouble, route |-> MaxRoute]

Verdict == {"ok", "absent", "match", "differs", "confirm", "error", "refused"}

WorkerNext == Dialed \/ DialFails \/ (\E b \in BOOLEAN : SocketDrops(b) \/ LateDial(b))
              \/ LateClose \/ \E v \in Verdict : Serve(v)

Next ==
  \/ Start \/ Reconnect \/ Stop \/ Cancel
  \/ \E p \in Prompt : Submit(p)
  \/ \E m \in Model : SwitchModel(m) \/ \E b \in BOOLEAN : EnsureRoute(m, b)
  \/ \E b \in BOOLEAN : SetReasoning(b)
  \/ Deliver \/ RetryMcp \/ (\E i \in DOMAIN hal.pend : Timeout(i))
  \/ WorkerNext

Spec == Init /\ [][Next]_vars

-----------------------------------------------------------------------------
\* Values of the variables; no two pending requests share an id, so an answer
\* settles one request (client.py: request, _on_message).
TypeOK ==
  /\ hal.conn \in {"offline", "connecting", "connected", "reconnecting", "error"}
  /\ hal.mcp \in Stage /\ hal.fate \in [Prompt -> Fate]
  /\ hal.queued \in Prompt \cup {NoPrompt} /\ hal.desired \in Model /\ hal.saved \in Model
  /\ hal.runtime \in Sessions \cup {0} /\ hal.stored \in Sessions \cup {0}
  /\ UsedIds(hal) \subseteq Ids \cup {0}
  /\ IsInjective([i \in DOMAIN hal.pend |-> hal.pend[i].id])
  /\ sock \in {"none", "dialing", "open"} /\ late \in {"no", "dialing", "closing"}
  /\ server \in {"absent", "match", "differs"}

\* A prompt is never lost in silence: one that sendPrompt accepted waits in
\* the one-place queue, or was submitted or reported (sendPrompt, cancel, stop,
\* _finish_session_preferences), whatever connection changes came between.
PromptAccounted ==
  TypeOK /\ \A p \in Prompt : hal.fate[p] = "queued" <=> hal.queued = p

\* Whatever the service waits for, a pending request of the current generation
\* will end the wait: the preference workflow, which holds prompts back, and
\* each stage of the MCP registration.  Holds as long as no worker was stopped
\* with notifications still queued (hal.stale).
WaitsOnRequest ==
  ~hal.stale =>
    /\ hal.prefPending => \E f \in hal.flow : f.cur /\ f.id \in PendIds
    /\ hal.mcp \in {"listing", "removing", "adding", "testing"} => hal.mcpReq \in PendIds
    /\ hal.mcp = "reloading" => hal.reloadReq \in PendIds

\* A prompt of a turn that forbids Hermes' fallback runs on the required route
\* or not at all, once the session of the connection is open: refusals, late
\* answers of older workflows and lost answers included.
RequiredRoute == ~escaped

\* Only a model the user picked is ever saved as the default: automatic routes
\* and their late answers do not change it (_on_rpc_result of config.set).
ManualSticky == hal.saved \in hal.chosen

\* Routes do not leak: neither into a turn that requires another one, nor into
\* the settings.
RouteKept == RequiredRoute /\ ManualSticky

\* Nothing more happens by itself: no queued signal, no dial, no timer that is
\* due, no frame on its way.
Quiescent ==
  /\ signals = <<>> /\ late = "no" /\ sock # "dialing" /\ ~hal.retry
  /\ sock = "open" => hal.out = <<>>
  /\ \A i \in DOMAIN hal.pend : ~Unanswered(hal.pend[i].id)

\* Trouble with the MCP server does not keep the chat without a session: when
\* a connected service has come to rest it has one, unless Hermes refused it
\* or waits for the user to confirm the reload: _ensure_self_mcp does nothing
\* in that stage, so a connection made then asks for no session.
SessionOpens ==
  Quiescent /\ hal.conn = "connected" /\ ~hal.stale =>
    hal.runtime # 0 \/ hal.opening = "failed" \/ hal.mcp = "approval"
=============================================================================
