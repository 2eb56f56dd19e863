---------------------------- MODULE HermesProofs ----------------------------
(***************************************************************************)
(* Proofs about Hermes: types, that no accepted prompt disappears, that    *)
(* routes do not leak, that every wait has a pending request that will end *)
(* it, and that a connected service at rest has a session.                 *)
(*                                                                         *)
(* Request ids count up (client.py:195) and Hermes names its own sessions, *)
(* so neither runs out: the theorems assume Unbounded, two infinite sets.  *)
(*                                                                         *)
(* Orderly is what holds of the tables and queues between any two steps.   *)
(* A handler passes its h through several methods, so what a method needs  *)
(* and what it keeps is a lemma about any h (Sound), and a step composes   *)
(* them.  Steady adds what a worker that was never stopped over unread     *)
(* notifications gives: the queue tells the Qt thread of every change of   *)
(* its socket (Informed), so every wait has its request (Attends).         *)
(* RejectAll is a recursive function; RejectAllIs gives its values one     *)
(* rejection after the other, and the proofs go by induction on them.      *)
(***************************************************************************)
EXTENDS Hermes, SequenceTheorems, FiniteSetTheorems, WellFoundedInduction, TLAPS

Conn == {"offline", "connecting", "connected", "reconnecting", "error"}
Id0 == Ids \cup {0}
Session0 == Sessions \cup {0}
Entry == [id : Ids, m : Method]
Want == [need : SUBSET Model, settled : BOOLEAN]
\* The argument of a frame: a route, a session to resume, what a prompt needs.
ArgOf(m) == CASE m \in {"model", "effort"} -> Model
              [] m = "resume" -> Sessions
              [] m = "prompt" -> Want
              [] OTHER -> {0}
Frame == {f \in [id : Ids, m : Method, s : Session0, arg : Model \cup Session0 \cup Want] :
            f.arg \in ArgOf(f.m)}
Preference == [id : Ids, m : {"model", "effort"}, route : Model, cur : BOOLEAN,
               persist : BOOLEAN, fallback : BOOLEAN]
Flows == {F \in SUBSET Preference : IsFiniteSet(F)}

Hal == [conn : Conn, link : BOOLEAN, url : BOOLEAN, pend : Seq(Entry), out : Seq(Frame),
        sess : Id0, runtime : Session0, stored : Session0, queued : Prompt \cup {NoPrompt},
        flow : Flows, prefPending : BOOLEAN, prefFailed : BOOLEAN,
        prefState : {"unconfigured", "applying", "ready", "retryable", "failed"},
        desired : Model, persist : BOOLEAN, fallback : BOOLEAN, saved : Model,
        mcp : Stage, mcpReq : Id0, reloadReq : Id0, retry : BOOLEAN,
        fate : [Prompt -> Fate], chosen : SUBSET Model,
        opening : {"no", "due", "done", "failed"}, stale : BOOLEAN]

Reply == [t : {"reply"}, v : Verdict, id : Ids, s : Session0]
Signal == {Note(v) : v \in Conn} \cup {Fault} \cup Reply

\* What the ids are taken from never runs out: request ids count up, and
\* Hermes names its sessions itself.
Unbounded == ~IsFiniteSet(Ids) /\ ~IsFiniteSet(Sessions)

Working(h) == h \in Hal /\ hal \in Hal /\ signals \in Seq(Signal) /\ Unbounded

-----------------------------------------------------------------------------
\* A set of numbers has a least one.
LEMMA LeastOf ==
  ASSUME NEW S \in SUBSET Nat, S # {}
  PROVE  \E d \in S : \A c \in S : d <= c
<1> DEFINE Less == {p \in Nat \X Nat : p[1] < p[2]}
<1>1. IsWellFoundedOn(Less, Nat)
  BY NatLessThanWellFounded DEF OpToRel
<1>2. PICK d \in S : \A c \in S : <<c, d>> \notin Less
  <2> HIDE DEF Less
  <2> QED BY <1>1, WFMin
<1>3. \A a, b \in Nat : <<a, b>> \in Less <=> a < b
  OBVIOUS
<1> HIDE DEF Less
<1>4. ASSUME NEW c \in S PROVE d <= c
  <2>1. c \in Nat /\ d \in Nat
    OBVIOUS
  <2>2. ~(c < d)
    BY <1>2, <1>3, <2>1
  <2> QED BY <2>1, <2>2
<1> QED
  BY <1>4

\* The ids that a sequence mentions are finitely many.
LEMMA FiniteIds ==
  ASSUME NEW T, NEW s \in Seq(T)
  PROVE  IsFiniteSet({s[i].id : i \in DOMAIN s})
<1> DEFINE f == [i \in 1..Len(s) |-> s[i].id]
<1>1. f \in Surjection(1..Len(s), {s[i].id : i \in DOMAIN s})
  BY DEF Surjection
<1>2. IsFiniteSet(1..Len(s))
  BY FS_Interval
<1> QED
  BY <1>1, <1>2, FS_Surjection

LEMMA FiniteSessions ==
  ASSUME NEW T, NEW s \in Seq(T)
  PROVE  IsFiniteSet({s[i].s : i \in DOMAIN s})
<1> DEFINE f == [i \in 1..Len(s) |-> s[i].s]
<1>1. f \in Surjection(1..Len(s), {s[i].s : i \in DOMAIN s})
  BY DEF Surjection
<1>2. IsFiniteSet(1..Len(s))
  BY FS_Interval
<1> QED
  BY <1>1, <1>2, FS_Surjection

\* An infinite set of numbers has a least one outside a finite set.
LEMMA LeastUnused ==
  ASSUME NEW S \in SUBSET Nat, ~IsFiniteSet(S), NEW T, IsFiniteSet(T)
  PROVE  \E n \in S : n \notin T /\ \A k \in S \ T : n <= k
<1>1. S \ T # {}
  <2> SUFFICES ASSUME S \ T = {} PROVE FALSE
    OBVIOUS
  <2>1. S \in SUBSET T
    OBVIOUS
  <2> QED BY <2>1, FS_Subset
<1>2. S \ T \in SUBSET Nat
  OBVIOUS
<1> QED
  BY <1>1, <1>2, LeastOf

\* A new request has an id that nothing mentions.
LEMMA Fresh ==
  ASSUME NEW h, Working(h)
  PROVE  FreshId(h) \in Ids /\ FreshId(h) \notin UsedIds(h)
<1>1. IsFiniteSet(UsedIds(h))
  <2>1. IsFiniteSet({h.pend[i].id : i \in DOMAIN h.pend})
        /\ IsFiniteSet({h.out[i].id : i \in DOMAIN h.out})
        /\ IsFiniteSet({signals[i].id : i \in DOMAIN signals})
        /\ IsFiniteSet(PendIds)
    <3>1. h.pend \in Seq(Entry) /\ h.out \in Seq(Frame) /\ signals \in Seq(Signal)
          /\ hal.pend \in Seq(Entry)
      BY DEF Working, Hal
    <3>2. IsFiniteSet({h.pend[i].id : i \in DOMAIN h.pend})
      BY <3>1, FiniteIds
    <3>3. IsFiniteSet({h.out[i].id : i \in DOMAIN h.out})
      BY <3>1, FiniteIds
    <3>4. IsFiniteSet({signals[i].id : i \in DOMAIN signals})
      BY <3>1, FiniteIds
    <3>5. IsFiniteSet(PendIds)
      BY <3>1, FiniteIds DEF PendIds
    <3> QED BY <3>2, <3>3, <3>4, <3>5
  <2>2. IsFiniteSet({f.id : f \in h.flow})
    <3> DEFINE g == [f \in h.flow |-> f.id]
    <3>1. g \in Surjection(h.flow, {f.id : f \in h.flow})
      BY DEF Surjection
    <3>2. IsFiniteSet(h.flow)
      BY DEF Working, Hal, Flows
    <3> HIDE DEF g
    <3> QED BY <3>1, <3>2, FS_Surjection
  <2>3. IsFiniteSet({h.mcpReq, h.reloadReq, h.sess})
    <3>1. {h.mcpReq, h.reloadReq, h.sess} = ({h.mcpReq} \cup {h.reloadReq}) \cup {h.sess}
      OBVIOUS
    <3>2. IsFiniteSet({h.mcpReq})
      BY FS_Singleton
    <3>3. IsFiniteSet({h.mcpReq} \cup {h.reloadReq})
      BY <3>2, FS_AddElement
    <3>4. IsFiniteSet(({h.mcpReq} \cup {h.reloadReq}) \cup {h.sess})
      BY <3>3, FS_AddElement
    <3> QED BY <3>1, <3>4
  <2> QED BY <2>1, <2>2, <2>3, FS_Union DEF UsedIds
<1>2. Ids \in SUBSET Nat /\ ~IsFiniteSet(Ids)
  BY HermesAssumption DEF Working, Unbounded
<1>3. \E n \in Ids : n \notin UsedIds(h) /\ \A k \in Ids \ UsedIds(h) : n <= k
  BY <1>1, <1>2, LeastUnused
<1> QED
  BY <1>3 DEF FreshId

-----------------------------------------------------------------------------
(* Types.                                                                   *)

LEMMA PostedType ==
  ASSUME NEW h, Working(h), NEW m \in Method, NEW arg \in ArgOf(m)
  PROVE  Working(Posted(h, m, arg))
<1> DEFINE n == FreshId(h)
           e == [id |-> n, m |-> m]
           f == [id |-> n, m |-> m, s |-> h.runtime, arg |-> arg]
<1>1. n \in Ids
  BY Fresh
<1> HIDE DEF n
<1>2. e \in Entry
  BY <1>1 DEF Entry
<1>3. f \in Frame
  <2>1. h.runtime \in Session0
    BY DEF Working, Hal
  <2>2. arg \in Model \cup Session0 \cup Want
    <3>1. ArgOf(m) \in {Model, Sessions, Want, {0}}
      BY Zenon DEF ArgOf
    <3> QED BY <3>1 DEF Session0
  <2> QED BY <1>1, <2>1, <2>2 DEF Frame
<1>4. Posted(h, m, arg) = [h EXCEPT !.pend = Append(h.pend, e), !.out = Append(h.out, f)]
  BY DEF Posted, n
<1> HIDE DEF e, f
<1>5. Append(h.pend, e) \in Seq(Entry) /\ Append(h.out, f) \in Seq(Frame)
  BY <1>2, <1>3, AppendProperties DEF Working, Hal
<1> QED
  BY ZenonT(40), <1>4, <1>5 DEF Working, Hal

LEMMA SubmitPromptType ==
  ASSUME NEW h, Working(h), NEW p \in Prompt
  PROVE  Working(SubmitPrompt(h, p))
<1> DEFINE want == [need |-> Required(h), settled |-> h.opening = "done"]
<1>1. want \in ArgOf("prompt")
  <2>1. Required(h) \in SUBSET Model
    BY DEF Required, Working, Hal
  <2>2. ArgOf("prompt") = Want
    BY DEF ArgOf
  <2> QED BY <2>1, <2>2 DEF Want
<1> HIDE DEF want
<1>2. Working(Posted(h, "prompt", want))
  BY <1>1, PostedType DEF Method
<1>3. \A k : Working(k) => Working([k EXCEPT !.fate[p] = "settled"])
  BY ZenonT(40) DEF Working, Hal, Fate
<1> QED
  BY <1>2, <1>3 DEF SubmitPrompt, want

LEMMA CreateOrResumeType ==
  ASSUME NEW h, Working(h)
  PROVE  Working(CreateOrResumeSession(h))
<1> DEFINE m == IF h.stored # 0 THEN "resume" ELSE "create"
<1>1. m \in Method /\ h.stored \in ArgOf(m)
  BY DEF Method, ArgOf, Working, Hal, Session0
<1> HIDE DEF m
<1>2. Working(Posted(h, m, h.stored))
  BY <1>1, PostedType
<1>3. FreshId(h) \in Id0
  BY Fresh DEF Id0
<1>4. Working([Posted(h, m, h.stored) EXCEPT !.sess = FreshId(h)])
  BY <1>2, <1>3 DEF Working, Hal
<1>5. Working([h EXCEPT !.stored = 0, !.runtime = 0])
  BY DEF Working, Hal, Session0
<1> QED
  BY <1>4, <1>5 DEF CreateOrResumeSession, m

LEMMA UndeliveredType ==
  ASSUME NEW h, Working(h)
  PROVE  Working(Undelivered(h))
<1>1. CASE h.queued = NoPrompt
  BY <1>1 DEF Undelivered
<1>2. CASE h.queued # NoPrompt
  BY <1>2 DEF Undelivered, Working, Hal, Fate
<1> QED
  BY <1>1, <1>2

LEMMA SendPromptType ==
  ASSUME NEW h, Working(h), NEW p \in Prompt
  PROVE  Working(SendPrompt(h, p))
<1> DEFINE q == [(IF h.queued = p THEN h ELSE Undelivered(h))
                   EXCEPT !.queued = p, !.fate[p] = "queued"]
<1>1. Working(q)
  <2>1. \A k : Working(k) => Working([k EXCEPT !.queued = p, !.fate[p] = "queued"])
    BY ZenonT(40) DEF Working, Hal, Fate
  <2> QED BY <2>1, UndeliveredType
<1> HIDE DEF q
<1>2. Working(CreateOrResumeSession(q))
  BY <1>1, CreateOrResumeType
<1>3. Working([h EXCEPT !.fate[p] = "settled"])
  BY DEF Working, Hal, Fate
<1> QED
  BY <1>1, <1>2, <1>3, SubmitPromptType DEF SendPrompt, q

PrefState == {"unconfigured", "applying", "ready", "retryable", "failed"}

LEMMA FinishPreferencesType ==
  ASSUME NEW h, Working(h), NEW deliver \in BOOLEAN, NEW state \in PrefState
  PROVE  Working(FinishPreferences(h, deliver, state))
<1> DEFINE d == [h EXCEPT !.prefPending = FALSE, !.prefFailed = ~deliver, !.prefState = state]
<1>1. Working(d)
  <2>1. Working([h EXCEPT !.prefPending = FALSE, !.prefFailed = TRUE, !.prefState = state])
        /\ Working([h EXCEPT !.prefPending = FALSE, !.prefFailed = FALSE, !.prefState = state])
    BY ZenonT(40) DEF Working, Hal, PrefState
  <2>2. CASE deliver = TRUE
    BY <2>1, <2>2
  <2>3. CASE deliver = FALSE
    BY <2>1, <2>3
  <2> QED BY <2>2, <2>3
<1>2. d.queued = h.queued
  BY DEF Working, Hal
<1> HIDE DEF d
<1>3. Working([d EXCEPT !.queued = NoPrompt])
  BY <1>1 DEF Working, Hal
<1>4. h.queued # NoPrompt => h.queued \in Prompt
  BY DEF Working, Hal
<1> QED
  BY <1>1, <1>3, <1>4, SendPromptType, UndeliveredType DEF FinishPreferences, d

LEMMA FailPreferencesType ==
  ASSUME NEW h, Working(h)
  PROVE  Working(FailPreferences(h))
BY FinishPreferencesType DEF FailPreferences, PrefState

LEMMA NextGenerationType ==
  ASSUME NEW h, Working(h)
  PROVE  Working(NextGeneration(h))
<1> DEFINE old == {[f EXCEPT !.cur = FALSE] : f \in h.flow}
           g == [f \in h.flow |-> [f EXCEPT !.cur = FALSE]]
<1>1. old \in SUBSET Preference
  <2>1. h.flow \in SUBSET Preference
    BY DEF Working, Hal, Flows
  <2>2. \A f \in Preference : [f EXCEPT !.cur = FALSE] \in Preference
    BY DEF Preference
  <2> QED BY <2>1, <2>2
<1>2. IsFiniteSet(old)
  <2>1. g \in Surjection(h.flow, old)
    BY DEF Surjection
  <2>2. IsFiniteSet(h.flow)
    BY DEF Working, Hal, Flows
  <2> HIDE DEF g, old
  <2> QED BY <2>1, <2>2, FS_Surjection
<1>3. NextGeneration(h) = [h EXCEPT !.flow = old]
  BY DEF NextGeneration
<1> HIDE DEF old
<1> QED
  BY ZenonT(40), <1>1, <1>2, <1>3 DEF Working, Hal, Flows

LEMMA RequestPreferenceType ==
  ASSUME NEW h, Working(h), NEW m \in {"model", "effort"}
  PROVE  Working(RequestPreference(h, m))
<1> DEFINE e == [id |-> FreshId(h), m |-> m, route |-> h.desired, cur |-> TRUE,
                 persist |-> h.persist, fallback |-> h.fallback]
           r == IF Usable(h) THEN Posted(h, m, h.desired) ELSE h
<1>1. e \in Preference
  BY Fresh DEF Preference, Working, Hal
<1>2. Working(r)
  <2>1. m \in Method /\ ArgOf(m) = Model /\ h.desired \in Model
    BY DEF Method, ArgOf, Working, Hal
  <2> QED BY <2>1, PostedType
<1>3. RequestPreference(h, m) = [r EXCEPT !.flow = r.flow \cup {e}]
  BY DEF RequestPreference
<1> HIDE DEF e, r
<1>4. r.flow \cup {e} \in Flows
  <2>1. r.flow \in SUBSET Preference /\ IsFiniteSet(r.flow)
    BY <1>2 DEF Working, Hal, Flows
  <2>2. IsFiniteSet(r.flow \cup {e})
    BY <2>1, FS_AddElement
  <2> QED BY <2>1, <2>2, <1>1 DEF Flows
<1> QED
  BY ZenonT(40), <1>2, <1>3, <1>4 DEF Working, Hal

LEMMA BeginPreferencesType ==
  ASSUME NEW h, Working(h)
  PROVE  Working(BeginPreferences(h))
<1> DEFINE g == [NextGeneration(h) EXCEPT !.prefPending = TRUE, !.prefFailed = FALSE,
                                          !.prefState = "applying"]
<1>1. Working(g)
  <2>1. \A k : Working(k) => Working([k EXCEPT !.prefPending = TRUE, !.prefFailed = FALSE,
                                               !.prefState = "applying"])
    BY ZenonT(40) DEF Working, Hal
  <2> QED BY <2>1, NextGenerationType
<1> HIDE DEF g
<1> QED
  BY <1>1, FailPreferencesType, RequestPreferenceType DEF BeginPreferences, g

LEMMA PreferenceRefusedType ==
  ASSUME NEW h, Working(h), NEW e
  PROVE  Working(PreferenceRefused(h, e))
BY FailPreferencesType, FinishPreferencesType DEF PreferenceRefused, PrefState

LEMMA RequestMcpType ==
  ASSUME NEW h, Working(h), NEW m \in McpMethod, NEW stage \in Stage
  PROVE  Working(RequestMcp(h, m, stage))
<1> DEFINE r == IF Usable(h) THEN Posted(h, m, 0) ELSE h
<1>1. Working(r)
  <2>1. m \in Method /\ 0 \in ArgOf(m)
    BY DEF Method, ArgOf, McpMethod
  <2> QED BY <2>1, PostedType
<1>2. FreshId(h) \in Id0
  BY Fresh DEF Id0
<1>3. RequestMcp(h, m, stage) = [r EXCEPT !.mcp = stage, !.mcpReq = FreshId(h)]
  BY DEF RequestMcp
<1> HIDE DEF r
<1> QED
  BY ZenonT(40), <1>1, <1>2, <1>3 DEF Working, Hal

LEMMA EnsureMcpType ==
  ASSUME NEW h, Working(h)
  PROVE  Working(EnsureMcp(h))
BY RequestMcpType DEF EnsureMcp, McpMethod, Stage

LEMMA MarkMcpReadyType ==
  ASSUME NEW h, Working(h)
  PROVE  Working(MarkMcpReady(h))
<1>1. 0 \in Id0 /\ "ready" \in Stage
  BY DEF Id0, Stage
<1> QED
  BY <1>1 DEF MarkMcpReady, Working, Hal

LEMMA FinishMcpSetupType ==
  ASSUME NEW h, Working(h)
  PROVE  Working(FinishMcpSetup(h))
<1> DEFINE d == [h EXCEPT !.mcpReq = 0, !.retry = FALSE]
           r == IF Usable(d) THEN Posted(d, "reload", 0) ELSE d
<1>1. Working(d)
  BY ZenonT(40) DEF Working, Hal, Id0
<1> HIDE DEF d
<1>2. Working(r)
  <2>1. "reload" \in Method /\ 0 \in ArgOf("reload")
    BY DEF Method, ArgOf
  <2> QED BY <1>1, <2>1, PostedType
<1>3. FreshId(d) \in Id0
  BY <1>1, Fresh DEF Id0
<1>4. FinishMcpSetup(h) = IF h.runtime # 0
                          THEN [r EXCEPT !.mcp = "reloading", !.reloadReq = FreshId(d)]
                          ELSE CreateOrResumeSession(MarkMcpReady(d))
  BY DEF FinishMcpSetup, d
<1> HIDE DEF r
<1>5. Working([r EXCEPT !.mcp = "reloading", !.reloadReq = FreshId(d)])
  BY ZenonT(40), <1>2, <1>3 DEF Working, Hal, Stage
<1> QED
  BY <1>1, <1>4, <1>5, MarkMcpReadyType, CreateOrResumeType

LEMMA McpFailedType ==
  ASSUME NEW h, Working(h)
  PROVE  Working(McpFailed(h))
<1> DEFINE d == [h EXCEPT !.mcp = "degraded", !.mcpReq = 0]
           s == IF d.runtime = 0 THEN CreateOrResumeSession(d) ELSE d
<1>1. Working(d)
  BY ZenonT(40) DEF Working, Hal, Id0, Stage
<1> HIDE DEF d
<1>2. Working(s)
  BY <1>1, CreateOrResumeType
<1>3. McpFailed(h) = IF s.conn = "connected" THEN [s EXCEPT !.retry = TRUE] ELSE s
  BY DEF McpFailed, d
<1> HIDE DEF s
<1>4. Working([s EXCEPT !.retry = TRUE])
  BY <1>2 DEF Working, Hal
<1> QED
  BY <1>2, <1>3, <1>4

LEMMA DroppedType ==
  ASSUME NEW h, Working(h), NEW id
  PROVE  Working(Dropped(h, id))
<1> DEFINE left1 == {f \in h.flow : f.id # id}
<1>1. left1 \in Flows
  <2>1. h.flow \in SUBSET Preference /\ IsFiniteSet(h.flow)
    BY DEF Working, Hal, Flows
  <2>2. left1 \in SUBSET h.flow
    OBVIOUS
  <2>3. IsFiniteSet(left1)
    BY <2>1, <2>2, FS_Subset
  <2> QED BY <2>1, <2>2, <2>3 DEF Flows
<1>2. Dropped(h, id) = [h EXCEPT !.flow = left1]
  BY DEF Dropped
<1> HIDE DEF left1
<1> QED
  BY ZenonT(40), <1>1, <1>2 DEF Working, Hal

\* What the handler of an error does first with the session.
NoSession(h, m) ==
  IF m \notin {"create", "resume"} THEN h
  ELSE [h EXCEPT !.sess = 0, !.opening = IF m = "create" THEN "failed" ELSE @]

LEMMA NoSessionType ==
  ASSUME NEW h, Working(h), NEW m
  PROVE  Working(NoSession(h, m))
<1>1. Working([h EXCEPT !.sess = 0, !.opening = "failed"])
  BY DEF Working, Hal, Id0
<1>2. Working([h EXCEPT !.sess = 0])
  BY DEF Working, Hal, Id0
<1>3. CASE m = "create"
  BY <1>1, <1>3 DEF NoSession
<1>4. CASE m = "resume"
  <2>1. NoSession(h, m) = [h EXCEPT !.sess = 0]
    BY <1>4 DEF NoSession, Working, Hal
  <2> QED BY <1>2, <2>1
<1>5. CASE m \notin {"create", "resume"}
  BY <1>5 DEF NoSession
<1> QED
  BY <1>3, <1>4, <1>5

LEMMA OnRpcErrorIs ==
  ASSUME NEW h, NEW id, NEW m
  PROVE  OnRpcError(h, id, m) =
           IF m \in McpMethod /\ id = h.mcpReq THEN McpFailed(h)
           ELSE IF m = "reload" /\ id = h.reloadReq THEN McpFailed([h EXCEPT !.reloadReq = 0])
           ELSE IF m = "resume" /\ NoSession(h, m).stored # 0
           THEN CreateOrResumeSession([NoSession(h, m) EXCEPT !.stored = 0, !.runtime = 0])
           ELSE IF m \in {"model", "effort"} /\ CurrentEntry(NoSession(h, m), id, m) # {}
           THEN PreferenceRefused(Dropped(NoSession(h, m), id),
                                  CHOOSE e \in CurrentEntry(NoSession(h, m), id, m) : TRUE)
           ELSE Dropped(NoSession(h, m), id)
BY DEF OnRpcError, NoSession

LEMMA OnRpcErrorType ==
  ASSUME NEW h, Working(h), NEW id, NEW m
  PROVE  Working(OnRpcError(h, id, m))
<1>1. Working([h EXCEPT !.reloadReq = 0])
  BY DEF Working, Hal, Id0
<1>2. Working(NoSession(h, m))
  BY NoSessionType
<1>3. Working([NoSession(h, m) EXCEPT !.stored = 0, !.runtime = 0])
  <2>1. \A k : Working(k) => Working([k EXCEPT !.stored = 0, !.runtime = 0])
    BY ZenonT(40) DEF Working, Hal, Session0
  <2> QED BY <1>2, <2>1
<1>4. Working(Dropped(NoSession(h, m), id))
  BY <1>2, DroppedType
<1> QED
  BY <1>1, <1>3, <1>4, OnRpcErrorIs, McpFailedType, CreateOrResumeType, PreferenceRefusedType

\* What Hermes can say to a request.
Verdicts(m) == (CASE m = "list" -> {"absent", "match", "differs"}
                  [] m = "reload" -> {"ok", "confirm"}
                  [] OTHER -> {"ok"}) \cup Refusals(m)

LEMMA OnMcpResultType ==
  ASSUME NEW h, Working(h), NEW m \in McpMethod, NEW v \in Verdicts(m), v # "error"
  PROVE  Working(OnMcpResult(h, m, v))
<1>1. /\ m = "list" => v \in {"absent", "match", "differs"}
      /\ m = "test" => v \in {"ok", "refused"}
  BY DEF Verdicts, Refusals
<1>2. Working(RequestMcp(h, "add", "adding")) /\ Working(RequestMcp(h, "test", "testing"))
      /\ Working(RequestMcp(h, "remove", "removing"))
  BY RequestMcpType DEF McpMethod, Stage
<1>3. Working(FinishMcpSetup(h)) /\ Working(McpFailed(h))
  BY FinishMcpSetupType, McpFailedType
<1> QED
  BY <1>1, <1>2, <1>3 DEF OnMcpResult, McpMethod

LEMMA OnReloadResultType ==
  ASSUME NEW h, Working(h), NEW v \in Verdicts("reload"), v # "error"
  PROVE  Working(OnReloadResult(h, v))
<1> DEFINE c == [h EXCEPT !.reloadReq = 0]
<1>1. v \in {"ok", "confirm", "refused"}
  BY DEF Verdicts, Refusals
<1>2. Working(c)
  BY DEF Working, Hal, Id0
<1> HIDE DEF c
<1>3. Working([c EXCEPT !.mcp = "approval"])
  BY ZenonT(40), <1>2 DEF Working, Hal, Stage
<1> QED
  BY <1>1, <1>2, <1>3, McpFailedType, MarkMcpReadyType DEF OnReloadResult, c

LEMMA OnPreferenceResultType ==
  ASSUME NEW h, Working(h), NEW id, NEW m \in {"model", "effort"}, NEW v
  PROVE  Working(OnPreferenceResult(h, id, m, v))
<1> DEFINE c == Dropped(h, id)
           e == CHOOSE e \in CurrentEntry(h, id, m) : TRUE
<1>1. Working(c)
  BY DroppedType
<1>2. CASE CurrentEntry(h, id, m) = {}
  BY <1>1, <1>2 DEF OnPreferenceResult
<1>3. CASE CurrentEntry(h, id, m) # {}
  <2>1. e \in h.flow
    BY <1>3 DEF CurrentEntry
  <2>2. e.route \in Model
    BY <2>1 DEF Working, Hal, Flows, Preference
  <2> HIDE DEF c, e
  <2>3. Working([c EXCEPT !.saved = e.route])
    BY <1>1, <2>2 DEF Working, Hal
  <2>4. Working(RequestPreference(IF e.persist THEN [c EXCEPT !.saved = e.route] ELSE c, "effort"))
    BY <1>1, <2>3, RequestPreferenceType
  <2>5. Working(PreferenceRefused(c, e)) /\ Working(FinishPreferences(c, TRUE, "ready"))
    BY <1>1, PreferenceRefusedType, FinishPreferencesType DEF PrefState
  <2> QED BY <1>3, <2>4, <2>5 DEF OnPreferenceResult, c, e
<1> QED
  BY <1>2, <1>3

LEMMA OnSessionResultType ==
  ASSUME NEW h, Working(h), NEW s \in Session0
  PROVE  Working(OnSessionResult(h, s))
<1>1. Working([h EXCEPT !.sess = 0, !.runtime = s, !.stored = s, !.opening = "done"])
  BY DEF Working, Hal, Id0
<1> QED
  BY <1>1, BeginPreferencesType DEF OnSessionResult

LEMMA OnRpcResultType ==
  ASSUME NEW h, Working(h), NEW id, NEW m \in Method, NEW v \in Verdicts(m), v # "error",
         NEW s \in Session0
  PROVE  Working(OnRpcResult(h, id, m, v, s))
BY OnMcpResultType, OnReloadResultType, OnSessionResultType, OnPreferenceResultType
   DEF OnRpcResult

LEMMA OnConnectionType ==
  ASSUME NEW h, Working(h)
  PROVE  Working(OnConnection(h))
<1>1. Working([h EXCEPT !.sess = 0])
  BY DEF Working, Hal, Id0
<1>2. Working([[h EXCEPT !.sess = 0] EXCEPT !.reloadReq = 0, !.mcp = "degraded"])
  <2>1. \A k : Working(k) => Working([k EXCEPT !.reloadReq = 0, !.mcp = "degraded"])
    <3>1. 0 \in Id0 /\ "degraded" \in Stage
      BY DEF Id0, Stage
    <3> QED BY ZenonT(40), <3>1 DEF Working, Hal
  <2> QED BY <1>1, <2>1
<1>3. Working([h EXCEPT !.opening = "due"])
  BY DEF Working, Hal
<1> QED
  BY <1>1, <1>2, <1>3, EnsureMcpType, CreateOrResumeType DEF OnConnection

LEMMA SetStateType ==
  ASSUME NEW h, Working(h), NEW v \in Conn
  PROVE  Working(SetState(h, v))
<1>1. Working([h EXCEPT !.conn = v])
  BY DEF Working, Hal
<1> QED
  BY <1>1, OnConnectionType DEF SetState

-----------------------------------------------------------------------------
(* The loop over the rejected requests.                                     *)

\* Induction up to a number, over a set.
LEMMA UpTo ==
  ASSUME NEW n \in Nat, NEW S, 0 \in S, \A k \in 0..(n - 1) : k \in S => k + 1 \in S
  PROVE  n \in S
<1> DEFINE Bad == {k \in 0..n : k \notin S}
<1> SUFFICES ASSUME Bad # {} PROVE FALSE
  OBVIOUS
<1>1. PICK d \in Bad : \A c \in Bad : d <= c
  <2>1. Bad \in SUBSET Nat
    OBVIOUS
  <2> HIDE DEF Bad
  <2> QED BY <2>1, LeastOf
<1>2. d # 0
  OBVIOUS
<1>3. d - 1 \in 0..(n - 1) /\ d - 1 \in 0..n /\ ~(d <= d - 1) /\ (d - 1) + 1 = d
  BY <1>2
<1>4. d - 1 \in S
  BY <1>1, <1>3
<1> QED
  BY <1>3, <1>4

\* f lists what the first turns of the loop make of h.
Turns(f, h, n) ==
  /\ f[0] = [h EXCEPT !.pend = <<>>]
  /\ \A k \in 1..n : f[k] = OnRpcError(f[k - 1], h.pend[k].id, h.pend[k].m)

LEMMA RejectAllIs ==
  ASSUME NEW h, h.pend \in Seq(Entry)
  PROVE  \E f : Turns(f, h, Len(h.pend)) /\ RejectAll(h) = f[Len(h.pend)]
<1> DEFINE n == Len(h.pend)
           Turn(a, k) == OnRpcError(a, h.pend[k].id, h.pend[k].m)
           base == [h EXCEPT !.pend = <<>>]
           Is(g, k) == g = [j \in 0..k |-> IF j = 0 THEN base ELSE Turn(g[j - 1], j)]
           S == {k \in Nat : \E g : Is(g, k)}
           after == CHOOSE g : Is(g, n)
<1>1. n \in Nat
  OBVIOUS
<1>2. RejectAll(h) = after[n]
  BY DEF RejectAll
<1>3. 0 \in S
  <2>1. Is([j \in 0..0 |-> base], 0)
    OBVIOUS
  <2> QED BY <2>1
<1>4. ASSUME NEW k \in 0..(n - 1), k \in S PROVE k + 1 \in S
  <2>1. PICK g : Is(g, k)
    BY <1>4
  <2> DEFINE next == [j \in 0..(k + 1) |-> IF j = k + 1 THEN Turn(g[k], k + 1) ELSE g[j]]
             Body == [j \in 0..(k + 1) |-> IF j = 0 THEN base ELSE Turn(next[j - 1], j)]
  <2>2. k \in Nat /\ k + 1 \in Nat /\ k + 1 # 0 /\ (k + 1) - 1 = k
    BY <1>1
  <2>3. ASSUME NEW j \in 0..(k + 1) PROVE next[j] = Body[j]
    <3>1. CASE j = k + 1
      <4>1. next[k] = g[k]
        BY <2>2
      <4> QED BY <3>1, <4>1, <2>2
    <3>2. CASE j # k + 1
      <4>1. j \in 0..k
        BY <2>2, <3>2
      <4>2. g[j] = IF j = 0 THEN base ELSE Turn(g[j - 1], j)
        <5> HIDE DEF Turn, base
        <5> QED BY <2>1, <4>1
      <4>3. j # 0 => next[j - 1] = g[j - 1]
        BY <4>1, <2>2
      <4> HIDE DEF Turn, base
      <4> QED BY <3>2, <4>1, <4>2, <4>3
    <3> QED BY <3>1, <3>2
  <2>4. next = Body
    <3> HIDE DEF Turn, base
    <3> QED BY <2>3
  <2> HIDE DEF next, Turn, base
  <2> QED BY <2>2, <2>4
<1>5. n \in S
  <2> HIDE DEF S, n
  <2> QED BY <1>1, <1>3, <1>4, UpTo
<1>6. Is(after, n)
  <2> HIDE DEF Is
  <2> QED BY <1>5
<1>7. Turns(after, h, n)
  <2>1. after[0] = base
    <3> HIDE DEF Turn, base, after, n
    <3> QED BY <1>1, <1>6
  <2>2. ASSUME NEW k \in 1..n PROVE after[k] = Turn(after[k - 1], k)
    <3> HIDE DEF Turn, base, after, n
    <3> QED BY <1>1, <1>6
  <2> HIDE DEF after, n
  <2> QED BY <2>1, <2>2 DEF Turns
<1> HIDE DEF after, Turn, base
<1> QED
  BY <1>2, <1>7

LEMMA RejectAllType ==
  ASSUME NEW h, Working(h)
  PROVE  Working(RejectAll(h))
<1> DEFINE n == Len(h.pend)
<1>1. h.pend \in Seq(Entry)
  BY DEF Working, Hal
<1>2. PICK f : Turns(f, h, n) /\ RejectAll(h) = f[n]
  BY <1>1, RejectAllIs
<1>3. n \in Nat
  BY <1>1
<1> DEFINE S == {k \in Nat : Working(f[k])}
<1> HIDE DEF n
<1>4. 0 \in S
  <2>1. Working([h EXCEPT !.pend = <<>>])
    <3>1. <<>> \in Seq(Entry)
      OBVIOUS
    <3> QED BY <3>1 DEF Working, Hal
  <2> QED BY <1>2, <2>1 DEF Turns
<1>5. ASSUME NEW k \in 0..(n - 1), k \in S PROVE k + 1 \in S
  <2>1. k + 1 \in 1..n /\ (k + 1) - 1 = k
    BY <1>3
  <2>2. f[k + 1] = OnRpcError(f[k], h.pend[k + 1].id, h.pend[k + 1].m)
    BY <1>2, <2>1 DEF Turns
  <2>3. Working(f[k])
    BY <1>5
  <2> QED BY <2>1, <2>2, <2>3, OnRpcErrorType
<1>6. n \in S
  <2> HIDE DEF S
  <2> QED BY <1>3, <1>4, <1>5, UpTo
<1> QED
  BY <1>2, <1>6

-----------------------------------------------------------------------------
(* What each method leaves alone.                                           *)

SameWish(h, k) ==
  /\ k.link = h.link /\ k.desired = h.desired /\ k.persist = h.persist
  /\ k.fallback = h.fallback /\ k.chosen = h.chosen /\ k.stale = h.stale
SameOuter(h, k) == k.conn = h.conn /\ SameWish(h, k)
SameChat(h, k) == k.fate = h.fate /\ k.queued = h.queued
SamePref(h, k) == k.prefPending = h.prefPending /\ k.prefFailed = h.prefFailed
SameMcp(h, k) ==
  k.mcp = h.mcp /\ k.mcpReq = h.mcpReq /\ k.reloadReq = h.reloadReq /\ k.retry = h.retry
SameSession(h, k) ==
  k.sess = h.sess /\ k.runtime = h.runtime /\ k.stored = h.stored /\ k.opening = h.opening
SameFlow(h, k) == k.flow = h.flow
SameSaved(h, k) == k.saved = h.saved
SameQueues(h, k) == k.pend = h.pend /\ k.out = h.out

\* A session is at most forgotten.
Forgets(h, k) == k.opening = h.opening /\ (k.runtime = h.runtime \/ k.runtime = 0)

LEMMA PostedFrame ==
  ASSUME NEW h, Working(h), NEW m, NEW arg, NEW k, k = Posted(h, m, arg)
  PROVE  /\ SameOuter(h, k) /\ SameChat(h, k) /\ SamePref(h, k) /\ SameMcp(h, k)
         /\ SameSession(h, k) /\ SameFlow(h, k) /\ SameSaved(h, k)
BY DEF Posted, Working, Hal, SameOuter, SameWish, SameChat, SamePref, SameMcp, SameSession, SameFlow,
       SameSaved

LEMMA SubmitPromptFrame ==
  ASSUME NEW h, Working(h), NEW p \in Prompt, NEW k, k = SubmitPrompt(h, p)
  PROVE  /\ SameOuter(h, k) /\ SamePref(h, k) /\ SameMcp(h, k) /\ SameSession(h, k)
         /\ SameFlow(h, k) /\ SameSaved(h, k)
         /\ k.queued = h.queued /\ k.fate = [h.fate EXCEPT ![p] = "settled"]
BY DEF SubmitPrompt, Posted, Working, Hal, SameOuter, SameWish, SameChat, SamePref, SameMcp, SameSession,
       SameFlow, SameSaved

LEMMA CreateOrResumeFrame ==
  ASSUME NEW h, Working(h), NEW k, k = CreateOrResumeSession(h)
  PROVE  /\ SameOuter(h, k) /\ SameChat(h, k) /\ SamePref(h, k) /\ SameMcp(h, k)
         /\ SameFlow(h, k) /\ SameSaved(h, k) /\ Forgets(h, k)
BY DEF CreateOrResumeSession, Posted, Working, Hal, SameOuter, SameWish, SameChat, SamePref, SameMcp,
       SameFlow, SameSaved, Forgets

LEMMA UndeliveredFrame ==
  ASSUME NEW h, Working(h), NEW k, k = Undelivered(h)
  PROVE  /\ SameOuter(h, k) /\ SamePref(h, k) /\ SameMcp(h, k) /\ SameSession(h, k)
         /\ SameFlow(h, k) /\ SameSaved(h, k) /\ SameQueues(h, k)
         /\ k.queued = NoPrompt
         /\ k.fate = IF h.queued = NoPrompt THEN h.fate
                     ELSE [h.fate EXCEPT ![h.queued] = "settled"]
BY DEF Undelivered, Working, Hal, SameOuter, SameWish, SamePref, SameMcp, SameSession, SameFlow, SameSaved,
       SameQueues

\* The prompt that waits, when sendPrompt puts p into the queue.
Queued(h, p) == [(IF h.queued = p THEN h ELSE Undelivered(h))
                   EXCEPT !.queued = p, !.fate[p] = "queued"]

LEMMA QueuedFrame ==
  ASSUME NEW h, Working(h), NEW p \in Prompt, NEW k, k = Queued(h, p)
  PROVE  /\ SameOuter(h, k) /\ SamePref(h, k) /\ SameMcp(h, k) /\ SameSession(h, k)
         /\ SameFlow(h, k) /\ SameSaved(h, k) /\ SameQueues(h, k)
         /\ k.queued = p
         /\ k.fate = [(IF h.queued \in {p, NoPrompt} THEN h.fate
                       ELSE [h.fate EXCEPT ![h.queued] = "settled"]) EXCEPT ![p] = "queued"]
         /\ Working(k)
<1>1. ASSUME NEW j, Working(j), NEW q, q = [j EXCEPT !.queued = p, !.fate[p] = "queued"]
      PROVE  /\ SameOuter(j, q) /\ SamePref(j, q) /\ SameMcp(j, q) /\ SameSession(j, q)
             /\ SameFlow(j, q) /\ SameSaved(j, q) /\ SameQueues(j, q)
             /\ q.queued = p /\ q.fate = [j.fate EXCEPT ![p] = "queued"]
             /\ Working(q)
  <2>1. Working(q)
    BY <1>1 DEF Working, Hal, Fate
  <2> QED BY <1>1, <2>1 DEF Working, Hal, SameOuter, SameWish, SamePref, SameMcp, SameSession, SameFlow,
             SameSaved, SameQueues
<1>2. CASE h.queued = p
  BY ZenonT(40), <1>1, <1>2 DEF Queued
<1>3. CASE h.queued # p
  <2> DEFINE u == Undelivered(h)
  <2>1. Working(u) /\ k = [u EXCEPT !.queued = p, !.fate[p] = "queued"]
    BY <1>3, UndeliveredType DEF Queued
  <2> HIDE DEF u
  <2>2. /\ SameOuter(h, u) /\ SamePref(h, u) /\ SameMcp(h, u) /\ SameSession(h, u)
        /\ SameFlow(h, u) /\ SameSaved(h, u) /\ SameQueues(h, u)
        /\ u.fate = IF h.queued = NoPrompt THEN h.fate
                    ELSE [h.fate EXCEPT ![h.queued] = "settled"]
    BY UndeliveredFrame DEF u
  <2>3. /\ SameOuter(u, k) /\ SamePref(u, k) /\ SameMcp(u, k) /\ SameSession(u, k)
        /\ SameFlow(u, k) /\ SameSaved(u, k) /\ SameQueues(u, k)
        /\ k.queued = p /\ k.fate = [u.fate EXCEPT ![p] = "queued"] /\ Working(k)
    BY <1>1, <2>1
  <2> QED BY <1>3, <2>2, <2>3 DEF SameOuter, SameWish, SamePref, SameMcp, SameSession, SameFlow, SameSaved,
             SameQueues
<1> QED
  BY <1>2, <1>3

LEMMA SendPromptIs ==
  ASSUME NEW h, NEW p
  PROVE  SendPrompt(h, p) =
           IF h.prefFailed THEN [h EXCEPT !.fate[p] = "settled"]
           ELSE IF h.runtime # 0 /\ ~h.prefPending THEN SubmitPrompt(h, p)
           ELSE IF Queued(h, p).conn = "connected" /\ Queued(h, p).runtime = 0
           THEN CreateOrResumeSession(Queued(h, p)) ELSE Queued(h, p)
BY DEF SendPrompt, Queued

LEMMA SendPromptFrame ==
  ASSUME NEW h, Working(h), NEW p \in Prompt, NEW k, k = SendPrompt(h, p)
  PROVE  /\ SameOuter(h, k) /\ SamePref(h, k) /\ SameMcp(h, k)
         /\ SameFlow(h, k) /\ SameSaved(h, k) /\ Forgets(h, k)
<1>1. CASE k = [h EXCEPT !.fate[p] = "settled"]
  BY <1>1 DEF Working, Hal, SameOuter, SameWish, SamePref, SameMcp, SameFlow, SameSaved, Forgets
<1>2. CASE k = SubmitPrompt(h, p)
  <2>1. SameOuter(h, k) /\ SamePref(h, k) /\ SameMcp(h, k) /\ SameSession(h, k)
        /\ SameFlow(h, k) /\ SameSaved(h, k)
    BY <1>2, SubmitPromptFrame
  <2> QED BY <2>1 DEF SameSession, Forgets
<1>3. CASE k = Queued(h, p)
  <2>1. SameOuter(h, k) /\ SamePref(h, k) /\ SameMcp(h, k) /\ SameSession(h, k)
        /\ SameFlow(h, k) /\ SameSaved(h, k)
    BY <1>3, QueuedFrame
  <2> QED BY <2>1 DEF SameSession, Forgets
<1>4. CASE k = CreateOrResumeSession(Queued(h, p))
  <2> DEFINE q == Queued(h, p)
  <2>1. /\ SameOuter(h, q) /\ SamePref(h, q) /\ SameMcp(h, q) /\ SameSession(h, q)
        /\ SameFlow(h, q) /\ SameSaved(h, q) /\ Working(q)
    BY QueuedFrame
  <2> HIDE DEF q
  <2>2. /\ SameOuter(q, k) /\ SamePref(q, k) /\ SameMcp(q, k)
        /\ SameFlow(q, k) /\ SameSaved(q, k) /\ Forgets(q, k)
    BY <1>4, <2>1, CreateOrResumeFrame DEF q
  <2> QED BY <2>1, <2>2 DEF SameOuter, SameWish, SamePref, SameMcp, SameFlow, SameSaved, SameSession,
             Forgets
<1> QED
  BY <1>1, <1>2, <1>3, <1>4, SendPromptIs

\* The state in which the workflow ends.
Ended(h, deliver, state) ==
  [h EXCEPT !.prefPending = FALSE, !.prefFailed = ~deliver, !.prefState = state]

LEMMA EndedFrame ==
  ASSUME NEW h, Working(h), NEW deliver \in BOOLEAN, NEW state \in PrefState,
         NEW k, k = Ended(h, deliver, state)
  PROVE  /\ SameOuter(h, k) /\ SameChat(h, k) /\ SameMcp(h, k) /\ SameSession(h, k)
         /\ SameFlow(h, k) /\ SameSaved(h, k) /\ SameQueues(h, k)
         /\ ~k.prefPending /\ k.prefFailed = ~deliver
         /\ Working(k)
<1>1. Working(k)
  <2>1. Working([h EXCEPT !.prefPending = FALSE, !.prefFailed = TRUE, !.prefState = state])
        /\ Working([h EXCEPT !.prefPending = FALSE, !.prefFailed = FALSE, !.prefState = state])
    BY ZenonT(40) DEF Working, Hal, PrefState
  <2>2. CASE deliver = TRUE
    BY <2>1, <2>2 DEF Ended
  <2>3. CASE deliver = FALSE
    BY <2>1, <2>3 DEF Ended
  <2> QED BY <2>2, <2>3
<1>2. ~k.prefPending /\ k.prefFailed = ~deliver
  BY Zenon DEF Ended, Working, Hal
<1>3. /\ SameOuter(h, k) /\ SameChat(h, k) /\ SameMcp(h, k) /\ SameSession(h, k)
      /\ SameFlow(h, k) /\ SameSaved(h, k) /\ SameQueues(h, k)
  BY DEF Ended, Working, Hal, SameOuter, SameWish, SameChat, SameMcp, SameSession, SameFlow, SameSaved,
         SameQueues
<1> QED
  BY <1>1, <1>2, <1>3

LEMMA FinishPreferencesIs ==
  ASSUME NEW h, NEW deliver, NEW state
  PROVE  FinishPreferences(h, deliver, state) =
           IF h.queued # NoPrompt /\ deliver
           THEN SendPrompt([Ended(h, deliver, state) EXCEPT !.queued = NoPrompt], h.queued)
           ELSE Undelivered(Ended(h, deliver, state))
BY DEF FinishPreferences, Ended

LEMMA UnqueuedFrame ==
  ASSUME NEW h, Working(h), NEW k, k = [h EXCEPT !.queued = NoPrompt]
  PROVE  /\ SameOuter(h, k) /\ SamePref(h, k) /\ SameMcp(h, k) /\ SameSession(h, k)
         /\ SameFlow(h, k) /\ SameSaved(h, k) /\ SameQueues(h, k)
         /\ k.queued = NoPrompt /\ k.fate = h.fate
         /\ Working(k)
<1>1. Working(k)
  BY DEF Working, Hal
<1> QED
  BY ZenonT(40), <1>1 DEF Working, Hal, SameOuter, SameWish, SamePref, SameMcp, SameSession, SameFlow, SameSaved,
         SameQueues

LEMMA FinishPreferencesFrame ==
  ASSUME NEW h, Working(h), NEW deliver \in BOOLEAN, NEW state \in PrefState,
         NEW k, k = FinishPreferences(h, deliver, state)
  PROVE  /\ SameOuter(h, k) /\ SameMcp(h, k) /\ SameFlow(h, k) /\ SameSaved(h, k) /\ Forgets(h, k)
         /\ ~k.prefPending /\ k.prefFailed = ~deliver
         /\ ~deliver => SameSession(h, k) /\ SameQueues(h, k)
<1> DEFINE d == Ended(h, deliver, state)
           u == [d EXCEPT !.queued = NoPrompt]
<1>1. /\ SameOuter(h, d) /\ SameMcp(h, d) /\ SameSession(h, d)
      /\ SameFlow(h, d) /\ SameSaved(h, d) /\ SameQueues(h, d) /\ Working(d)
      /\ ~d.prefPending /\ d.prefFailed = ~deliver
  BY EndedFrame
<1> HIDE DEF d
<1>2. CASE h.queued # NoPrompt /\ deliver
  <2>1. /\ SameOuter(d, u) /\ SamePref(d, u) /\ SameMcp(d, u) /\ SameSession(d, u)
        /\ SameFlow(d, u) /\ SameSaved(d, u) /\ Working(u)
    BY <1>1, UnqueuedFrame
  <2> HIDE DEF u
  <2>2. h.queued \in Prompt
    BY <1>2 DEF Working, Hal
  <2>3. k = SendPrompt(u, h.queued)
    BY <1>2, FinishPreferencesIs DEF u, d
  <2>4. /\ SameOuter(u, k) /\ SamePref(u, k) /\ SameMcp(u, k)
        /\ SameFlow(u, k) /\ SameSaved(u, k) /\ Forgets(u, k)
    BY <2>1, <2>2, <2>3, SendPromptFrame
  <2>5. k.prefPending = d.prefPending /\ k.prefFailed = d.prefFailed
    BY <2>1, <2>4 DEF SamePref
  <2>6. ~k.prefPending /\ k.prefFailed = ~deliver
    BY Zenon, <1>1, <2>5
  <2>7. /\ SameOuter(h, k) /\ SameMcp(h, k) /\ SameFlow(h, k) /\ SameSaved(h, k) /\ Forgets(h, k)
    BY <1>1, <2>1, <2>4 DEF SameOuter, SameWish, SameMcp, SameFlow, SameSaved, SameSession, Forgets
  <2> QED BY <1>2, <2>6, <2>7
<1>3. CASE ~(h.queued # NoPrompt /\ deliver)
  <2>1. k = Undelivered(d)
    BY <1>3, FinishPreferencesIs DEF d
  <2>2. /\ SameOuter(d, k) /\ SamePref(d, k) /\ SameMcp(d, k) /\ SameSession(d, k)
        /\ SameFlow(d, k) /\ SameSaved(d, k) /\ SameQueues(d, k)
    BY <1>1, <2>1, UndeliveredFrame
  <2>3. k.prefPending = d.prefPending /\ k.prefFailed = d.prefFailed
    BY <2>2 DEF SamePref
  <2>4. ~k.prefPending /\ k.prefFailed = ~deliver
    BY Zenon, <1>1, <2>3
  <2>5. /\ SameOuter(h, k) /\ SameMcp(h, k) /\ SameFlow(h, k) /\ SameSaved(h, k) /\ Forgets(h, k)
        /\ SameSession(h, k) /\ SameQueues(h, k)
    BY <1>1, <2>2 DEF SameOuter, SameWish, SameMcp, SameFlow, SameSaved, SameSession, Forgets, SameQueues
  <2> QED BY <2>4, <2>5
<1> QED
  BY <1>2, <1>3

LEMMA FailPreferencesFrame ==
  ASSUME NEW h, Working(h), NEW k, k = FailPreferences(h)
  PROVE  /\ SameOuter(h, k) /\ SameMcp(h, k) /\ SameFlow(h, k) /\ SameSaved(h, k)
         /\ SameSession(h, k) /\ SameQueues(h, k)
         /\ ~k.prefPending /\ k.prefFailed
<1>1. k = FinishPreferences(h, FALSE, "failed") /\ "failed" \in PrefState
  BY DEF FailPreferences, PrefState
<1> QED
  BY <1>1, FinishPreferencesFrame

LEMMA NextGenerationFrame ==
  ASSUME NEW h, Working(h), NEW k, k = NextGeneration(h)
  PROVE  /\ SameOuter(h, k) /\ SameChat(h, k) /\ SamePref(h, k) /\ SameMcp(h, k)
         /\ SameSession(h, k) /\ SameSaved(h, k) /\ SameQueues(h, k)
         /\ k.flow = {[f EXCEPT !.cur = FALSE] : f \in h.flow}
BY DEF NextGeneration, Working, Hal, SameOuter, SameWish, SameChat, SamePref, SameMcp, SameSession,
       SameSaved, SameQueues

\* The table entry of a preference request.
Choice(h, m) ==
  [id |-> FreshId(h), m |-> m, route |-> h.desired, cur |-> TRUE,
   persist |-> h.persist, fallback |-> h.fallback]

LEMMA RequestPreferenceFrame ==
  ASSUME NEW h, Working(h), NEW m \in {"model", "effort"}, NEW k, k = RequestPreference(h, m)
  PROVE  /\ SameOuter(h, k) /\ SameChat(h, k) /\ SamePref(h, k) /\ SameMcp(h, k)
         /\ SameSession(h, k) /\ SameSaved(h, k)
         /\ k.flow = h.flow \cup {Choice(h, m)}
         /\ Usable(h) => SameQueues(Posted(h, m, h.desired), k)
         /\ ~Usable(h) => SameQueues(h, k)
<1> DEFINE r == IF Usable(h) THEN Posted(h, m, h.desired) ELSE h
           p == Posted(h, m, h.desired)
<1>1. Working(r)
  <2>1. m \in Method /\ ArgOf(m) = Model /\ h.desired \in Model
    BY DEF Method, ArgOf, Working, Hal
  <2> QED BY <2>1, PostedType
<1>2. k = [r EXCEPT !.flow = r.flow \cup {Choice(h, m)}]
  BY DEF RequestPreference, Choice
<1>3. /\ SameOuter(h, r) /\ SameChat(h, r) /\ SamePref(h, r) /\ SameMcp(h, r)
      /\ SameSession(h, r) /\ SameSaved(h, r) /\ SameFlow(h, r)
  <2>1. CASE Usable(h)
    BY <2>1, PostedFrame
  <2>2. CASE ~Usable(h)
    BY <2>2 DEF SameOuter, SameWish, SameChat, SamePref, SameMcp, SameSession, SameSaved, SameFlow
  <2> QED BY <2>1, <2>2
<1>4. (Usable(h) => r = p) /\ (~Usable(h) => r = h)
  OBVIOUS
<1> HIDE DEF r, p
<1>5. /\ SameOuter(r, k) /\ SameChat(r, k) /\ SamePref(r, k) /\ SameMcp(r, k)
      /\ SameSession(r, k) /\ SameSaved(r, k) /\ SameQueues(r, k)
      /\ k.flow = r.flow \cup {Choice(h, m)}
  BY <1>1, <1>2 DEF Working, Hal, SameOuter, SameWish, SameChat, SamePref, SameMcp, SameSession,
     SameSaved, SameQueues
<1>6. /\ SameOuter(h, k) /\ SameChat(h, k) /\ SamePref(h, k) /\ SameMcp(h, k)
      /\ SameSession(h, k) /\ SameSaved(h, k) /\ k.flow = h.flow \cup {Choice(h, m)}
  BY <1>3, <1>5 DEF SameOuter, SameWish, SameChat, SamePref, SameMcp, SameSession, SameSaved, SameFlow
<1> QED
  BY <1>4, <1>5, <1>6 DEF p

\* The state in which a new workflow begins.
Begun(h) == [NextGeneration(h) EXCEPT !.prefPending = TRUE, !.prefFailed = FALSE,
                                      !.prefState = "applying"]

LEMMA BegunFrame ==
  ASSUME NEW h, Working(h), NEW k, k = Begun(h)
  PROVE  /\ SameOuter(h, k) /\ SameChat(h, k) /\ SameMcp(h, k)
         /\ SameSession(h, k) /\ SameSaved(h, k) /\ SameQueues(h, k)
         /\ k.prefPending /\ ~k.prefFailed
         /\ k.flow = {[f EXCEPT !.cur = FALSE] : f \in h.flow}
         /\ Working(k)
<1> DEFINE g == NextGeneration(h)
<1>1. Working(g)
  BY NextGenerationType
<1>2. /\ SameOuter(h, g) /\ SameChat(h, g) /\ SameMcp(h, g) /\ SameSession(h, g)
      /\ SameSaved(h, g) /\ SameQueues(h, g) /\ g.flow = {[f EXCEPT !.cur = FALSE] : f \in h.flow}
  BY NextGenerationFrame
<1>3. k = [g EXCEPT !.prefPending = TRUE, !.prefFailed = FALSE, !.prefState = "applying"]
  BY DEF Begun
<1> HIDE DEF g
<1>4. Working(k)
  BY ZenonT(40), <1>1, <1>3 DEF Working, Hal
<1>5. /\ SameOuter(g, k) /\ SameChat(g, k) /\ SameMcp(g, k) /\ SameSession(g, k)
      /\ SameSaved(g, k) /\ SameQueues(g, k) /\ SameFlow(g, k)
      /\ k.prefPending /\ ~k.prefFailed
  BY <1>1, <1>3 DEF Working, Hal, SameOuter, SameWish, SameChat, SameMcp, SameSession, SameSaved,
     SameQueues, SameFlow
<1> QED
  BY <1>2, <1>4, <1>5 DEF SameOuter, SameWish, SameChat, SameMcp, SameSession, SameSaved,
     SameQueues, SameFlow

LEMMA BeginPreferencesIs ==
  ASSUME NEW h
  PROVE  BeginPreferences(h) =
           IF Begun(h).runtime = 0 \/ Begun(h).conn # "connected" THEN FailPreferences(Begun(h))
           ELSE RequestPreference(Begun(h), "model")
BY DEF BeginPreferences, Begun

LEMMA BeginPreferencesFrame ==
  ASSUME NEW h, Working(h), NEW k, k = BeginPreferences(h)
  PROVE  SameOuter(h, k) /\ SameMcp(h, k) /\ SameSession(h, k) /\ SameSaved(h, k)
<1> DEFINE g == Begun(h)
<1>1. Working(g) /\ SameOuter(h, g) /\ SameMcp(h, g) /\ SameSession(h, g) /\ SameSaved(h, g)
  BY BegunFrame
<1>2. k = FailPreferences(g) \/ k = RequestPreference(g, "model")
  BY BeginPreferencesIs
<1> HIDE DEF g
<1>3. SameOuter(g, k) /\ SameMcp(g, k) /\ SameSession(g, k) /\ SameSaved(g, k)
  BY <1>1, <1>2, FailPreferencesFrame, RequestPreferenceFrame
<1> QED
  BY <1>1, <1>3 DEF SameOuter, SameWish, SameMcp, SameSession, SameSaved

LEMMA PreferenceRefusedFrame ==
  ASSUME NEW h, Working(h), NEW e, NEW k, k = PreferenceRefused(h, e)
  PROVE  /\ SameOuter(h, k) /\ SameMcp(h, k) /\ SameFlow(h, k) /\ SameSaved(h, k) /\ Forgets(h, k)
         /\ ~k.prefPending
<1>1. CASE k = FailPreferences(h)
  <2>1. /\ SameOuter(h, k) /\ SameMcp(h, k) /\ SameFlow(h, k) /\ SameSaved(h, k)
        /\ SameSession(h, k) /\ ~k.prefPending
    BY <1>1, FailPreferencesFrame
  <2> QED BY <2>1 DEF SameSession, Forgets
<1>2. CASE k = FinishPreferences(h, TRUE, "retryable")
  BY <1>2, FinishPreferencesFrame DEF PrefState
<1> QED
  BY <1>1, <1>2 DEF PreferenceRefused

LEMMA RequestMcpFrame ==
  ASSUME NEW h, Working(h), NEW m \in McpMethod, NEW stage \in Stage,
         NEW k, k = RequestMcp(h, m, stage)
  PROVE  /\ SameOuter(h, k) /\ SameChat(h, k) /\ SamePref(h, k) /\ SameSession(h, k)
         /\ SameFlow(h, k) /\ SameSaved(h, k)
         /\ k.mcp = stage /\ k.mcpReq = FreshId(h) /\ k.reloadReq = h.reloadReq /\ k.retry = h.retry
         /\ Usable(h) => SameQueues(Posted(h, m, 0), k)
         /\ ~Usable(h) => SameQueues(h, k)
<1> DEFINE r == IF Usable(h) THEN Posted(h, m, 0) ELSE h
           p == Posted(h, m, 0)
<1>1. Working(r)
  <2>1. m \in Method /\ 0 \in ArgOf(m)
    BY DEF Method, ArgOf, McpMethod
  <2> QED BY <2>1, PostedType
<1>2. k = [r EXCEPT !.mcp = stage, !.mcpReq = FreshId(h)]
  BY DEF RequestMcp
<1>3. /\ SameOuter(h, r) /\ SameChat(h, r) /\ SamePref(h, r) /\ SameMcp(h, r)
      /\ SameSession(h, r) /\ SameSaved(h, r) /\ SameFlow(h, r)
  <2>1. CASE Usable(h)
    BY <2>1, PostedFrame
  <2>2. CASE ~Usable(h)
    BY <2>2 DEF SameOuter, SameWish, SameChat, SamePref, SameMcp, SameSession, SameSaved, SameFlow
  <2> QED BY <2>1, <2>2
<1>4. (Usable(h) => r = p) /\ (~Usable(h) => r = h)
  OBVIOUS
<1> HIDE DEF r, p
<1>5. /\ SameOuter(r, k) /\ SameChat(r, k) /\ SamePref(r, k)
      /\ SameSession(r, k) /\ SameSaved(r, k) /\ SameQueues(r, k) /\ SameFlow(r, k)
      /\ k.mcp = stage /\ k.mcpReq = FreshId(h) /\ k.reloadReq = r.reloadReq /\ k.retry = r.retry
  BY <1>1, <1>2 DEF Working, Hal, SameOuter, SameWish, SameChat, SamePref, SameSession,
     SameSaved, SameQueues, SameFlow
<1>6. /\ SameOuter(h, k) /\ SameChat(h, k) /\ SamePref(h, k) /\ SameFlow(h, k)
      /\ SameSession(h, k) /\ SameSaved(h, k) /\ k.reloadReq = h.reloadReq /\ k.retry = h.retry
  BY <1>3, <1>5 DEF SameOuter, SameWish, SameChat, SamePref, SameMcp, SameSession, SameSaved, SameFlow
<1> QED
  BY <1>4, <1>5, <1>6 DEF p

LEMMA MarkMcpReadyFrame ==
  ASSUME NEW h, Working(h), NEW k, k = MarkMcpReady(h)
  PROVE  /\ SameOuter(h, k) /\ SameChat(h, k) /\ SamePref(h, k) /\ SameSession(h, k)
         /\ SameFlow(h, k) /\ SameSaved(h, k) /\ SameQueues(h, k)
         /\ k.mcp = "ready" /\ k.mcpReq = 0 /\ k.reloadReq = 0 /\ ~k.retry
BY DEF MarkMcpReady, Working, Hal, SameOuter, SameWish, SameChat, SamePref, SameSession, SameFlow,
       SameSaved, SameQueues

LEMMA DroppedFrame ==
  ASSUME NEW h, Working(h), NEW id, NEW k, k = Dropped(h, id)
  PROVE  /\ SameOuter(h, k) /\ SameChat(h, k) /\ SamePref(h, k) /\ SameSession(h, k)
         /\ SameMcp(h, k) /\ SameSaved(h, k) /\ SameQueues(h, k)
         /\ k.flow = {f \in h.flow : f.id # id}
BY DEF Dropped, Working, Hal, SameOuter, SameWish, SameChat, SamePref, SameSession, SameMcp,
       SameSaved, SameQueues

LEMMA NoSessionFrame ==
  ASSUME NEW h, Working(h), NEW m, NEW k, k = NoSession(h, m)
  PROVE  /\ SameOuter(h, k) /\ SameChat(h, k) /\ SamePref(h, k) /\ SameMcp(h, k)
         /\ SameFlow(h, k) /\ SameSaved(h, k) /\ SameQueues(h, k)
         /\ k.runtime = h.runtime /\ k.stored = h.stored
         /\ k.sess = IF m \in {"create", "resume"} THEN 0 ELSE h.sess
         /\ k.opening = IF m = "create" THEN "failed" ELSE h.opening
BY DEF NoSession, Working, Hal, SameOuter, SameWish, SameChat, SamePref, SameMcp, SameFlow,
       SameSaved, SameQueues

\* The state in which the registration is over, and the one in which it failed.
SetUp(h) == [h EXCEPT !.mcpReq = 0, !.retry = FALSE]
Degraded(h) == [h EXCEPT !.mcp = "degraded", !.mcpReq = 0]

LEMMA SetUpFrame ==
  ASSUME NEW h, Working(h), NEW k, k = SetUp(h)
  PROVE  /\ SameOuter(h, k) /\ SameChat(h, k) /\ SamePref(h, k) /\ SameSession(h, k)
         /\ SameFlow(h, k) /\ SameSaved(h, k) /\ SameQueues(h, k)
         /\ k.mcp = h.mcp /\ k.mcpReq = 0 /\ k.reloadReq = h.reloadReq /\ ~k.retry
         /\ Working(k)
<1>1. Working(k)
  BY DEF SetUp, Working, Hal, Id0
<1> QED
  BY <1>1 DEF SetUp, Working, Hal, SameOuter, SameWish, SameChat, SamePref, SameSession, SameFlow,
     SameSaved, SameQueues

LEMMA DegradedFrame ==
  ASSUME NEW h, Working(h), NEW k, k = Degraded(h)
  PROVE  /\ SameOuter(h, k) /\ SameChat(h, k) /\ SamePref(h, k) /\ SameSession(h, k)
         /\ SameFlow(h, k) /\ SameSaved(h, k) /\ SameQueues(h, k)
         /\ k.mcp = "degraded" /\ k.mcpReq = 0 /\ k.reloadReq = h.reloadReq
         /\ Working(k)
<1>1. Working(k)
  BY ZenonT(40) DEF Degraded, Working, Hal, Id0, Stage
<1> QED
  BY <1>1 DEF Degraded, Working, Hal, SameOuter, SameWish, SameChat, SamePref, SameSession, SameFlow,
     SameSaved, SameQueues

LEMMA ReloadingFrame ==
  ASSUME NEW h, Working(h), h.runtime # 0, NEW k, k = FinishMcpSetup(h)
  PROVE  LET d == SetUp(h) IN
         /\ SameOuter(h, k) /\ SameChat(h, k) /\ SamePref(h, k) /\ SameSession(h, k)
         /\ SameFlow(h, k) /\ SameSaved(h, k)
         /\ k.mcp = "reloading" /\ k.mcpReq = 0 /\ k.reloadReq = FreshId(d) /\ ~k.retry
         /\ Usable(h) => SameQueues(Posted(d, "reload", 0), k)
         /\ ~Usable(h) => SameQueues(d, k)
<1> DEFINE d == SetUp(h)
           r == IF Usable(d) THEN Posted(d, "reload", 0) ELSE d
<1>1. /\ SameOuter(h, d) /\ SameChat(h, d) /\ SamePref(h, d) /\ SameSession(h, d)
      /\ SameFlow(h, d) /\ SameSaved(h, d) /\ SameQueues(h, d)
      /\ d.mcpReq = 0 /\ ~d.retry /\ Working(d)
  BY SetUpFrame
<1>2. Usable(d) <=> Usable(h)
  BY <1>1 DEF Usable, SameOuter, SameWish
<1>3. k = [r EXCEPT !.mcp = "reloading", !.reloadReq = FreshId(d)]
  BY DEF FinishMcpSetup, SetUp
<1> HIDE DEF d
<1>4. Working(r)
  <2>1. "reload" \in Method /\ 0 \in ArgOf("reload")
    BY DEF Method, ArgOf
  <2> QED BY <1>1, <2>1, PostedType
<1>5. /\ SameOuter(d, r) /\ SameChat(d, r) /\ SamePref(d, r) /\ SameMcp(d, r)
      /\ SameSession(d, r) /\ SameSaved(d, r) /\ SameFlow(d, r)
  <2>1. CASE Usable(d)
    BY <1>1, <2>1, PostedFrame
  <2>2. CASE ~Usable(d)
    BY <2>2 DEF SameOuter, SameWish, SameChat, SamePref, SameMcp, SameSession, SameSaved, SameFlow
  <2> QED BY <2>1, <2>2
<1>6. (Usable(h) => r = Posted(d, "reload", 0)) /\ (~Usable(h) => r = d)
  BY <1>2
<1> HIDE DEF r
<1>7. /\ SameOuter(r, k) /\ SameChat(r, k) /\ SamePref(r, k) /\ SameSession(r, k)
      /\ SameFlow(r, k) /\ SameSaved(r, k) /\ SameQueues(r, k)
      /\ k.mcp = "reloading" /\ k.mcpReq = r.mcpReq /\ k.reloadReq = FreshId(d) /\ k.retry = r.retry
  BY <1>3, <1>4 DEF Working, Hal, SameOuter, SameWish, SameChat, SamePref, SameSession, SameFlow,
     SameSaved, SameQueues
<1>8. /\ SameOuter(h, k) /\ SameChat(h, k) /\ SamePref(h, k) /\ SameSession(h, k)
      /\ SameFlow(h, k) /\ SameSaved(h, k) /\ k.mcpReq = 0 /\ ~k.retry
  BY <1>1, <1>5, <1>7 DEF SameOuter, SameWish, SameChat, SamePref, SameMcp, SameSession, SameFlow,
     SameSaved
<1>9. /\ Usable(h) => SameQueues(Posted(d, "reload", 0), k)
      /\ ~Usable(h) => SameQueues(d, k)
  BY <1>6, <1>7
<1> QED
  BY <1>7, <1>8, <1>9 DEF d

LEMMA RegisteredFrame ==
  ASSUME NEW h, Working(h), h.runtime = 0
  PROVE  LET r == MarkMcpReady(SetUp(h)) IN
         /\ FinishMcpSetup(h) = CreateOrResumeSession(r)
         /\ SameOuter(h, r) /\ SameChat(h, r) /\ SamePref(h, r) /\ SameSession(h, r)
         /\ SameFlow(h, r) /\ SameSaved(h, r) /\ SameQueues(h, r)
         /\ r.mcp = "ready" /\ r.mcpReq = 0 /\ r.reloadReq = 0 /\ ~r.retry
         /\ Working(r)
<1> DEFINE d == SetUp(h)
           r == MarkMcpReady(d)
<1>1. /\ SameOuter(h, d) /\ SameChat(h, d) /\ SamePref(h, d) /\ SameSession(h, d)
      /\ SameFlow(h, d) /\ SameSaved(h, d) /\ SameQueues(h, d) /\ Working(d)
  BY SetUpFrame
<1>2. FinishMcpSetup(h) = CreateOrResumeSession(r)
  BY DEF FinishMcpSetup, SetUp
<1> HIDE DEF d
<1>3. /\ SameOuter(d, r) /\ SameChat(d, r) /\ SamePref(d, r) /\ SameSession(d, r)
      /\ SameFlow(d, r) /\ SameSaved(d, r) /\ SameQueues(d, r)
      /\ r.mcp = "ready" /\ r.mcpReq = 0 /\ r.reloadReq = 0 /\ ~r.retry /\ Working(r)
  BY <1>1, MarkMcpReadyFrame, MarkMcpReadyType
<1> HIDE DEF r
<1>4. /\ SameOuter(h, r) /\ SameChat(h, r) /\ SamePref(h, r) /\ SameSession(h, r)
      /\ SameFlow(h, r) /\ SameSaved(h, r) /\ SameQueues(h, r)
  BY <1>1, <1>3 DEF SameOuter, SameWish, SameChat, SamePref, SameSession, SameFlow, SameSaved,
     SameQueues
<1> QED
  BY <1>2, <1>3, <1>4 DEF r, d

LEMMA FinishMcpSetupFrame ==
  ASSUME NEW h, Working(h), NEW k, k = FinishMcpSetup(h)
  PROVE  /\ SameOuter(h, k) /\ SameChat(h, k) /\ SamePref(h, k) /\ SameFlow(h, k)
         /\ SameSaved(h, k) /\ Forgets(h, k)
<1>1. CASE h.runtime # 0
  <2>1. /\ SameOuter(h, k) /\ SameChat(h, k) /\ SamePref(h, k) /\ SameSession(h, k)
        /\ SameFlow(h, k) /\ SameSaved(h, k)
    BY <1>1, ReloadingFrame
  <2> QED BY <2>1 DEF SameSession, Forgets
<1>2. CASE h.runtime = 0
  <2> DEFINE r == MarkMcpReady(SetUp(h))
  <2>1. /\ k = CreateOrResumeSession(r)
        /\ SameOuter(h, r) /\ SameChat(h, r) /\ SamePref(h, r) /\ SameSession(h, r)
        /\ SameFlow(h, r) /\ SameSaved(h, r) /\ Working(r)
    BY <1>2, RegisteredFrame
  <2> HIDE DEF r
  <2>2. /\ SameOuter(r, k) /\ SameChat(r, k) /\ SamePref(r, k) /\ SameFlow(r, k)
        /\ SameSaved(r, k) /\ Forgets(r, k)
    BY <2>1, CreateOrResumeFrame
  <2> QED BY <2>1, <2>2 DEF SameOuter, SameWish, SameChat, SamePref, SameSession, SameFlow, SameSaved,
             Forgets
<1> QED
  BY <1>1, <1>2

\* Whether the retry is armed changes nothing else.
SameBut(h, k) ==
  /\ k.mcp = h.mcp /\ k.mcpReq = h.mcpReq /\ k.reloadReq = h.reloadReq
  /\ SameOuter(h, k) /\ SameChat(h, k) /\ SamePref(h, k) /\ SameSession(h, k)
  /\ SameFlow(h, k) /\ SameSaved(h, k) /\ SameQueues(h, k)

LEMMA McpFailedIs ==
  ASSUME NEW h, Working(h)
  PROVE  LET s == IF h.runtime = 0 THEN CreateOrResumeSession(Degraded(h)) ELSE Degraded(h)
         IN  Working(s) /\ SameBut(s, McpFailed(h))
<1> DEFINE d == Degraded(h)
           s == IF h.runtime = 0 THEN CreateOrResumeSession(d) ELSE d
<1>1. Working(d) /\ d.runtime = h.runtime
  BY DegradedFrame DEF SameSession
<1>2. Working(s)
  BY <1>1, CreateOrResumeType
<1>3. McpFailed(h) = IF s.conn = "connected" THEN [s EXCEPT !.retry = TRUE] ELSE s
  BY <1>1 DEF McpFailed, Degraded
<1> HIDE DEF s
<1>4. SameBut(s, [s EXCEPT !.retry = TRUE]) /\ SameBut(s, s)
  BY <1>2 DEF SameBut, Working, Hal, SameOuter, SameWish, SameChat, SamePref, SameMcp, SameSession,
     SameFlow, SameSaved, SameQueues
<1> QED
  BY <1>2, <1>3, <1>4 DEF s

LEMMA McpFailedFrame ==
  ASSUME NEW h, Working(h), NEW k, k = McpFailed(h)
  PROVE  /\ SameOuter(h, k) /\ SameChat(h, k) /\ SamePref(h, k) /\ SameFlow(h, k)
         /\ SameSaved(h, k) /\ Forgets(h, k)
         /\ k.mcp = "degraded" /\ k.mcpReq = 0 /\ k.reloadReq = h.reloadReq
<1> DEFINE d == Degraded(h)
           s == IF h.runtime = 0 THEN CreateOrResumeSession(d) ELSE d
<1>1. /\ SameOuter(h, d) /\ SameChat(h, d) /\ SamePref(h, d) /\ SameSession(h, d)
      /\ SameFlow(h, d) /\ SameSaved(h, d) /\ Working(d)
      /\ d.mcp = "degraded" /\ d.mcpReq = 0 /\ d.reloadReq = h.reloadReq
  BY DegradedFrame
<1>2. SameBut(s, k)
  BY McpFailedIs
<1> HIDE DEF d
<1>3. /\ SameOuter(d, s) /\ SameChat(d, s) /\ SamePref(d, s) /\ SameFlow(d, s)
      /\ SameSaved(d, s) /\ Forgets(d, s) /\ SameMcp(d, s)
  <2>1. CASE h.runtime = 0
    BY <1>1, <2>1, CreateOrResumeFrame
  <2>2. CASE h.runtime # 0
    BY <2>2 DEF SameOuter, SameWish, SameChat, SamePref, SameFlow, SameSaved, Forgets, SameMcp
  <2> QED BY <2>1, <2>2
<1> HIDE DEF s
<1> QED
  BY <1>1, <1>2, <1>3 DEF SameBut, SameOuter, SameWish, SameChat, SamePref, SameSession, SameFlow,
     SameSaved, Forgets, SameMcp

LEMMA ForgottenFrame ==
  ASSUME NEW h, Working(h), NEW k, k = [h EXCEPT !.stored = 0, !.runtime = 0]
  PROVE  /\ SameOuter(h, k) /\ SameChat(h, k) /\ SamePref(h, k) /\ SameMcp(h, k)
         /\ SameFlow(h, k) /\ SameSaved(h, k) /\ SameQueues(h, k) /\ Forgets(h, k)
         /\ k.sess = h.sess /\ k.runtime = 0 /\ k.stored = 0
         /\ Working(k)
<1>1. Working(k)
  BY DEF Working, Hal, Session0
<1> QED
  BY <1>1 DEF Working, Hal, SameOuter, SameWish, SameChat, SamePref, SameMcp, SameFlow, SameSaved,
     SameQueues, Forgets

LEMMA UnreloadedFrame ==
  ASSUME NEW h, Working(h), NEW k, k = [h EXCEPT !.reloadReq = 0]
  PROVE  /\ SameOuter(h, k) /\ SameChat(h, k) /\ SamePref(h, k) /\ SameSession(h, k)
         /\ SameFlow(h, k) /\ SameSaved(h, k) /\ SameQueues(h, k)
         /\ k.mcp = h.mcp /\ k.mcpReq = h.mcpReq /\ k.reloadReq = 0 /\ k.retry = h.retry
         /\ Working(k)
<1>1. Working(k)
  BY DEF Working, Hal, Id0
<1> QED
  BY ZenonT(40), <1>1 DEF Working, Hal, SameOuter, SameWish, SameChat, SamePref, SameSession, SameFlow, SameSaved,
     SameQueues

LEMMA OpenedFrame ==
  ASSUME NEW h, Working(h), NEW s \in Session0,
         NEW k, k = [h EXCEPT !.sess = 0, !.runtime = s, !.stored = s, !.opening = "done"]
  PROVE  /\ SameOuter(h, k) /\ SameChat(h, k) /\ SamePref(h, k) /\ SameMcp(h, k)
         /\ SameFlow(h, k) /\ SameSaved(h, k) /\ SameQueues(h, k)
         /\ k.sess = 0 /\ k.runtime = s /\ k.stored = s /\ k.opening = "done"
         /\ Working(k)
<1>1. Working(k)
  BY DEF Working, Hal, Id0
<1> QED
  BY <1>1 DEF Working, Hal, SameOuter, SameWish, SameChat, SamePref, SameMcp, SameFlow, SameSaved,
     SameQueues

-----------------------------------------------------------------------------
(* The queued prompt.                                                       *)

OneQueued(h) == \A p \in Prompt : h.fate[p] = "queued" <=> h.queued = p

\* A prompt waits only while a workflow or a session is still awaited.
PromptOk(h) ==
  /\ OneQueued(h)
  /\ h.prefFailed \/ (h.runtime # 0 /\ ~h.prefPending) => h.queued = NoPrompt

LEMMA PromptKept ==
  ASSUME NEW h, NEW k, PromptOk(h), SameChat(h, k), SamePref(h, k), Forgets(h, k)
  PROVE  PromptOk(k)
BY DEF PromptOk, OneQueued, SameChat, SamePref, Forgets

LEMMA SendPromptPrompt ==
  ASSUME NEW h, Working(h), NEW p \in Prompt,
         \A q \in Prompt \ {p} : h.fate[q] = "queued" <=> h.queued = q,
         h.prefFailed \/ (h.runtime # 0 /\ ~h.prefPending) => h.queued = NoPrompt
  PROVE  PromptOk(SendPrompt(h, p))
<1> DEFINE k == SendPrompt(h, p)
<1>0. p # NoPrompt /\ h.fate \in [Prompt -> Fate]
  BY HermesAssumption DEF Working, Hal
<1>1. CASE h.prefFailed
  <2>1. k = [h EXCEPT !.fate[p] = "settled"] /\ h.queued = NoPrompt
    BY <1>1, SendPromptIs
  <2> HIDE DEF k
  <2>2. k.queued = NoPrompt /\ k.fate = [h.fate EXCEPT ![p] = "settled"]
    BY <2>1 DEF Working, Hal
  <2> QED BY <1>0, <2>1, <2>2 DEF PromptOk, OneQueued, k
<1>2. CASE ~h.prefFailed /\ h.runtime # 0 /\ ~h.prefPending
  <2>1. k = SubmitPrompt(h, p) /\ h.queued = NoPrompt
    BY <1>2, SendPromptIs
  <2> HIDE DEF k
  <2>2. k.queued = NoPrompt /\ k.fate = [h.fate EXCEPT ![p] = "settled"]
    BY <2>1, SubmitPromptFrame
  <2> QED BY <1>0, <2>1, <2>2 DEF PromptOk, OneQueued, k
<1>3. CASE ~h.prefFailed /\ ~(h.runtime # 0 /\ ~h.prefPending)
  <2> DEFINE q == Queued(h, p)
  <2>1. /\ SamePref(h, q) /\ SameSession(h, q) /\ q.queued = p
        /\ q.fate = [(IF h.queued \in {p, NoPrompt} THEN h.fate
                      ELSE [h.fate EXCEPT ![h.queued] = "settled"]) EXCEPT ![p] = "queued"]
        /\ Working(q)
    BY QueuedFrame
  <2>2. k = q \/ k = CreateOrResumeSession(q)
    BY <1>3, SendPromptIs
  <2> HIDE DEF q, k
  <2>3. OneQueued(q)
    <3>1. CASE h.queued \in {p, NoPrompt}
      BY <1>0, <2>1, <3>1, HermesAssumption DEF OneQueued
    <3>2. CASE h.queued \notin {p, NoPrompt}
      <4>1. h.queued \in Prompt \ {p}
        BY <3>2 DEF Working, Hal
      <4> QED BY <1>0, <2>1, <3>2, <4>1 DEF OneQueued
    <3> QED BY <3>1, <3>2
  <2>4. PromptOk(q)
    BY <1>3, <2>1, <2>3 DEF PromptOk, SamePref, SameSession
  <2>5. CASE k = CreateOrResumeSession(q)
    BY <2>1, <2>4, <2>5, CreateOrResumeFrame, PromptKept DEF k
  <2> QED BY <2>2, <2>4, <2>5 DEF k
<1> QED
  BY <1>1, <1>2, <1>3

LEMMA UndeliveredPrompt ==
  ASSUME NEW h, Working(h), OneQueued(h)
  PROVE  PromptOk(Undelivered(h))
<1> DEFINE k == Undelivered(h)
<1>1. /\ k.queued = NoPrompt
      /\ k.fate = IF h.queued = NoPrompt THEN h.fate ELSE [h.fate EXCEPT ![h.queued] = "settled"]
  BY UndeliveredFrame
<1> HIDE DEF k
<1>2. h.fate \in [Prompt -> Fate] /\ h.queued \in Prompt \cup {NoPrompt} /\ NoPrompt \notin Prompt
  BY HermesAssumption DEF Working, Hal
<1>3. PromptOk(k)
  BY <1>1, <1>2 DEF PromptOk, OneQueued
<1> QED
  BY <1>3 DEF k

LEMMA FinishPreferencesPrompt ==
  ASSUME NEW h, Working(h), OneQueued(h), NEW deliver \in BOOLEAN, NEW state \in PrefState
  PROVE  PromptOk(FinishPreferences(h, deliver, state))
<1> DEFINE d == Ended(h, deliver, state)
           u == [d EXCEPT !.queued = NoPrompt]
<1>1. SameChat(h, d) /\ Working(d)
  BY EndedFrame
<1> HIDE DEF d
<1>2. CASE h.queued # NoPrompt /\ deliver
  <2>1. Working(u) /\ u.queued = NoPrompt /\ u.fate = h.fate
    BY <1>1, UnqueuedFrame DEF SameChat
  <2>2. FinishPreferences(h, deliver, state) = SendPrompt(u, h.queued)
    BY <1>2, FinishPreferencesIs DEF d
  <2> HIDE DEF u
  <2>3. h.queued \in Prompt
    BY <1>2 DEF Working, Hal
  <2>4. \A q \in Prompt \ {h.queued} : u.fate[q] = "queued" <=> u.queued = q
    BY <2>1, HermesAssumption DEF OneQueued
  <2> QED BY <2>1, <2>2, <2>3, <2>4, SendPromptPrompt
<1>3. CASE ~(h.queued # NoPrompt /\ deliver)
  <2>1. FinishPreferences(h, deliver, state) = Undelivered(d)
    BY <1>3, FinishPreferencesIs DEF d
  <2>2. OneQueued(d)
    BY <1>1 DEF OneQueued, SameChat
  <2> QED BY <1>1, <2>1, <2>2, UndeliveredPrompt
<1> QED
  BY <1>2, <1>3

LEMMA FailPreferencesPrompt ==
  ASSUME NEW h, Working(h), OneQueued(h)
  PROVE  PromptOk(FailPreferences(h))
BY FinishPreferencesPrompt DEF FailPreferences, PrefState

LEMMA PreferenceRefusedPrompt ==
  ASSUME NEW h, Working(h), OneQueued(h), NEW e
  PROVE  PromptOk(PreferenceRefused(h, e))
BY FailPreferencesPrompt, FinishPreferencesPrompt DEF PreferenceRefused, PrefState

LEMMA BeginPreferencesPrompt ==
  ASSUME NEW h, Working(h), OneQueued(h)
  PROVE  PromptOk(BeginPreferences(h))
<1> DEFINE g == Begun(h)
           k == BeginPreferences(h)
<1>1. Working(g) /\ SameChat(h, g) /\ g.prefPending /\ ~g.prefFailed
  BY BegunFrame
<1>2. k = FailPreferences(g) \/ k = RequestPreference(g, "model")
  BY BeginPreferencesIs
<1> HIDE DEF g, k
<1>3. OneQueued(g)
  BY <1>1 DEF OneQueued, SameChat
<1>4. CASE k = FailPreferences(g)
  BY <1>1, <1>3, <1>4, FailPreferencesPrompt DEF k
<1>5. CASE k = RequestPreference(g, "model")
  <2>1. SameChat(g, k) /\ SamePref(g, k)
    BY <1>1, <1>5, RequestPreferenceFrame
  <2> QED BY <1>1, <1>3, <2>1 DEF PromptOk, OneQueued, SameChat, SamePref, k
<1> QED
  BY <1>2, <1>4, <1>5 DEF k

LEMMA OnRpcErrorPrompt ==
  ASSUME NEW h, Working(h), PromptOk(h), NEW id, NEW m
  PROVE  PromptOk(OnRpcError(h, id, m))
<1> DEFINE c == NoSession(h, m)
           k == OnRpcError(h, id, m)
<1>1. Working(c) /\ SameChat(h, c) /\ SamePref(h, c) /\ c.runtime = h.runtime
  BY NoSessionType, NoSessionFrame
<1>2. PromptOk(c)
  BY <1>1 DEF PromptOk, OneQueued, SameChat, SamePref
<1>3. PromptOk(McpFailed(h))
  <2>1. SameChat(h, McpFailed(h)) /\ SamePref(h, McpFailed(h)) /\ Forgets(h, McpFailed(h))
    BY McpFailedFrame
  <2> QED BY <2>1, PromptKept
<1>4. PromptOk(McpFailed([h EXCEPT !.reloadReq = 0]))
  <2> DEFINE u == [h EXCEPT !.reloadReq = 0]
  <2>1. Working(u) /\ SameChat(h, u) /\ SamePref(h, u) /\ SameSession(h, u)
    BY UnreloadedFrame
  <2> HIDE DEF u
  <2>2. PromptOk(u)
    BY <2>1 DEF PromptOk, OneQueued, SameChat, SamePref, SameSession
  <2>3. SameChat(u, McpFailed(u)) /\ SamePref(u, McpFailed(u)) /\ Forgets(u, McpFailed(u))
    BY <2>1, McpFailedFrame
  <2>4. PromptOk(McpFailed(u))
    BY <2>2, <2>3, PromptKept
  <2> QED BY <2>4 DEF u
<1> HIDE DEF c
<1>5. PromptOk(CreateOrResumeSession([c EXCEPT !.stored = 0, !.runtime = 0]))
  <2> DEFINE u == [c EXCEPT !.stored = 0, !.runtime = 0]
  <2>1. Working(u) /\ SameChat(c, u) /\ SamePref(c, u) /\ Forgets(c, u)
    BY <1>1, ForgottenFrame
  <2> HIDE DEF u
  <2>2. PromptOk(u)
    BY <1>2, <2>1, PromptKept
  <2>3. SameChat(u, CreateOrResumeSession(u)) /\ SamePref(u, CreateOrResumeSession(u))
        /\ Forgets(u, CreateOrResumeSession(u))
    BY <2>1, CreateOrResumeFrame
  <2>4. PromptOk(CreateOrResumeSession(u))
    BY <2>2, <2>3, PromptKept
  <2> QED BY <2>4 DEF u
<1>6. Working(Dropped(c, id)) /\ PromptOk(Dropped(c, id))
  <2>1. SameChat(c, Dropped(c, id)) /\ SamePref(c, Dropped(c, id)) /\ SameSession(c, Dropped(c, id))
    BY <1>1, DroppedFrame
  <2> QED BY <1>1, <1>2, <2>1, DroppedType DEF PromptOk, OneQueued, SameChat, SamePref, SameSession
<1>7. \A e : PromptOk(PreferenceRefused(Dropped(c, id), e))
  BY <1>6, PreferenceRefusedPrompt DEF PromptOk
<1> QED
  BY <1>3, <1>4, <1>5, <1>6, <1>7, OnRpcErrorIs DEF c

LEMMA RequestMcpPrompt ==
  ASSUME NEW h, Working(h), PromptOk(h), NEW m \in McpMethod, NEW stage \in Stage
  PROVE  PromptOk(RequestMcp(h, m, stage))
<1> DEFINE k == RequestMcp(h, m, stage)
<1>1. SameChat(h, k) /\ SamePref(h, k) /\ SameSession(h, k)
  BY RequestMcpFrame
<1> HIDE DEF k
<1>2. Forgets(h, k)
  BY <1>1 DEF SameSession, Forgets
<1>3. PromptOk(k)
  BY <1>1, <1>2, PromptKept
<1> QED
  BY <1>3 DEF k

LEMMA McpFailedPrompt ==
  ASSUME NEW h, Working(h), PromptOk(h)
  PROVE  PromptOk(McpFailed(h))
<1>1. SameChat(h, McpFailed(h)) /\ SamePref(h, McpFailed(h)) /\ Forgets(h, McpFailed(h))
  BY McpFailedFrame
<1> QED
  BY <1>1, PromptKept

LEMMA FinishMcpSetupPrompt ==
  ASSUME NEW h, Working(h), PromptOk(h)
  PROVE  PromptOk(FinishMcpSetup(h))
<1>1. SameChat(h, FinishMcpSetup(h)) /\ SamePref(h, FinishMcpSetup(h))
      /\ Forgets(h, FinishMcpSetup(h))
  BY FinishMcpSetupFrame
<1> QED
  BY <1>1, PromptKept

LEMMA CreateOrResumePrompt ==
  ASSUME NEW h, Working(h), PromptOk(h)
  PROVE  PromptOk(CreateOrResumeSession(h))
<1>1. SameChat(h, CreateOrResumeSession(h)) /\ SamePref(h, CreateOrResumeSession(h))
      /\ Forgets(h, CreateOrResumeSession(h))
  BY CreateOrResumeFrame
<1> QED
  BY <1>1, PromptKept

LEMMA OnMcpResultPrompt ==
  ASSUME NEW h, Working(h), PromptOk(h), NEW m \in McpMethod, NEW v \in Verdicts(m), v # "error"
  PROVE  PromptOk(OnMcpResult(h, m, v))
<1>1. /\ m = "list" => v \in {"absent", "match", "differs"}
      /\ m = "test" => v \in {"ok", "refused"}
  BY DEF Verdicts, Refusals
<1>2. PromptOk(RequestMcp(h, "add", "adding")) /\ PromptOk(RequestMcp(h, "test", "testing"))
      /\ PromptOk(RequestMcp(h, "remove", "removing"))
  BY RequestMcpPrompt DEF McpMethod, Stage
<1>3. PromptOk(FinishMcpSetup(h)) /\ PromptOk(McpFailed(h))
  BY FinishMcpSetupPrompt, McpFailedPrompt
<1> QED
  BY <1>1, <1>2, <1>3 DEF OnMcpResult, McpMethod

LEMMA OnReloadResultPrompt ==
  ASSUME NEW h, Working(h), PromptOk(h), NEW v \in Verdicts("reload"), v # "error"
  PROVE  PromptOk(OnReloadResult(h, v))
<1> DEFINE c == [h EXCEPT !.reloadReq = 0]
           a == [c EXCEPT !.mcp = "approval"]
<1>1. v \in {"ok", "confirm", "refused"}
  BY DEF Verdicts, Refusals
<1>2. Working(c) /\ SameChat(h, c) /\ SamePref(h, c) /\ SameSession(h, c)
  BY UnreloadedFrame
<1>3. OnReloadResult(h, v) \in {a, McpFailed(c), MarkMcpReady(c)}
  BY <1>1 DEF OnReloadResult
<1> HIDE DEF c
<1>4. PromptOk(c)
  BY <1>2 DEF PromptOk, OneQueued, SameChat, SamePref, SameSession
<1>5. PromptOk(a)
  BY <1>2, <1>4 DEF PromptOk, OneQueued, Working, Hal
<1>6. PromptOk(MarkMcpReady(c))
  <2>1. SameChat(c, MarkMcpReady(c)) /\ SamePref(c, MarkMcpReady(c))
        /\ SameSession(c, MarkMcpReady(c))
    BY <1>2, MarkMcpReadyFrame
  <2> QED BY <1>4, <2>1 DEF PromptOk, OneQueued, SameChat, SamePref, SameSession
<1>7. PromptOk(McpFailed(c))
  BY <1>2, <1>4, McpFailedPrompt
<1> HIDE DEF a
<1> QED
  BY <1>3, <1>5, <1>6, <1>7

LEMMA OnPreferenceResultPrompt ==
  ASSUME NEW h, Working(h), PromptOk(h), NEW id, NEW m \in {"model", "effort"}, NEW v
  PROVE  PromptOk(OnPreferenceResult(h, id, m, v))
<1> DEFINE c == Dropped(h, id)
           e == CHOOSE e \in CurrentEntry(h, id, m) : TRUE
           d == IF e.persist THEN [c EXCEPT !.saved = e.route] ELSE c
<1>1. Working(c) /\ SameChat(h, c) /\ SamePref(h, c) /\ SameSession(h, c)
  BY DroppedType, DroppedFrame
<1>2. CASE CurrentEntry(h, id, m) = {}
  <2>1. OnPreferenceResult(h, id, m, v) = c
    BY <1>2 DEF OnPreferenceResult
  <2> HIDE DEF c
  <2>2. PromptOk(c)
    BY <1>1 DEF PromptOk, OneQueued, SameChat, SamePref, SameSession
  <2> QED BY <2>1, <2>2
<1>3. CASE CurrentEntry(h, id, m) # {}
  <2>1. OnPreferenceResult(h, id, m, v) \in
          {PreferenceRefused(c, e), RequestPreference(d, "effort"),
           FinishPreferences(c, TRUE, "ready")}
    BY <1>3 DEF OnPreferenceResult
  <2>2. e \in h.flow
    BY <1>3 DEF CurrentEntry
  <2>3. e.route \in Model
    BY <2>2 DEF Working, Hal, Flows, Preference
  <2> HIDE DEF c, e
  <2>4. PromptOk(c)
    BY <1>1 DEF PromptOk, OneQueued, SameChat, SamePref, SameSession
  <2>5. Working(d) /\ PromptOk(d)
    <3>1. Working([c EXCEPT !.saved = e.route])
      BY <1>1, <2>3 DEF Working, Hal
    <3>2. PromptOk([c EXCEPT !.saved = e.route])
      BY <1>1, <2>4 DEF PromptOk, OneQueued, Working, Hal
    <3> QED BY <1>1, <2>4, <3>1, <3>2
  <2> HIDE DEF d
  <2>6. PromptOk(RequestPreference(d, "effort"))
    <3> DEFINE k == RequestPreference(d, "effort")
    <3>1. SameChat(d, k) /\ SamePref(d, k) /\ SameSession(d, k)
      BY <2>5, RequestPreferenceFrame
    <3> HIDE DEF k
    <3>2. PromptOk(k)
      BY <2>5, <3>1 DEF PromptOk, OneQueued, SameChat, SamePref, SameSession
    <3> QED BY <3>2 DEF k
  <2>7. PromptOk(PreferenceRefused(c, e)) /\ PromptOk(FinishPreferences(c, TRUE, "ready"))
    BY <1>1, <2>4, PreferenceRefusedPrompt, FinishPreferencesPrompt DEF PromptOk, PrefState
  <2> QED BY <2>1, <2>6, <2>7
<1> QED
  BY <1>2, <1>3

LEMMA OnSessionResultPrompt ==
  ASSUME NEW h, Working(h), PromptOk(h), NEW s \in Session0
  PROVE  PromptOk(OnSessionResult(h, s))
<1> DEFINE c == [h EXCEPT !.sess = 0, !.runtime = s, !.stored = s, !.opening = "done"]
<1>1. Working(c) /\ SameChat(h, c)
  BY OpenedFrame
<1>2. OnSessionResult(h, s) = BeginPreferences(c)
  BY DEF OnSessionResult
<1> HIDE DEF c
<1>3. OneQueued(c)
  BY <1>1 DEF PromptOk, OneQueued, SameChat
<1> QED
  BY <1>1, <1>2, <1>3, BeginPreferencesPrompt

LEMMA OnRpcResultPrompt ==
  ASSUME NEW h, Working(h), PromptOk(h), NEW id, NEW m \in Method, NEW v \in Verdicts(m),
         v # "error", NEW s \in Session0
  PROVE  PromptOk(OnRpcResult(h, id, m, v, s))
BY OnMcpResultPrompt, OnReloadResultPrompt, OnSessionResultPrompt, OnPreferenceResultPrompt
   DEF OnRpcResult

LEMMA RejectAllPrompt ==
  ASSUME NEW h, Working(h), PromptOk(h)
  PROVE  PromptOk(RejectAll(h))
<1> DEFINE n == Len(h.pend)
<1>1. h.pend \in Seq(Entry)
  BY DEF Working, Hal
<1>2. PICK f : Turns(f, h, n) /\ RejectAll(h) = f[n]
  BY <1>1, RejectAllIs
<1>3. n \in Nat
  BY <1>1
<1> DEFINE S == {k \in Nat : Working(f[k]) /\ PromptOk(f[k])}
<1> HIDE DEF n
<1>4. 0 \in S
  <2>1. Working([h EXCEPT !.pend = <<>>])
    <3>1. <<>> \in Seq(Entry)
      OBVIOUS
    <3> QED BY <3>1 DEF Working, Hal
  <2>2. PromptOk([h EXCEPT !.pend = <<>>])
    BY DEF PromptOk, OneQueued, Working, Hal
  <2> QED BY <1>2, <2>1, <2>2 DEF Turns
<1>5. ASSUME NEW k \in 0..(n - 1), k \in S PROVE k + 1 \in S
  <2>1. k + 1 \in 1..n /\ (k + 1) - 1 = k
    BY <1>3
  <2>2. f[k + 1] = OnRpcError(f[k], h.pend[k + 1].id, h.pend[k + 1].m)
    BY <1>2, <2>1 DEF Turns
  <2>3. Working(f[k]) /\ PromptOk(f[k])
    BY <1>5
  <2> QED BY <2>1, <2>2, <2>3, OnRpcErrorType, OnRpcErrorPrompt
<1>6. n \in S
  <2> HIDE DEF S
  <2> QED BY <1>3, <1>4, <1>5, UpTo
<1> QED
  BY <1>2, <1>6

-----------------------------------------------------------------------------
(* What the tables say of a request.                                        *)

\* The requests that were pending when the step began, and the ones that are
\* pending now or still to be handled (E).
Earlier == {hal.pend[i] : i \in DOMAIN hal.pend}
Entries(h, E) == {h.pend[i] : i \in DOMAIN h.pend} \cup E

\* Whatever mentions the id of a request is about that request.
Agrees(h, e, sig) ==
  /\ \A f \in h.flow : f.id = e.id => f.m = e.m
  /\ h.mcpReq = e.id => e.m \in McpMethod
  /\ h.reloadReq = e.id => e.m = "reload"
  /\ h.sess = e.id => e.m \in {"create", "resume"}
  /\ \A i \in DOMAIN h.out : h.out[i].id = e.id => h.out[i].m = e.m
  /\ \A i \in DOMAIN sig : sig[i].t = "reply" /\ sig[i].id = e.id =>
       sig[i].v \in Verdicts(e.m) /\ (e.m \in {"create", "resume"} => sig[i].s # 0)
Distinct(h) == \A i, j \in DOMAIN h.pend : h.pend[i].id = h.pend[j].id => i = j
LinkOk(h, E) == Distinct(h) /\ \A e \in Entries(h, E) : Agrees(h, e, signals)

\* A default is only saved, and only to be saved, if the user chose it.
SavedOk(h) ==
  /\ h.saved \in h.chosen
  /\ h.persist => h.desired \in h.chosen
  /\ \A f \in h.flow : f.persist => f.route \in h.chosen

Grows(h, k) == \A i \in DOMAIN h.pend : \E j \in DOMAIN k.pend : k.pend[j] = h.pend[i]

\* A method keeps the tables in order, and every pending request.
Links(h, k) ==
  /\ Grows(h, k)
  /\ SavedOk(h) => SavedOk(k)
  /\ \A E \in SUBSET Earlier : LinkOk(h, E) => LinkOk(k, E)

LEMMA LinksSelf ==
  ASSUME NEW h
  PROVE  Links(h, h)
BY DEF Links, Grows

LEMMA LinksTransitive ==
  ASSUME NEW h, NEW j, NEW k, Links(h, j), Links(j, k)
  PROVE  Links(h, k)
<1>1. Grows(h, k)
  <2>1. Grows(h, j) /\ Grows(j, k)
    BY DEF Links
  <2> QED BY <2>1 DEF Grows
<1> QED
  BY <1>1 DEF Links

\* A method that makes one request at most, of kind m, and mentions it only as
\* one of that kind.
Posts(h, k, m) ==
  \/ SameQueues(h, k)
  \/ \E f : /\ f.id = FreshId(h) /\ f.m = m
            /\ k.pend = Append(h.pend, [id |-> FreshId(h), m |-> m])
            /\ k.out = Append(h.out, f)
Adds(h, k, m) ==
  LET n == FreshId(h) IN
  /\ Posts(h, k, m)
  /\ \A f \in k.flow :
       \/ \E g \in h.flow : /\ g.id = f.id /\ g.m = f.m
                            /\ g.persist = f.persist /\ g.route = f.route
       \/ f.id = n /\ f.m = m /\ f.persist = h.persist /\ f.route = h.desired
  /\ k.mcpReq \in {0, h.mcpReq} \/ (k.mcpReq = n /\ m \in McpMethod)
  /\ k.reloadReq \in {0, h.reloadReq} \/ (k.reloadReq = n /\ m = "reload")
  /\ k.sess \in {0, h.sess} \/ (k.sess = n /\ m \in {"create", "resume"})
  /\ SameWish(h, k) /\ SameSaved(h, k)

LEMMA AddsLinks ==
  ASSUME NEW h, Working(h), NEW m, NEW k, Adds(h, k, m)
  PROVE  Links(h, k)
<1> DEFINE n == FreshId(h)
           new == [id |-> n, m |-> m]
<1>1. n \in Ids /\ n # 0 /\ n \notin UsedIds(h)
  BY Fresh, HermesAssumption
<1>2. h.pend \in Seq(Entry) /\ h.out \in Seq(Frame) /\ hal.pend \in Seq(Entry)
  BY DEF Working, Hal
<1>3. Posts(h, k, m)
  BY DEF Adds
<1>4. /\ \A i \in DOMAIN h.pend : h.pend[i].id # n
      /\ \A i \in DOMAIN h.out : h.out[i].id # n
      /\ \A i \in DOMAIN signals : signals[i].id # n
      /\ \A g \in h.flow : g.id # n
      /\ h.mcpReq # n /\ h.reloadReq # n /\ h.sess # n
      /\ \A e \in Earlier : e.id # n
  BY <1>1 DEF UsedIds, PendIds, Earlier
<1>5. /\ \A f \in k.flow :
           \/ \E g \in h.flow : g.id = f.id /\ g.m = f.m
           \/ f.id = n /\ f.m = m
      /\ k.mcpReq \in {0, h.mcpReq} \/ (k.mcpReq = n /\ m \in McpMethod)
      /\ k.reloadReq \in {0, h.reloadReq} \/ (k.reloadReq = n /\ m = "reload")
      /\ k.sess \in {0, h.sess} \/ (k.sess = n /\ m \in {"create", "resume"})
  BY DEF Adds
<1>6. /\ \A i \in DOMAIN k.out : (\E j \in DOMAIN h.out : k.out[i] = h.out[j])
                                 \/ (k.out[i].id = n /\ k.out[i].m = m)
      /\ \A i \in DOMAIN k.pend : (i \in DOMAIN h.pend /\ k.pend[i] = h.pend[i])
                                  \/ (k.pend[i] = new /\ i = Len(h.pend) + 1)
      /\ DOMAIN h.pend \subseteq DOMAIN k.pend
      /\ \A i \in DOMAIN h.pend : k.pend[i] = h.pend[i]
  <2>1. CASE SameQueues(h, k)
    BY <2>1 DEF SameQueues
  <2>2. CASE ~SameQueues(h, k)
    <3>1. PICK f : /\ f.id = n /\ f.m = m
                   /\ k.pend = Append(h.pend, new) /\ k.out = Append(h.out, f)
      BY <1>3, <2>2 DEF Posts
    <3> HIDE DEF new, n
    <3>2. /\ \A i \in DOMAIN k.out : (i \in DOMAIN h.out /\ k.out[i] = h.out[i]) \/ k.out[i] = f
      BY <1>2, <3>1
    <3>3. \A i \in DOMAIN k.pend : (i \in DOMAIN h.pend /\ k.pend[i] = h.pend[i])
                                   \/ (k.pend[i] = new /\ i = Len(h.pend) + 1)
      BY <1>2, <3>1
    <3>4. /\ DOMAIN h.pend \subseteq DOMAIN k.pend
          /\ \A i \in DOMAIN h.pend : k.pend[i] = h.pend[i]
      BY <1>2, <3>1
    <3> QED BY <3>1, <3>2, <3>3, <3>4
  <2> QED BY <2>1, <2>2
<1>7. Grows(h, k)
  BY <1>6 DEF Grows
<1>8. ASSUME SavedOk(h) PROVE SavedOk(k)
  BY <1>8 DEF Adds, SavedOk, SameWish, SameSaved
<1>9. ASSUME NEW E \in SUBSET Earlier, LinkOk(h, E) PROVE LinkOk(k, E)
  <2>1. Distinct(k)
    <3>1. Distinct(h)
      BY <1>9 DEF LinkOk
    <3>2. new.id = n
      OBVIOUS
    <3> HIDE DEF n, new
    <3> QED BY <1>4, <1>6, <3>1, <3>2 DEF Distinct
  <2>2. ASSUME NEW e \in Entries(k, E) PROVE Agrees(k, e, signals)
    <3>1. CASE e \in Entries(h, E)
      <4>1. Agrees(h, e, signals) /\ e.id # n
        BY <1>4, <1>9, <3>1 DEF LinkOk, Entries
      <4>2. e.id # 0
        <5>1. e \in Entry
          BY <1>2, <3>1 DEF Entries, Earlier
        <5> QED BY <5>1, HermesAssumption DEF Entry
      <4> HIDE DEF n
      <4> QED BY <1>5, <1>6, <4>1, <4>2 DEF Agrees
    <3>2. CASE e \notin Entries(h, E)
      <4>1. e = new /\ e.id = n /\ e.m = m
        BY <1>6, <3>2 DEF Entries
      <4> HIDE DEF n, new
      <4> QED BY <1>1, <1>4, <1>5, <1>6, <4>1 DEF Agrees
    <3> QED BY <3>1, <3>2
  <2> QED BY <2>1, <2>2 DEF LinkOk
<1> QED
  BY <1>7, <1>8, <1>9 DEF Links

\* No request at all.
LEMMA KeptLinks ==
  ASSUME NEW h, Working(h), NEW k, SameWish(h, k), SameSaved(h, k), SameQueues(h, k),
         \A f \in k.flow : \E g \in h.flow : /\ g.id = f.id /\ g.m = f.m
                                             /\ g.persist = f.persist /\ g.route = f.route,
         k.mcpReq \in {0, h.mcpReq}, k.reloadReq \in {0, h.reloadReq}, k.sess \in {0, h.sess}
  PROVE  Links(h, k)
<1>1. Adds(h, k, "prompt")
  BY DEF Adds, Posts
<1> QED
  BY <1>1, AddsLinks

\* The same, of a method that leaves the preference table alone too.
LEMMA CalmLinks ==
  ASSUME NEW h, Working(h), NEW k, SameOuter(h, k), SameSaved(h, k), SameQueues(h, k),
         SameFlow(h, k), k.mcpReq \in {0, h.mcpReq}, k.reloadReq \in {0, h.reloadReq},
         k.sess \in {0, h.sess}
  PROVE  Links(h, k)
BY KeptLinks DEF SameOuter, SameFlow

LEMMA PostedAre ==
  ASSUME NEW h, Working(h), NEW m, NEW arg, NEW k, SameQueues(Posted(h, m, arg), k)
  PROVE  Posts(h, k, m)
<1>1. /\ Posted(h, m, arg).pend = Append(h.pend, [id |-> FreshId(h), m |-> m])
      /\ Posted(h, m, arg).out =
           Append(h.out, [id |-> FreshId(h), m |-> m, s |-> h.runtime, arg |-> arg])
  BY DEF Posted, Working, Hal
<1> QED
  BY <1>1 DEF SameQueues, Posts

LEMMA SubmitPromptLinks ==
  ASSUME NEW h, Working(h), NEW p \in Prompt, NEW k, k = SubmitPrompt(h, p)
  PROVE  Links(h, k)
<1>1. /\ SameOuter(h, k) /\ SameMcp(h, k) /\ SameSession(h, k) /\ SameFlow(h, k)
      /\ SameSaved(h, k)
  BY SubmitPromptFrame
<1>2. Posts(h, k, "prompt")
  <2> DEFINE want == [need |-> Required(h), settled |-> h.opening = "done"]
  <2>1. CASE Usable(h)
    <3>1. SameQueues(Posted(h, "prompt", want), k)
      BY <2>1 DEF SubmitPrompt, SameQueues, Posted, Working, Hal
    <3> QED BY <3>1, PostedAre
  <2>2. CASE ~Usable(h)
    BY <2>2 DEF SubmitPrompt, Posts, SameQueues, Working, Hal
  <2> QED BY <2>1, <2>2
<1>3. Adds(h, k, "prompt")
  BY <1>1, <1>2 DEF Adds, SameOuter, SameMcp, SameSession, SameFlow
<1> QED
  BY <1>3, AddsLinks

LEMMA CreateOrResumeLinks ==
  ASSUME NEW h, Working(h), NEW k, k = CreateOrResumeSession(h)
  PROVE  Links(h, k)
<1> DEFINE m == IF h.stored # 0 THEN "resume" ELSE "create"
<1>1. SameOuter(h, k) /\ SameMcp(h, k) /\ SameFlow(h, k) /\ SameSaved(h, k)
  BY CreateOrResumeFrame
<1>2. m \in {"create", "resume"}
  OBVIOUS
<1>3. Posts(h, k, m) /\ (k.sess = h.sess \/ k.sess = FreshId(h))
  <2>1. CASE h.sess # 0 \/ ~Usable(h)
    BY <2>1 DEF CreateOrResumeSession, Posts, SameQueues, Working, Hal
  <2>2. CASE h.sess = 0 /\ Usable(h)
    <3>1. k = [Posted(h, m, h.stored) EXCEPT !.sess = FreshId(h)]
      BY <2>2 DEF CreateOrResumeSession
    <3> HIDE DEF m
    <3>2. SameQueues(Posted(h, m, h.stored), k) /\ k.sess = FreshId(h)
      BY <3>1 DEF SameQueues, Posted, Working, Hal
    <3> QED BY <3>2, PostedAre
  <2> QED BY <2>1, <2>2
<1> HIDE DEF m
<1>4. Adds(h, k, m)
  BY <1>1, <1>2, <1>3 DEF Adds, SameOuter, SameMcp, SameFlow
<1> QED
  BY <1>4, AddsLinks

LEMMA SendPromptLinks ==
  ASSUME NEW h, Working(h), NEW p \in Prompt, NEW k, k = SendPrompt(h, p)
  PROVE  Links(h, k)
<1>1. CASE k = [h EXCEPT !.fate[p] = "settled"]
  <2>1. /\ SameOuter(h, k) /\ SameMcp(h, k) /\ SameSession(h, k) /\ SameFlow(h, k)
        /\ SameSaved(h, k) /\ SameQueues(h, k)
    BY <1>1 DEF Working, Hal, SameOuter, SameWish, SameMcp, SameSession, SameFlow, SameSaved,
       SameQueues
  <2> QED BY <2>1, CalmLinks DEF SameMcp, SameSession
<1>2. CASE k = SubmitPrompt(h, p)
  BY <1>2, SubmitPromptLinks
<1> DEFINE q == Queued(h, p)
<1>3. Working(q) /\ Links(h, q)
  <2>1. /\ SameOuter(h, q) /\ SameMcp(h, q) /\ SameSession(h, q) /\ SameFlow(h, q)
        /\ SameSaved(h, q) /\ SameQueues(h, q) /\ Working(q)
    BY QueuedFrame
  <2> HIDE DEF q
  <2> QED BY <2>1, CalmLinks DEF SameMcp, SameSession
<1>4. Links(q, CreateOrResumeSession(q))
  BY <1>3, CreateOrResumeLinks
<1>5. k = q \/ k = CreateOrResumeSession(q) \/ k = SubmitPrompt(h, p)
      \/ k = [h EXCEPT !.fate[p] = "settled"]
  BY SendPromptIs
<1> HIDE DEF q
<1> QED
  BY <1>1, <1>2, <1>3, <1>4, <1>5, LinksTransitive

LEMMA UndeliveredLinks ==
  ASSUME NEW h, Working(h), NEW k, k = Undelivered(h)
  PROVE  Links(h, k)
<1>1. /\ SameOuter(h, k) /\ SameMcp(h, k) /\ SameSession(h, k) /\ SameFlow(h, k)
      /\ SameSaved(h, k) /\ SameQueues(h, k)
  BY UndeliveredFrame
<1> QED
  BY <1>1, CalmLinks DEF SameMcp, SameSession

LEMMA FinishPreferencesLinks ==
  ASSUME NEW h, Working(h), NEW deliver \in BOOLEAN, NEW state \in PrefState,
         NEW k, k = FinishPreferences(h, deliver, state)
  PROVE  Links(h, k)
<1> DEFINE d == Ended(h, deliver, state)
           u == [d EXCEPT !.queued = NoPrompt]
<1>1. Working(d) /\ Links(h, d)
  <2>1. /\ SameOuter(h, d) /\ SameMcp(h, d) /\ SameSession(h, d) /\ SameFlow(h, d)
        /\ SameSaved(h, d) /\ SameQueues(h, d) /\ Working(d)
    BY EndedFrame
  <2> HIDE DEF d
  <2> QED BY <2>1, CalmLinks DEF SameMcp, SameSession
<1>2. Links(h, Undelivered(d))
  BY <1>1, UndeliveredLinks, LinksTransitive
<1>3. (h.queued # NoPrompt /\ k = SendPrompt(u, h.queued)) \/ k = Undelivered(d)
  BY FinishPreferencesIs
<1> HIDE DEF d
<1>4. Working(u) /\ Links(d, u)
  <2>1. /\ SameOuter(d, u) /\ SameMcp(d, u) /\ SameSession(d, u) /\ SameFlow(d, u)
        /\ SameSaved(d, u) /\ SameQueues(d, u) /\ Working(u)
    BY <1>1, UnqueuedFrame
  <2> HIDE DEF u
  <2> QED BY <1>1, <2>1, CalmLinks DEF SameMcp, SameSession
<1> HIDE DEF u
<1>5. ASSUME h.queued # NoPrompt PROVE Links(u, SendPrompt(u, h.queued))
  <2>1. h.queued \in Prompt
    BY <1>5 DEF Working, Hal
  <2> QED BY <1>4, <2>1, SendPromptLinks
<1> QED
  BY <1>1, <1>2, <1>3, <1>4, <1>5, LinksTransitive

LEMMA FailPreferencesLinks ==
  ASSUME NEW h, Working(h)
  PROVE  Links(h, FailPreferences(h))
BY FinishPreferencesLinks DEF FailPreferences, PrefState

LEMMA PreferenceRefusedLinks ==
  ASSUME NEW h, Working(h), NEW e
  PROVE  Links(h, PreferenceRefused(h, e))
BY FailPreferencesLinks, FinishPreferencesLinks DEF PreferenceRefused, PrefState

LEMMA NextGenerationLinks ==
  ASSUME NEW h, Working(h), NEW k, SameWish(h, k), SameSaved(h, k), SameQueues(h, k),
         SameMcp(h, k), SameSession(h, k), k.flow = {[f EXCEPT !.cur = FALSE] : f \in h.flow}
  PROVE  Links(h, k)
<1>1. \A f \in k.flow : \E g \in h.flow : /\ g.id = f.id /\ g.m = f.m
                                          /\ g.persist = f.persist /\ g.route = f.route
  <2> TAKE f \in k.flow
  <2>1. PICK g \in h.flow : f = [g EXCEPT !.cur = FALSE]
    OBVIOUS
  <2>2. g \in Preference
    BY DEF Working, Hal, Flows
  <2> WITNESS g \in h.flow
  <2> QED BY <2>1, <2>2 DEF Preference
<1> QED
  BY <1>1, KeptLinks DEF SameMcp, SameSession

LEMMA RequestPreferenceLinks ==
  ASSUME NEW h, Working(h), NEW m \in {"model", "effort"}, NEW k, k = RequestPreference(h, m)
  PROVE  Links(h, k)
<1>1. /\ SameOuter(h, k) /\ SameMcp(h, k) /\ SameSession(h, k) /\ SameSaved(h, k)
      /\ k.flow = h.flow \cup {Choice(h, m)}
      /\ Usable(h) => SameQueues(Posted(h, m, h.desired), k)
      /\ ~Usable(h) => SameQueues(h, k)
  BY RequestPreferenceFrame
<1>2. Posts(h, k, m)
  <2>1. CASE Usable(h)
    BY <1>1, <2>1, PostedAre
  <2>2. CASE ~Usable(h)
    BY <1>1, <2>2 DEF Posts
  <2> QED BY <2>1, <2>2
<1>3. Adds(h, k, m)
  <2>1. \A f \in k.flow :
          \/ \E g \in h.flow : /\ g.id = f.id /\ g.m = f.m
                               /\ g.persist = f.persist /\ g.route = f.route
          \/ f.id = FreshId(h) /\ f.m = m /\ f.persist = h.persist /\ f.route = h.desired
    BY <1>1 DEF Choice
  <2> QED BY <1>1, <1>2, <2>1 DEF Adds, SameOuter, SameMcp, SameSession
<1> QED
  BY <1>3, AddsLinks

LEMMA BeginPreferencesLinks ==
  ASSUME NEW h, Working(h), NEW k, k = BeginPreferences(h)
  PROVE  Links(h, k)
<1> DEFINE g == Begun(h)
<1>1. Working(g) /\ Links(h, g)
  <2>1. /\ SameOuter(h, g) /\ SameMcp(h, g) /\ SameSession(h, g) /\ SameSaved(h, g)
        /\ SameQueues(h, g) /\ g.flow = {[f EXCEPT !.cur = FALSE] : f \in h.flow} /\ Working(g)
    BY BegunFrame
  <2> HIDE DEF g
  <2> QED BY <2>1, NextGenerationLinks DEF SameOuter
<1>2. k = FailPreferences(g) \/ k = RequestPreference(g, "model")
  BY BeginPreferencesIs
<1> HIDE DEF g
<1>3. Links(g, k)
  BY <1>1, <1>2, FailPreferencesLinks, RequestPreferenceLinks
<1> QED
  BY <1>1, <1>3, LinksTransitive

LEMMA RequestMcpLinks ==
  ASSUME NEW h, Working(h), NEW m \in McpMethod, NEW stage \in Stage,
         NEW k, k = RequestMcp(h, m, stage)
  PROVE  Links(h, k)
<1>1. /\ SameOuter(h, k) /\ SameSession(h, k) /\ SameFlow(h, k) /\ SameSaved(h, k)
      /\ k.mcpReq = FreshId(h) /\ k.reloadReq = h.reloadReq
      /\ Usable(h) => SameQueues(Posted(h, m, 0), k)
      /\ ~Usable(h) => SameQueues(h, k)
  BY RequestMcpFrame
<1>2. Posts(h, k, m)
  <2>1. CASE Usable(h)
    BY <1>1, <2>1, PostedAre
  <2>2. CASE ~Usable(h)
    BY <1>1, <2>2 DEF Posts
  <2> QED BY <2>1, <2>2
<1>3. Adds(h, k, m)
  BY <1>1, <1>2 DEF Adds, SameOuter, SameSession, SameFlow
<1> QED
  BY <1>3, AddsLinks

LEMMA EnsureMcpLinks ==
  ASSUME NEW h, Working(h)
  PROVE  Links(h, EnsureMcp(h))
BY RequestMcpLinks, LinksSelf DEF EnsureMcp, McpMethod, Stage

LEMMA FinishMcpSetupLinks ==
  ASSUME NEW h, Working(h), NEW k, k = FinishMcpSetup(h)
  PROVE  Links(h, k)
<1>1. CASE h.runtime # 0
  <2> DEFINE d == SetUp(h)
  <2>1. /\ SameOuter(h, k) /\ SameSession(h, k) /\ SameFlow(h, k) /\ SameSaved(h, k)
        /\ k.mcpReq = 0 /\ k.reloadReq = FreshId(d)
        /\ Usable(h) => SameQueues(Posted(d, "reload", 0), k)
        /\ ~Usable(h) => SameQueues(d, k)
    BY <1>1, ReloadingFrame
  <2>2. /\ SameOuter(h, d) /\ SameSession(h, d) /\ SameFlow(h, d) /\ SameSaved(h, d)
        /\ SameQueues(h, d) /\ d.mcpReq = 0 /\ d.reloadReq = h.reloadReq /\ Working(d)
    BY SetUpFrame
  <2> HIDE DEF d
  <2>3. Links(h, d)
    BY <2>2, CalmLinks DEF SameSession
  <2>4. Posts(d, k, "reload")
    <3>1. CASE Usable(h)
      BY <2>1, <2>2, <3>1, PostedAre
    <3>2. CASE ~Usable(h)
      BY <2>1, <3>2 DEF Posts
    <3> QED BY <3>1, <3>2
  <2>5. SameOuter(d, k) /\ SameSession(d, k) /\ SameFlow(d, k) /\ SameSaved(d, k)
    BY <2>1, <2>2 DEF SameOuter, SameWish, SameSession, SameFlow, SameSaved
  <2>6. Adds(d, k, "reload")
    BY <2>1, <2>2, <2>4, <2>5 DEF Adds, SameOuter, SameSession, SameFlow
  <2>7. Links(d, k)
    BY <2>2, <2>6, AddsLinks
  <2> QED BY <2>3, <2>7, LinksTransitive
<1>2. CASE h.runtime = 0
  <2> DEFINE r == MarkMcpReady(SetUp(h))
  <2>1. /\ k = CreateOrResumeSession(r)
        /\ SameOuter(h, r) /\ SameSession(h, r) /\ SameFlow(h, r) /\ SameSaved(h, r)
        /\ SameQueues(h, r) /\ r.mcpReq = 0 /\ r.reloadReq = 0 /\ Working(r)
    BY <1>2, RegisteredFrame
  <2> HIDE DEF r
  <2>2. Links(h, r)
    BY <2>1, CalmLinks DEF SameSession
  <2>3. Links(r, k)
    BY <2>1, CreateOrResumeLinks
  <2> QED BY <2>2, <2>3, LinksTransitive
<1> QED
  BY <1>1, <1>2

LEMMA McpFailedLinks ==
  ASSUME NEW h, Working(h), NEW k, k = McpFailed(h)
  PROVE  Links(h, k)
<1> DEFINE d == Degraded(h)
           s == IF h.runtime = 0 THEN CreateOrResumeSession(d) ELSE d
<1>1. /\ SameOuter(h, d) /\ SameSession(h, d) /\ SameFlow(h, d) /\ SameSaved(h, d)
      /\ SameQueues(h, d) /\ d.mcpReq = 0 /\ d.reloadReq = h.reloadReq /\ Working(d)
  BY DegradedFrame
<1>2. Working(s) /\ SameBut(s, k)
  BY McpFailedIs
<1> HIDE DEF d
<1>3. Links(h, d)
  BY <1>1, CalmLinks DEF SameSession
<1>4. Links(d, s)
  BY <1>1, CreateOrResumeLinks, LinksSelf
<1> HIDE DEF s
<1>5. Links(s, k)
  BY <1>2, CalmLinks DEF SameBut, SameSession
<1> QED
  BY <1>3, <1>4, <1>5, LinksTransitive

LEMMA DroppedLinks ==
  ASSUME NEW h, Working(h), NEW id, NEW k, k = Dropped(h, id)
  PROVE  Links(h, k)
<1>1. /\ SameOuter(h, k) /\ SameSession(h, k) /\ SameMcp(h, k) /\ SameSaved(h, k)
      /\ SameQueues(h, k) /\ k.flow = {f \in h.flow : f.id # id}
  BY DroppedFrame
<1>2. \A f \in k.flow : \E g \in h.flow : /\ g.id = f.id /\ g.m = f.m
                                          /\ g.persist = f.persist /\ g.route = f.route
  BY <1>1
<1> QED
  BY <1>1, <1>2, KeptLinks DEF SameOuter, SameSession, SameMcp

LEMMA OnRpcErrorLinks ==
  ASSUME NEW h, Working(h), NEW id, NEW m
  PROVE  Links(h, OnRpcError(h, id, m))
<1> DEFINE c == NoSession(h, m)
           u == [h EXCEPT !.reloadReq = 0]
           z == [c EXCEPT !.stored = 0, !.runtime = 0]
           d == Dropped(c, id)
           k == OnRpcError(h, id, m)
<1>1. Working(c) /\ Links(h, c)
  <2>1. /\ SameOuter(h, c) /\ SameMcp(h, c) /\ SameFlow(h, c) /\ SameSaved(h, c)
        /\ SameQueues(h, c) /\ c.sess = IF m \in {"create", "resume"} THEN 0 ELSE h.sess
    BY NoSessionFrame
  <2>2. Working(c)
    BY NoSessionType
  <2> HIDE DEF c
  <2> QED BY <2>1, <2>2, CalmLinks DEF SameMcp
<1>2. Working(u) /\ Links(h, u)
  <2>1. /\ SameOuter(h, u) /\ SameSession(h, u) /\ SameFlow(h, u) /\ SameSaved(h, u)
        /\ SameQueues(h, u) /\ u.mcpReq = h.mcpReq /\ u.reloadReq = 0 /\ Working(u)
    BY UnreloadedFrame
  <2> HIDE DEF u
  <2> QED BY <2>1, CalmLinks DEF SameSession
<1>3. \/ k = McpFailed(h) \/ k = McpFailed(u) \/ k = CreateOrResumeSession(z)
      \/ k = d \/ \E e : k = PreferenceRefused(d, e)
  BY OnRpcErrorIs
<1> HIDE DEF c, u
<1>4. Working(z) /\ Links(c, z)
  <2>1. /\ SameOuter(c, z) /\ SameMcp(c, z) /\ SameFlow(c, z) /\ SameSaved(c, z)
        /\ SameQueues(c, z) /\ z.sess = c.sess /\ Working(z)
    BY <1>1, ForgottenFrame
  <2> HIDE DEF z
  <2> QED BY <1>1, <2>1, CalmLinks DEF SameMcp
<1>5. Working(d) /\ Links(c, d)
  BY <1>1, DroppedLinks, DroppedType
<1> HIDE DEF z, d, k
<1>6. CASE k = McpFailed(h) \/ k = McpFailed(u)
  BY <1>2, <1>6, McpFailedLinks, LinksTransitive DEF k
<1>7. CASE k = CreateOrResumeSession(z)
  <2>1. Links(z, k)
    BY <1>4, <1>7, CreateOrResumeLinks
  <2>2. Links(h, k)
    BY <1>1, <1>4, <2>1, LinksTransitive
  <2> QED BY <2>2 DEF k
<1>8. CASE k = d \/ \E e : k = PreferenceRefused(d, e)
  <2>1. Links(d, k)
    BY <1>5, <1>8, PreferenceRefusedLinks, LinksSelf
  <2>2. Links(h, k)
    BY <1>1, <1>5, <2>1, LinksTransitive
  <2> QED BY <2>2 DEF k
<1> QED
  BY <1>3, <1>6, <1>7, <1>8

LEMMA OnMcpResultLinks ==
  ASSUME NEW h, Working(h), NEW m \in McpMethod, NEW v \in Verdicts(m), v # "error"
  PROVE  Links(h, OnMcpResult(h, m, v))
<1>1. /\ m = "list" => v \in {"absent", "match", "differs"}
      /\ m = "test" => v \in {"ok", "refused"}
  BY DEF Verdicts, Refusals
<1>2. Links(h, RequestMcp(h, "add", "adding")) /\ Links(h, RequestMcp(h, "test", "testing"))
      /\ Links(h, RequestMcp(h, "remove", "removing"))
  BY RequestMcpLinks DEF McpMethod, Stage
<1>3. Links(h, FinishMcpSetup(h)) /\ Links(h, McpFailed(h))
  BY FinishMcpSetupLinks, McpFailedLinks
<1> QED
  BY <1>1, <1>2, <1>3 DEF OnMcpResult, McpMethod

LEMMA OnReloadResultLinks ==
  ASSUME NEW h, Working(h), NEW v \in Verdicts("reload"), v # "error"
  PROVE  Links(h, OnReloadResult(h, v))
<1> DEFINE c == [h EXCEPT !.reloadReq = 0]
           a == [c EXCEPT !.mcp = "approval"]
           k == OnReloadResult(h, v)
<1>1. v \in {"ok", "confirm", "refused"}
  BY DEF Verdicts, Refusals
<1>2. /\ SameOuter(h, c) /\ SameSession(h, c) /\ SameFlow(h, c) /\ SameSaved(h, c)
      /\ SameQueues(h, c) /\ c.mcpReq = h.mcpReq /\ c.reloadReq = 0 /\ Working(c)
  BY UnreloadedFrame
<1>3. k \in {a, McpFailed(c), MarkMcpReady(c)}
  BY <1>1 DEF OnReloadResult
<1> HIDE DEF c
<1>4. Links(h, c)
  BY <1>2, CalmLinks DEF SameSession
<1>5. Links(c, a)
  <2>1. /\ SameOuter(c, a) /\ SameSession(c, a) /\ SameFlow(c, a) /\ SameSaved(c, a)
        /\ SameQueues(c, a) /\ a.mcpReq = c.mcpReq /\ a.reloadReq = c.reloadReq
    BY <1>2 DEF Working, Hal, SameOuter, SameWish, SameSession, SameFlow, SameSaved, SameQueues
  <2> QED BY <1>2, <2>1, CalmLinks DEF SameSession
<1>6. Links(c, MarkMcpReady(c))
  <2> DEFINE r == MarkMcpReady(c)
  <2>1. /\ SameOuter(c, r) /\ SameSession(c, r) /\ SameFlow(c, r) /\ SameSaved(c, r)
        /\ SameQueues(c, r) /\ r.mcpReq = 0 /\ r.reloadReq = 0
    BY <1>2, MarkMcpReadyFrame
  <2> HIDE DEF r
  <2>2. Links(c, r)
    BY <1>2, <2>1, CalmLinks DEF SameSession
  <2> QED BY <2>2 DEF r
<1>7. Links(c, McpFailed(c))
  BY <1>2, McpFailedLinks
<1> HIDE DEF a, k
<1>8. Links(c, k)
  BY <1>3, <1>5, <1>6, <1>7
<1>9. Links(h, k)
  BY <1>4, <1>8, LinksTransitive
<1> QED
  BY <1>9 DEF k

-----------------------------------------------------------------------------
(* The route of a session.                                                  *)

\* A session that was opened over the connection in use.
Settled(h) == Usable(h) /\ h.opening = "done" /\ h.runtime # 0

\* The frame f leaves session s on a route of R.
Spares(f, s, R) == /\ f.m = "model" /\ f.s = s => f.arg \in R
                   /\ f.m = "resume" => f.arg # s

\* The session is on the desired route, and no frame on its way changes that.
Clean(h, g) == /\ g[h.runtime] = h.desired
               /\ \A i \in DOMAIN h.out : Spares(h.out[i], h.runtime, {h.desired})

\* Frame i puts the session on the desired route for good.
LastWord(h, i) ==
  /\ h.out[i].m = "model" /\ h.out[i].s = h.runtime /\ h.out[i].arg = h.desired
  /\ \A j \in i..Len(h.out) : Spares(h.out[j], h.runtime, {h.desired})

\* What an entry of the current generation says of the route.
EntryOk(h, f, sig, g) ==
  /\ f.fallback = h.fallback
  /\ ~h.fallback /\ f.m = "effort" => Clean(h, g)
  /\ ~h.fallback /\ f.m = "model" =>
       /\ \A i \in DOMAIN h.out : h.out[i].id = f.id => LastWord(h, i)
       /\ \A i \in DOMAIN sig : sig[i].id = f.id /\ sig[i].v = "ok" => Clean(h, g)
FlowOk(h, sig, g) == Settled(h) => \A f \in h.flow : f.cur => EntryOk(h, f, sig, g)

\* A turn that forbids the fallback may submit only if the route is in place.
InPlace(h, g) == Settled(h) /\ ~h.fallback => Clean(h, g)
RouteOk(h, sig, g) ==
  FlowOk(h, sig, g) /\ (~h.prefPending /\ ~h.prefFailed => InPlace(h, g))

\* The prompts on their way find the route that their turn requires.
Finds(o, g, i) == /\ g[o[i].s] \in o[i].arg.need
                  /\ \A j \in 1..i : Spares(o[j], o[i].s, o[i].arg.need)
FramesOk(o, g) ==
  \A i \in DOMAIN o : o[i].m = "prompt" =>
    o[i].s # 0 /\ (o[i].arg.settled /\ o[i].arg.need # Model => Finds(o, g, i))

Routed(h) == RouteOk(h, signals, gate) /\ FramesOk(h.out, gate)

\* The out queue after a call: as before, or with one frame of kind m more.
Sends(h, k, m) ==
  \/ k.out = h.out
  \/ \E f : f.id = FreshId(h) /\ f.m = m /\ k.out = Append(h.out, f)

LEMMA PostsSends ==
  ASSUME NEW h, NEW m, NEW k, Posts(h, k, m)
  PROVE  Sends(h, k, m)
BY DEF Posts, Sends, SameQueues

\* A frame that is not a prompt does not disturb the prompts before it.
LEMMA FramesSent ==
  ASSUME NEW h, Working(h), NEW m, m # "prompt", NEW k, Sends(h, k, m),
         FramesOk(h.out, gate)
  PROVE  FramesOk(k.out, gate)
<1>1. h.out \in Seq(Frame)
  BY DEF Working, Hal
<1>2. CASE k.out # h.out
  <2>1. PICK f : f.m = m /\ k.out = Append(h.out, f)
    BY <1>2 DEF Sends
  <2> QED BY <1>1, <2>1 DEF FramesOk, Finds
<1> QED
  BY <1>2

\* A frame that changes no route.
LEMMA CleanSent ==
  ASSUME NEW h, Working(h), NEW m, m \notin {"model", "resume"}, NEW k, Sends(h, k, m),
         k.runtime = h.runtime, SameWish(h, k), Clean(h, gate)
  PROVE  Clean(k, gate)
<1>1. h.out \in Seq(Frame)
  BY DEF Working, Hal
<1>2. \A i \in DOMAIN k.out : Spares(k.out[i], h.runtime, {h.desired})
  <2>1. CASE k.out = h.out
    BY <2>1 DEF Clean
  <2>2. CASE k.out # h.out
    <3>1. PICK f : f.m = m /\ k.out = Append(h.out, f)
      BY <2>2 DEF Sends
    <3> QED BY <1>1, <3>1 DEF Clean, Spares
  <2> QED BY <2>1, <2>2
<1> QED
  BY <1>2 DEF Clean, SameWish

LEMMA FlowSent ==
  ASSUME NEW h, Working(h), NEW m, m \notin {"model", "resume"}, NEW k, Sends(h, k, m),
         k.conn = h.conn, k.runtime = h.runtime, k.opening = h.opening, SameWish(h, k),
         k.flow \subseteq h.flow, FlowOk(h, signals, gate)
  PROVE  FlowOk(k, signals, gate)
<1> DEFINE n == FreshId(h)
<1> SUFFICES ASSUME Settled(k), NEW f \in k.flow, f.cur
             PROVE  EntryOk(k, f, signals, gate)
  BY DEF FlowOk
<1>1. EntryOk(h, f, signals, gate) /\ f \in h.flow
  BY DEF FlowOk, Settled, Usable, SameWish
<1>2. f.id # n
  BY <1>1, Fresh DEF UsedIds
<1>3. h.out \in Seq(Frame)
  BY DEF Working, Hal
<1>4. Clean(h, gate) => Clean(k, gate)
  BY CleanSent
<1>5. k.fallback = h.fallback
  BY DEF SameWish
<1>6. ASSUME NEW i \in DOMAIN k.out, k.out[i].id = f.id, ~h.fallback, f.m = "model"
      PROVE  LastWord(k, i)
  <2>1. CASE k.out = h.out
    BY <1>1, <1>6, <2>1 DEF EntryOk, LastWord, SameWish
  <2>2. CASE k.out # h.out
    <3>1. PICK x : x.id = n /\ x.m = m /\ k.out = Append(h.out, x)
      BY <2>2 DEF Sends
    <3> HIDE DEF n
    <3>2. i \in DOMAIN h.out /\ k.out[i] = h.out[i]
      BY <1>2, <1>3, <1>6, <3>1
    <3>3. LastWord(h, i)
      BY <1>1, <1>6, <3>2 DEF EntryOk
    <3>4. \A j \in i..Len(k.out) : Spares(k.out[j], h.runtime, {h.desired})
      BY <1>3, <3>1, <3>2, <3>3 DEF LastWord, Spares
    <3> QED BY <3>2, <3>3, <3>4 DEF LastWord, SameWish
  <2> QED BY <2>1, <2>2
<1> QED
  BY <1>1, <1>4, <1>5, <1>6 DEF EntryOk

LEMMA PlaceSent ==
  ASSUME NEW h, Working(h), NEW m, m \notin {"model", "resume"}, NEW k, Sends(h, k, m),
         k.conn = h.conn, k.runtime = h.runtime, k.opening = h.opening, SameWish(h, k),
         InPlace(h, gate)
  PROVE  InPlace(k, gate)
<1>1. Clean(h, gate) => Clean(k, gate)
  BY CleanSent
<1> QED
  BY <1>1 DEF InPlace, Settled, Usable, SameWish

\* A call that leaves the preferences and the session alone.
LEMMA RouteSent ==
  ASSUME NEW h, Working(h), NEW m, m \notin {"model", "resume", "prompt"}, NEW k,
         Sends(h, k, m), SameOuter(h, k), SamePref(h, k),
         k.runtime = h.runtime, k.opening = h.opening, k.flow \subseteq h.flow, Routed(h)
  PROVE  Routed(k)
<1>1. FlowOk(k, signals, gate) /\ (InPlace(h, gate) => InPlace(k, gate))
  BY FlowSent, PlaceSent DEF SameOuter, Routed, RouteOk
<1>2. FramesOk(k.out, gate)
  BY FramesSent DEF Routed
<1> QED
  BY <1>1, <1>2 DEF Routed, RouteOk, SamePref

\* Without an open session only the frames matter.
LEMMA RouteClosed ==
  ASSUME NEW k, ~Settled(k), FramesOk(k.out, gate)
  PROVE  Routed(k)
BY DEF Routed, RouteOk, FlowOk, InPlace

LEMMA CreateOrResumeSends ==
  ASSUME NEW h, Working(h), NEW k, k = CreateOrResumeSession(h)
  PROVE  \E m \in {"create", "resume"} : Sends(h, k, m)
<1> DEFINE m == IF h.stored # 0 THEN "resume" ELSE "create"
<1>1. CASE h.sess # 0 \/ ~Usable(h)
  BY <1>1 DEF CreateOrResumeSession, Sends, Working, Hal
<1>2. CASE h.sess = 0 /\ Usable(h)
  <2>1. k = [Posted(h, m, h.stored) EXCEPT !.sess = FreshId(h)] /\ m \in {"create", "resume"}
    BY <1>2 DEF CreateOrResumeSession
  <2> HIDE DEF m
  <2>2. SameQueues(Posted(h, m, h.stored), k)
    BY <2>1 DEF SameQueues, Posted, Working, Hal
  <2> QED BY <2>1, <2>2, PostedAre, PostsSends
<1> QED
  BY <1>1, <1>2

\* A session is only asked for without one, or on a new connection.
LEMMA CreateOrResumeRoute ==
  ASSUME NEW h, Working(h), h.runtime = 0 \/ h.opening # "done", Routed(h),
         NEW k, k = CreateOrResumeSession(h)
  PROVE  Routed(k)
<1>1. PICK m \in {"create", "resume"} : Sends(h, k, m)
  BY CreateOrResumeSends
<1>2. FramesOk(k.out, gate)
  BY <1>1, FramesSent DEF Routed
<1>3. Forgets(h, k)
  BY CreateOrResumeFrame
<1> QED
  BY <1>2, <1>3, RouteClosed DEF Forgets, Settled

LEMMA SubmitPromptRoute ==
  ASSUME NEW h, Working(h), NEW p \in Prompt, h.runtime # 0, Routed(h), InPlace(h, gate),
         NEW k, k = SubmitPrompt(h, p)
  PROVE  Routed(k)
<1> DEFINE want == [need |-> Required(h), settled |-> h.opening = "done"]
           f == [id |-> FreshId(h), m |-> "prompt", s |-> h.runtime, arg |-> want]
<1>1. /\ SameOuter(h, k) /\ SamePref(h, k) /\ SameSession(h, k) /\ SameFlow(h, k)
  BY SubmitPromptFrame
<1>2. Sends(h, k, "prompt") /\ (k.out = h.out \/ (Usable(h) /\ k.out = Append(h.out, f)))
  <2>1. CASE Usable(h)
    <3>1. k.out = Append(h.out, f)
      BY <2>1 DEF SubmitPrompt, Posted, Working, Hal
    <3>2. f.id = FreshId(h) /\ f.m = "prompt"
      OBVIOUS
    <3> HIDE DEF f
    <3> QED BY <2>1, <3>1, <3>2 DEF Sends
  <2>2. CASE ~Usable(h)
    BY <2>2 DEF SubmitPrompt, Sends, Working, Hal
  <2> QED BY <2>1, <2>2
<1>3. RouteOk(k, signals, gate)
  <2>1. k.conn = h.conn /\ k.runtime = h.runtime /\ k.opening = h.opening /\ SameWish(h, k)
        /\ k.flow \subseteq h.flow /\ SamePref(h, k)
    BY <1>1 DEF SameOuter, SameSession, SameFlow
  <2>2. FlowOk(k, signals, gate) /\ InPlace(k, gate)
    BY <1>2, <2>1, FlowSent, PlaceSent DEF Routed, RouteOk
  <2> QED BY <2>2 DEF RouteOk
<1>4. FramesOk(k.out, gate)
  <2>1. CASE k.out = h.out
    BY <2>1 DEF Routed
  <2>2. CASE Usable(h) /\ k.out = Append(h.out, f)
    <3>1. h.out \in Seq(Frame)
      BY DEF Working, Hal
    <3>2. f.arg.settled /\ f.arg.need # Model =>
            /\ f.s # 0 /\ gate[f.s] \in f.arg.need /\ Spares(f, f.s, f.arg.need)
            /\ \A j \in DOMAIN h.out : Spares(h.out[j], f.s, f.arg.need)
      <4>1. f.m = "prompt" /\ f.s = h.runtime /\ f.arg = want
        OBVIOUS
      <4> HIDE DEF f
      <4>2. ASSUME want.settled, want.need # Model
            PROVE  Settled(h) /\ ~h.fallback /\ want.need = {h.desired}
        <5>1. h.opening = "done" /\ Required(h) # Model
          BY <4>2
        <5>2. ~h.fallback /\ Required(h) = {h.desired}
          BY <5>1 DEF Required
        <5> QED BY <2>2, <5>1, <5>2 DEF Settled
      <4>3. ASSUME want.settled, want.need # Model
            PROVE  /\ h.runtime # 0 /\ gate[h.runtime] \in want.need
                   /\ \A j \in DOMAIN h.out : Spares(h.out[j], h.runtime, want.need)
        BY <4>2, <4>3 DEF InPlace, Clean, Settled
      <4> HIDE DEF want
      <4> QED BY <4>1, <4>3 DEF Spares
    <3> HIDE DEF f
    <3>3. FramesOk(h.out, gate)
      BY DEF Routed
    <3>4. ASSUME NEW i \in DOMAIN k.out, k.out[i].m = "prompt", k.out[i].arg.settled,
                 k.out[i].arg.need # Model
          PROVE  Finds(k.out, gate, i)
      <4>1. CASE i \in DOMAIN h.out
        <5>1. k.out[i] = h.out[i] /\ \A j \in 1..i : j \in DOMAIN h.out /\ k.out[j] = h.out[j]
          BY <2>2, <3>1, <4>1
        <5> QED BY <3>3, <3>4, <4>1, <5>1 DEF FramesOk, Finds
      <4>2. CASE i \notin DOMAIN h.out
        <5>1. k.out[i] = f /\ \A j \in 1..i : k.out[j] = f \/ (j \in DOMAIN h.out /\ k.out[j] = h.out[j])
          BY <2>2, <3>1, <4>2
        <5> QED BY <3>2, <3>4, <5>1 DEF Finds
      <4> QED BY <4>1, <4>2
    <3>5. ASSUME NEW i \in DOMAIN k.out, k.out[i].m = "prompt" PROVE k.out[i].s # 0
      <4>1. f.s # 0
        BY DEF f
      <4>2. k.out[i] = f \/ (i \in DOMAIN h.out /\ k.out[i] = h.out[i])
        BY <2>2, <3>1
      <4> QED BY <3>3, <3>5, <4>1, <4>2 DEF FramesOk
    <3> QED BY <3>4, <3>5 DEF FramesOk
  <2> QED BY <1>2, <2>1, <2>2
<1> QED
  BY <1>3, <1>4 DEF Routed

\* A call that sends nothing.
LEMMA RouteCalm ==
  ASSUME NEW h, Working(h), NEW k, SameOuter(h, k), SamePref(h, k), SameSession(h, k),
         k.out = h.out, k.flow \subseteq h.flow, Routed(h)
  PROVE  Routed(k)
<1>1. Sends(h, k, "list")
  BY DEF Sends
<1> QED
  BY <1>1, RouteSent DEF SameSession

LEMMA SendPromptRoute ==
  ASSUME NEW h, Working(h), NEW p \in Prompt, Routed(h), NEW k, k = SendPrompt(h, p)
  PROVE  Routed(k)
<1> DEFINE q == Queued(h, p)
<1>1. CASE h.prefFailed
  <2>1. k = [h EXCEPT !.fate[p] = "settled"]
    BY <1>1, SendPromptIs
  <2>2. SameOuter(h, k) /\ SamePref(h, k) /\ SameSession(h, k) /\ k.out = h.out
        /\ k.flow \subseteq h.flow
    BY <2>1 DEF Working, Hal, SameOuter, SameWish, SamePref, SameSession
  <2> QED BY <2>2, RouteCalm
<1>2. CASE ~h.prefFailed /\ h.runtime # 0 /\ ~h.prefPending
  <2>1. k = SubmitPrompt(h, p)
    BY <1>2, SendPromptIs
  <2>2. InPlace(h, gate)
    BY <1>2 DEF Routed, RouteOk
  <2> QED BY <1>2, <2>1, <2>2, SubmitPromptRoute
<1>3. CASE ~h.prefFailed /\ ~(h.runtime # 0 /\ ~h.prefPending)
  <2>1. k = q \/ (q.runtime = 0 /\ k = CreateOrResumeSession(q))
    BY <1>3, SendPromptIs
  <2>2. /\ SameOuter(h, q) /\ SamePref(h, q) /\ SameSession(h, q) /\ SameFlow(h, q)
        /\ SameQueues(h, q) /\ Working(q)
    BY QueuedFrame
  <2> HIDE DEF q
  <2>3. Routed(q)
    BY <2>2, RouteCalm DEF SameFlow, SameQueues
  <2> QED BY <2>1, <2>2, <2>3, CreateOrResumeRoute
<1> QED
  BY <1>1, <1>2, <1>3

LEMMA UndeliveredRoute ==
  ASSUME NEW h, Working(h), Routed(h), NEW k, k = Undelivered(h)
  PROVE  Routed(k)
<1>1. /\ SameOuter(h, k) /\ SamePref(h, k) /\ SameSession(h, k) /\ SameFlow(h, k)
      /\ SameQueues(h, k)
  BY UndeliveredFrame
<1> QED
  BY <1>1, RouteCalm DEF SameFlow, SameQueues

\* A workflow may end well only with the route in place.
LEMMA FinishPreferencesRoute ==
  ASSUME NEW h, Working(h), NEW deliver \in BOOLEAN, NEW state \in PrefState,
         FlowOk(h, signals, gate), FramesOk(h.out, gate), deliver => InPlace(h, gate),
         NEW k, k = FinishPreferences(h, deliver, state)
  PROVE  Routed(k)
<1> DEFINE d == Ended(h, deliver, state)
           u == [d EXCEPT !.queued = NoPrompt]
<1>1. /\ SameOuter(h, d) /\ SameSession(h, d) /\ SameFlow(h, d) /\ SameQueues(h, d)
      /\ ~d.prefPending /\ d.prefFailed = ~deliver /\ Working(d)
  BY EndedFrame
<1>2. (h.queued # NoPrompt /\ k = SendPrompt(u, h.queued)) \/ k = Undelivered(d)
  BY FinishPreferencesIs
<1> HIDE DEF d
<1>3. Routed(d)
  <2>1. Sends(h, d, "list") /\ d.conn = h.conn /\ d.runtime = h.runtime
        /\ d.opening = h.opening /\ SameWish(h, d) /\ d.flow \subseteq h.flow /\ d.out = h.out
    BY <1>1 DEF Sends, SameQueues, SameOuter, SameSession, SameFlow
  <2>2. FlowOk(d, signals, gate) /\ (InPlace(h, gate) => InPlace(d, gate))
    BY <2>1, FlowSent, PlaceSent
  <2>3. ~d.prefFailed => deliver
    BY Zenon, <1>1
  <2> QED BY <2>1, <2>2, <2>3 DEF Routed, RouteOk
<1>4. /\ SameOuter(d, u) /\ SamePref(d, u) /\ SameSession(d, u) /\ SameFlow(d, u)
      /\ SameQueues(d, u) /\ Working(u)
  BY <1>1, UnqueuedFrame
<1> HIDE DEF u
<1>5. Routed(u)
  BY <1>1, <1>3, <1>4, RouteCalm DEF SameFlow, SameQueues
<1>6. CASE k = Undelivered(d)
  BY <1>1, <1>3, <1>6, UndeliveredRoute
<1>7. CASE h.queued # NoPrompt /\ k = SendPrompt(u, h.queued)
  <2>1. h.queued \in Prompt
    BY <1>7 DEF Working, Hal
  <2> QED BY <1>4, <1>5, <1>7, <2>1, SendPromptRoute
<1> QED
  BY <1>2, <1>6, <1>7

LEMMA FailPreferencesRoute ==
  ASSUME NEW h, Working(h), FlowOk(h, signals, gate), FramesOk(h.out, gate)
  PROVE  Routed(FailPreferences(h))
BY FinishPreferencesRoute DEF FailPreferences, PrefState

LEMMA PreferenceRefusedRoute ==
  ASSUME NEW h, Working(h), Routed(h), NEW e, Settled(h) /\ e.fallback => h.fallback
  PROVE  Routed(PreferenceRefused(h, e))
<1>1. CASE e.persist \/ ~e.fallback
  BY <1>1, FailPreferencesRoute DEF PreferenceRefused, Routed, RouteOk
<1>2. CASE ~(e.persist \/ ~e.fallback)
  <2>1. InPlace(h, gate)
    BY <1>2 DEF InPlace
  <2>2. PreferenceRefused(h, e) = FinishPreferences(h, TRUE, "retryable")
    BY <1>2 DEF PreferenceRefused
  <2> QED BY <2>1, <2>2, FinishPreferencesRoute DEF Routed, RouteOk, PrefState
<1> QED
  BY <1>1, <1>2

\* The model request of a new generation has the last word on the route.
LEMMA RequestModelRoute ==
  ASSUME NEW h, Working(h), h.prefPending, \A f \in h.flow : ~f.cur, FramesOk(h.out, gate),
         NEW k, k = RequestPreference(h, "model")
  PROVE  Routed(k)
<1> DEFINE n == FreshId(h)
           x == [id |-> n, m |-> "model", s |-> h.runtime, arg |-> h.desired]
<1>1. /\ SameOuter(h, k) /\ SamePref(h, k) /\ SameSession(h, k)
      /\ k.flow = h.flow \cup {Choice(h, "model")}
      /\ Usable(h) => SameQueues(Posted(h, "model", h.desired), k)
      /\ ~Usable(h) => SameQueues(h, k)
  BY RequestPreferenceFrame
<1>2. n \notin UsedIds(h)
  BY Fresh
<1>3. h.out \in Seq(Frame)
  BY DEF Working, Hal
<1>4. Usable(h) => k.out = Append(h.out, x)
  BY <1>1 DEF SameQueues, Posted, Working, Hal
<1>5. x.id = n /\ x.m = "model" /\ x.s = h.runtime /\ x.arg = h.desired
  OBVIOUS
<1> HIDE DEF n, x
<1>6. FramesOk(k.out, gate)
  <2>1. Sends(h, k, "model")
    BY <1>1, <1>4, <1>5 DEF Sends, SameQueues, n
  <2> QED BY <2>1, FramesSent
<1>7. ASSUME Settled(k), NEW f \in k.flow, f.cur PROVE EntryOk(k, f, signals, gate)
  <2>1. f.id = n /\ f.m = "model" /\ f.fallback = h.fallback
    BY <1>1, <1>7 DEF Choice, n
  <2>2. Usable(h)
    BY <1>1, <1>7 DEF Settled, Usable, SameOuter, SameWish
  <2>3. \A i \in DOMAIN signals : signals[i].id # n
    BY <1>2 DEF UsedIds
  <2>4. \A i \in DOMAIN h.out : h.out[i].id # n
    BY <1>2 DEF UsedIds
  <2>5. k.runtime = h.runtime /\ k.desired = h.desired /\ k.fallback = h.fallback
    BY <1>1 DEF SameOuter, SameWish, SameSession
  <2>6. ASSUME NEW i \in DOMAIN k.out, k.out[i].id = n PROVE LastWord(k, i)
    <3>1. k.out[i] = x /\ i = Len(k.out) /\ \A j \in i..Len(k.out) : j = i
      BY <1>3, <1>4, <2>2, <2>4, <2>6
    <3> QED BY <1>5, <2>5, <3>1 DEF LastWord, Spares
  <2> QED BY <2>1, <2>3, <2>5, <2>6 DEF EntryOk
<1>8. k.prefPending
  BY <1>1 DEF SamePref
<1> QED
  BY <1>6, <1>7, <1>8 DEF Routed, RouteOk, FlowOk

\* The effort follows an accepted model.
LEMMA RequestEffortRoute ==
  ASSUME NEW h, Working(h), Routed(h), InPlace(h, gate),
         NEW k, k = RequestPreference(h, "effort")
  PROVE  Routed(k)
<1> DEFINE d == [k EXCEPT !.flow = h.flow]
<1>1. /\ SameOuter(h, k) /\ SamePref(h, k) /\ SameSession(h, k)
      /\ k.flow = h.flow \cup {Choice(h, "effort")}
      /\ Usable(h) => SameQueues(Posted(h, "effort", h.desired), k)
      /\ ~Usable(h) => SameQueues(h, k)
  BY RequestPreferenceFrame
<1>2. Sends(h, k, "effort")
  <2>1. CASE Usable(h)
    BY <1>1, <2>1, PostedAre, PostsSends
  <2>2. CASE ~Usable(h)
    BY <1>1, <2>2 DEF Sends, SameQueues
  <2> QED BY <2>1, <2>2
<1>3. Working(k)
  BY RequestPreferenceType
<1>4. /\ d.conn = k.conn /\ d.link = k.link /\ d.out = k.out /\ d.runtime = k.runtime
      /\ d.opening = k.opening /\ d.desired = k.desired /\ d.persist = k.persist
      /\ d.fallback = k.fallback /\ d.chosen = k.chosen /\ d.stale = k.stale
      /\ d.flow = h.flow
  BY <1>3 DEF Working, Hal
<1> HIDE DEF d
<1>5. FlowOk(d, signals, gate)
  <2>1. Sends(h, d, "effort")
    BY <1>2, <1>4 DEF Sends
  <2>2. d.conn = h.conn /\ d.runtime = h.runtime /\ d.opening = h.opening /\ SameWish(h, d)
        /\ d.flow \subseteq h.flow
    BY <1>1, <1>4 DEF SameOuter, SameWish, SameSession
  <2> QED BY <2>1, <2>2, FlowSent DEF Routed, RouteOk
<1>6. InPlace(k, gate)
  <2>1. k.conn = h.conn /\ k.runtime = h.runtime /\ k.opening = h.opening /\ SameWish(h, k)
    BY <1>1 DEF SameOuter, SameSession
  <2> QED BY <1>2, <2>1, PlaceSent
<1>7. ASSUME Settled(k), NEW f \in k.flow, f.cur PROVE EntryOk(k, f, signals, gate)
  <2>1. CASE f \in h.flow
    <3>1. Settled(d)
      BY <1>4, <1>7 DEF Settled, Usable
    <3>2. EntryOk(d, f, signals, gate)
      BY <1>4, <1>5, <1>7, <2>1, <3>1 DEF FlowOk
    <3> QED BY ZenonT(40), <1>4, <3>2 DEF EntryOk, Clean, LastWord
  <2>2. CASE f = Choice(h, "effort")
    <3>1. f.m = "effort" /\ f.fallback = h.fallback /\ k.fallback = h.fallback
      BY <1>1, <2>2 DEF Choice, SameOuter, SameWish
    <3> QED BY <1>6, <1>7, <3>1 DEF EntryOk, InPlace
  <2> QED BY <1>1, <2>1, <2>2
<1>8. FramesOk(k.out, gate)
  BY <1>2, FramesSent DEF Routed
<1> QED
  BY <1>6, <1>7, <1>8 DEF Routed, RouteOk, FlowOk

\* A new generation needs nothing of the old one.
LEMMA BeginPreferencesRoute ==
  ASSUME NEW h, Working(h), FramesOk(h.out, gate), NEW k, k = BeginPreferences(h)
  PROVE  Routed(k)
<1> DEFINE g == Begun(h)
<1>1. /\ SameQueues(h, g) /\ g.prefPending /\ Working(g)
      /\ g.flow = {[f EXCEPT !.cur = FALSE] : f \in h.flow}
  BY BegunFrame
<1>2. k = FailPreferences(g) \/ k = RequestPreference(g, "model")
  BY BeginPreferencesIs
<1> HIDE DEF g
<1>3. \A f \in g.flow : ~f.cur
  <2>1. h.flow \in SUBSET Preference
    BY DEF Working, Hal, Flows
  <2> QED BY <1>1, <2>1 DEF Preference
<1>4. FramesOk(g.out, gate) /\ FlowOk(g, signals, gate)
  BY <1>1, <1>3 DEF SameQueues, FlowOk
<1> QED
  BY <1>1, <1>2, <1>3, <1>4, FailPreferencesRoute, RequestModelRoute

LEMMA RequestMcpRoute ==
  ASSUME NEW h, Working(h), Routed(h), NEW m \in McpMethod, NEW stage \in Stage,
         NEW k, k = RequestMcp(h, m, stage)
  PROVE  Routed(k)
<1>1. /\ SameOuter(h, k) /\ SamePref(h, k) /\ SameSession(h, k) /\ SameFlow(h, k)
      /\ Usable(h) => SameQueues(Posted(h, m, 0), k)
      /\ ~Usable(h) => SameQueues(h, k)
  BY RequestMcpFrame
<1>2. Sends(h, k, m)
  <2>1. CASE Usable(h)
    BY <1>1, <2>1, PostedAre, PostsSends
  <2>2. CASE ~Usable(h)
    BY <1>1, <2>2 DEF Sends, SameQueues
  <2> QED BY <2>1, <2>2
<1>3. m \notin {"model", "resume", "prompt"}
  BY DEF McpMethod
<1>4. k.runtime = h.runtime /\ k.opening = h.opening /\ k.flow \subseteq h.flow
  BY <1>1 DEF SameSession, SameFlow
<1> QED
  BY <1>1, <1>2, <1>3, <1>4, RouteSent

LEMMA EnsureMcpRoute ==
  ASSUME NEW h, Working(h), Routed(h)
  PROVE  Routed(EnsureMcp(h))
BY RequestMcpRoute DEF EnsureMcp, McpMethod, Stage

LEMMA FinishMcpSetupRoute ==
  ASSUME NEW h, Working(h), Routed(h), NEW k, k = FinishMcpSetup(h)
  PROVE  Routed(k)
<1>1. CASE h.runtime # 0
  <2> DEFINE d == SetUp(h)
  <2>1. /\ SameOuter(h, k) /\ SamePref(h, k) /\ SameSession(h, k) /\ SameFlow(h, k)
        /\ Usable(h) => SameQueues(Posted(d, "reload", 0), k)
        /\ ~Usable(h) => SameQueues(d, k)
    BY <1>1, ReloadingFrame
  <2>2. /\ SameOuter(h, d) /\ SamePref(h, d) /\ SameSession(h, d) /\ SameFlow(h, d)
        /\ SameQueues(h, d) /\ Working(d)
    BY SetUpFrame
  <2> HIDE DEF d
  <2>3. Routed(d)
    BY <2>2, RouteCalm DEF SameFlow, SameQueues
  <2>4. Sends(d, k, "reload")
    <3>1. CASE Usable(h)
      BY <2>1, <2>2, <3>1, PostedAre, PostsSends
    <3>2. CASE ~Usable(h)
      BY <2>1, <3>2 DEF Sends, SameQueues
    <3> QED BY <3>1, <3>2
  <2>5. SameOuter(d, k) /\ SamePref(d, k) /\ k.runtime = d.runtime /\ k.opening = d.opening
        /\ k.flow \subseteq d.flow
    BY <2>1, <2>2 DEF SameOuter, SameWish, SamePref, SameSession, SameFlow
  <2> QED BY <2>2, <2>3, <2>4, <2>5, RouteSent
<1>2. CASE h.runtime = 0
  <2> DEFINE r == MarkMcpReady(SetUp(h))
  <2>1. /\ k = CreateOrResumeSession(r)
        /\ SameOuter(h, r) /\ SamePref(h, r) /\ SameSession(h, r) /\ SameFlow(h, r)
        /\ SameQueues(h, r) /\ Working(r)
    BY <1>2, RegisteredFrame
  <2> HIDE DEF r
  <2>2. Routed(r) /\ r.runtime = 0
    BY <1>2, <2>1, RouteCalm DEF SameFlow, SameQueues, SameSession
  <2> QED BY <2>1, <2>2, CreateOrResumeRoute
<1> QED
  BY <1>1, <1>2

LEMMA McpFailedRoute ==
  ASSUME NEW h, Working(h), Routed(h), NEW k, k = McpFailed(h)
  PROVE  Routed(k)
<1> DEFINE d == Degraded(h)
           s == IF h.runtime = 0 THEN CreateOrResumeSession(d) ELSE d
<1>1. /\ SameOuter(h, d) /\ SamePref(h, d) /\ SameSession(h, d) /\ SameFlow(h, d)
      /\ SameQueues(h, d) /\ Working(d)
  BY DegradedFrame
<1>2. Working(s) /\ SameBut(s, k)
  BY McpFailedIs
<1> HIDE DEF d
<1>3. Routed(d) /\ d.runtime = h.runtime
  BY <1>1, RouteCalm DEF SameFlow, SameQueues, SameSession
<1>4. Routed(s)
  BY <1>1, <1>3, CreateOrResumeRoute
<1> HIDE DEF s
<1> QED
  BY <1>2, <1>4, RouteCalm DEF SameBut, SameFlow, SameQueues

LEMMA DroppedRoute ==
  ASSUME NEW h, Working(h), Routed(h), NEW id, NEW k, k = Dropped(h, id)
  PROVE  Routed(k)
<1>1. /\ SameOuter(h, k) /\ SamePref(h, k) /\ SameSession(h, k) /\ SameQueues(h, k)
      /\ k.flow = {f \in h.flow : f.id # id}
  BY DroppedFrame
<1> QED
  BY <1>1, RouteCalm DEF SameQueues

LEMMA NoSessionRoute ==
  ASSUME NEW h, Working(h), Routed(h), NEW m, NEW k, k = NoSession(h, m)
  PROVE  Routed(k)
<1>1. /\ SameOuter(h, k) /\ SamePref(h, k) /\ SameFlow(h, k) /\ SameQueues(h, k)
      /\ k.runtime = h.runtime /\ k.opening = IF m = "create" THEN "failed" ELSE h.opening
  BY NoSessionFrame
<1>2. CASE m = "create"
  BY <1>1, <1>2, RouteClosed DEF Settled, Routed, SameQueues
<1>3. CASE m # "create"
  <2>1. Sends(h, k, "list") /\ k.flow \subseteq h.flow
    BY <1>1 DEF Sends, SameQueues, SameFlow
  <2> QED BY <1>1, <1>3, <2>1, RouteSent
<1> QED
  BY <1>2, <1>3

LEMMA OnRpcErrorRoute ==
  ASSUME NEW h, Working(h), Routed(h), NEW id, NEW m
  PROVE  Routed(OnRpcError(h, id, m))
<1> DEFINE c == NoSession(h, m)
           u == [h EXCEPT !.reloadReq = 0]
           z == [c EXCEPT !.stored = 0, !.runtime = 0]
           d == Dropped(c, id)
           k == OnRpcError(h, id, m)
<1>1. Working(c) /\ Routed(c)
  BY NoSessionType, NoSessionRoute
<1>2. Working(u) /\ Routed(u)
  <2>1. /\ SameOuter(h, u) /\ SamePref(h, u) /\ SameSession(h, u) /\ SameFlow(h, u)
        /\ SameQueues(h, u) /\ Working(u)
    BY UnreloadedFrame
  <2> HIDE DEF u
  <2> QED BY <2>1, RouteCalm DEF SameFlow, SameQueues
<1>3. \/ k = McpFailed(h) \/ k = McpFailed(u) \/ k = CreateOrResumeSession(z)
      \/ k = d \/ \E e \in CurrentEntry(c, id, m) : k = PreferenceRefused(d, e)
  BY OnRpcErrorIs
<1> HIDE DEF c, u
<1>4. Working(z) /\ Routed(z) /\ z.runtime = 0
  <2>1. SameQueues(c, z) /\ z.runtime = 0 /\ Working(z)
    BY <1>1, ForgottenFrame
  <2> HIDE DEF z
  <2> QED BY <1>1, <2>1, RouteClosed DEF Settled, Routed, SameQueues
<1>5. Working(d) /\ Routed(d)
  BY <1>1, DroppedRoute, DroppedType
<1>6. ASSUME NEW e \in CurrentEntry(c, id, m) PROVE Routed(PreferenceRefused(d, e))
  <2>1. SameOuter(c, d) /\ SameSession(c, d)
    BY <1>1, DroppedFrame
  <2> HIDE DEF d
  <2>2. e \in c.flow /\ e.cur
    BY DEF CurrentEntry
  <2>3. ASSUME Settled(d) PROVE e.fallback => d.fallback
    <3>1. Settled(c)
      BY <2>1, <2>3 DEF Settled, Usable, SameOuter, SameWish, SameSession
    <3>2. e.fallback = c.fallback
      BY <1>1, <2>2, <3>1 DEF Routed, RouteOk, FlowOk, EntryOk
    <3> QED BY <2>1, <3>2 DEF SameOuter, SameWish
  <2> QED BY <1>5, <2>3, PreferenceRefusedRoute
<1> HIDE DEF z, d, k
<1>7. Routed(k)
  BY <1>2, <1>3, <1>4, <1>5, <1>6, McpFailedRoute, CreateOrResumeRoute
<1> QED
  BY <1>7 DEF k

LEMMA OnMcpResultRoute ==
  ASSUME NEW h, Working(h), Routed(h), NEW m \in McpMethod, NEW v \in Verdicts(m), v # "error"
  PROVE  Routed(OnMcpResult(h, m, v))
<1>1. /\ m = "list" => v \in {"absent", "match", "differs"}
      /\ m = "test" => v \in {"ok", "refused"}
  BY DEF Verdicts, Refusals
<1>2. Routed(RequestMcp(h, "add", "adding")) /\ Routed(RequestMcp(h, "test", "testing"))
      /\ Routed(RequestMcp(h, "remove", "removing"))
  BY RequestMcpRoute DEF McpMethod, Stage
<1>3. Routed(FinishMcpSetup(h)) /\ Routed(McpFailed(h))
  BY FinishMcpSetupRoute, McpFailedRoute
<1> QED
  BY <1>1, <1>2, <1>3 DEF OnMcpResult, McpMethod

LEMMA OnReloadResultRoute ==
  ASSUME NEW h, Working(h), Routed(h), NEW v \in Verdicts("reload"), v # "error"
  PROVE  Routed(OnReloadResult(h, v))
<1> DEFINE c == [h EXCEPT !.reloadReq = 0]
           a == [c EXCEPT !.mcp = "approval"]
           r == MarkMcpReady(c)
           k == OnReloadResult(h, v)
<1>1. v \in {"ok", "confirm", "refused"}
  BY DEF Verdicts, Refusals
<1>2. /\ SameOuter(h, c) /\ SamePref(h, c) /\ SameSession(h, c) /\ SameFlow(h, c)
      /\ SameQueues(h, c) /\ Working(c)
  BY UnreloadedFrame
<1>3. k \in {a, McpFailed(c), r}
  BY <1>1 DEF OnReloadResult
<1> HIDE DEF c
<1>4. Routed(c)
  BY <1>2, RouteCalm DEF SameFlow, SameQueues
<1>5. Routed(a)
  <2>1. /\ SameOuter(c, a) /\ SamePref(c, a) /\ SameSession(c, a) /\ SameFlow(c, a)
        /\ SameQueues(c, a)
    BY <1>2 DEF Working, Hal, SameOuter, SameWish, SamePref, SameSession, SameFlow, SameQueues
  <2> HIDE DEF a
  <2> QED BY <1>2, <1>4, <2>1, RouteCalm DEF SameFlow, SameQueues
<1>6. Routed(r)
  <2>1. /\ SameOuter(c, r) /\ SamePref(c, r) /\ SameSession(c, r) /\ SameFlow(c, r)
        /\ SameQueues(c, r)
    BY <1>2, MarkMcpReadyFrame
  <2> HIDE DEF r
  <2> QED BY <1>2, <1>4, <2>1, RouteCalm DEF SameFlow, SameQueues
<1>7. Routed(McpFailed(c))
  BY <1>2, <1>4, McpFailedRoute
<1> HIDE DEF a, r
<1> QED
  BY <1>3, <1>5, <1>6, <1>7

\* An answer that is still queued tells the route of its session.
LEMMA OnPreferenceResultRoute ==
  ASSUME NEW h, Working(h), Routed(h), NEW id, NEW m \in {"model", "effort"},
         NEW v \in Verdicts(m), v # "error",
         \E i \in DOMAIN signals : signals[i].id = id /\ signals[i].v = v
  PROVE  Routed(OnPreferenceResult(h, id, m, v))
<1> DEFINE c == Dropped(h, id)
           e == CHOOSE e \in CurrentEntry(h, id, m) : TRUE
           d == IF e.persist THEN [c EXCEPT !.saved = e.route] ELSE c
<1>1. Working(c) /\ Routed(c)
  BY DroppedType, DroppedRoute
<1>2. SameOuter(h, c) /\ SameSession(h, c) /\ SameQueues(h, c)
  BY DroppedFrame
<1>3. CASE CurrentEntry(h, id, m) = {}
  BY <1>1, <1>3 DEF OnPreferenceResult
<1>4. CASE CurrentEntry(h, id, m) # {}
  <2>1. e \in h.flow /\ e.id = id /\ e.m = m /\ e.cur
    BY <1>4 DEF CurrentEntry
  <2>2. e.route \in Model
    BY <2>1 DEF Working, Hal, Flows, Preference
  <2> HIDE DEF c, e
  <2>3. CASE v = "refused"
    <3>1. OnPreferenceResult(h, id, m, v) = PreferenceRefused(c, e)
      BY <1>4, <2>3 DEF OnPreferenceResult, c, e
    <3>2. ASSUME Settled(c) PROVE e.fallback => c.fallback
      <4>1. Settled(h)
        BY <1>2, <3>2 DEF Settled, Usable, SameOuter, SameWish, SameSession
      <4>2. e.fallback = h.fallback
        BY <2>1, <4>1 DEF Routed, RouteOk, FlowOk, EntryOk
      <4> QED BY <1>2, <4>2 DEF SameOuter, SameWish
    <3> QED BY <1>1, <3>1, <3>2, PreferenceRefusedRoute
  <2>4. CASE v # "refused"
    <3>1. v = "ok"
      BY <2>4 DEF Verdicts, Refusals
    <3>2. InPlace(c, gate)
      <4>1. ASSUME Settled(h), ~h.fallback PROVE Clean(h, gate)
        BY <2>1, <3>1, <4>1 DEF Routed, RouteOk, FlowOk, EntryOk
      <4> QED BY <1>2, <4>1 DEF InPlace, Clean, Settled, Usable, SameOuter, SameWish,
                 SameSession, SameQueues
    <3>3. OnPreferenceResult(h, id, m, v) =
            IF m = "model" THEN RequestPreference(d, "effort")
            ELSE FinishPreferences(c, TRUE, "ready")
      BY <1>4, <2>4 DEF OnPreferenceResult, c, e
    <3>4. Working(d) /\ Routed(d) /\ InPlace(d, gate)
      <4> DEFINE b == [c EXCEPT !.saved = e.route]
      <4>1. Working(b)
        BY <1>1, <2>2 DEF Working, Hal
      <4>2. SameOuter(c, b) /\ SamePref(c, b) /\ SameSession(c, b) /\ b.flow = c.flow /\ b.out = c.out
        BY <1>1 DEF Working, Hal, SameOuter, SameWish, SamePref, SameSession
      <4> HIDE DEF b
      <4>3. Routed(b)
        BY <1>1, <4>2, RouteCalm
      <4>4. InPlace(b, gate)
        BY <3>2, <4>2 DEF InPlace, Clean, Settled, Usable, SameOuter, SameWish, SameSession
      <4> QED BY <1>1, <3>2, <4>1, <4>3, <4>4 DEF b
    <3> HIDE DEF d
    <3>5. Routed(RequestPreference(d, "effort"))
      BY <3>4, RequestEffortRoute
    <3>6. Routed(FinishPreferences(c, TRUE, "ready"))
      BY <1>1, <3>2, FinishPreferencesRoute DEF Routed, RouteOk, PrefState
    <3> QED BY <3>3, <3>5, <3>6
  <2> QED BY <2>3, <2>4
<1> QED
  BY <1>3, <1>4

LEMMA OnSessionResultRoute ==
  ASSUME NEW h, Working(h), Routed(h), NEW s \in Session0
  PROVE  Routed(OnSessionResult(h, s))
<1> DEFINE c == [h EXCEPT !.sess = 0, !.runtime = s, !.stored = s, !.opening = "done"]
<1>1. Working(c) /\ SameQueues(h, c)
  BY OpenedFrame
<1>2. OnSessionResult(h, s) = BeginPreferences(c)
  BY DEF OnSessionResult
<1> HIDE DEF c
<1> QED
  BY <1>1, <1>2, BeginPreferencesRoute DEF Routed, SameQueues

LEMMA OnRpcResultRoute ==
  ASSUME NEW h, Working(h), Routed(h), NEW id, NEW m \in Method, NEW v \in Verdicts(m),
         v # "error", NEW s \in Session0,
         \E i \in DOMAIN signals : signals[i].id = id /\ signals[i].v = v
  PROVE  Routed(OnRpcResult(h, id, m, v, s))
BY OnMcpResultRoute, OnReloadResultRoute, OnSessionResultRoute, OnPreferenceResultRoute
   DEF OnRpcResult

-----------------------------------------------------------------------------
(* The handlers together.                                                   *)

LEMMA OnPreferenceResultLinks ==
  ASSUME NEW h, Working(h), NEW id, NEW m \in {"model", "effort"}, NEW v, SavedOk(h)
  PROVE  Links(h, OnPreferenceResult(h, id, m, v))
<1> DEFINE c == Dropped(h, id)
           e == CHOOSE e \in CurrentEntry(h, id, m) : TRUE
           b == [c EXCEPT !.saved = e.route]
           d == IF e.persist THEN b ELSE c
           k == OnPreferenceResult(h, id, m, v)
<1>1. Working(c) /\ Links(h, c) /\ SameOuter(h, c)
  BY DroppedType, DroppedLinks, DroppedFrame
<1>2. CASE CurrentEntry(h, id, m) = {}
  BY <1>1, <1>2 DEF OnPreferenceResult
<1>3. CASE CurrentEntry(h, id, m) # {}
  <2>1. k \in {PreferenceRefused(c, e), RequestPreference(d, "effort"),
               FinishPreferences(c, TRUE, "ready")}
    BY <1>3 DEF OnPreferenceResult
  <2>2. e \in h.flow
    BY <1>3 DEF CurrentEntry
  <2>3. e.route \in Model
    BY <2>2 DEF Working, Hal, Flows, Preference
  <2>4. e.persist => e.route \in c.chosen
    BY <1>1, <2>2 DEF SavedOk, SameOuter, SameWish
  <2> HIDE DEF c, e
  <2>5. Working(d) /\ Links(c, d)
    <3>1. CASE e.persist
      <4>1. Working(b)
        BY <1>1, <2>3 DEF Working, Hal
      <4>2. SameOuter(c, b) /\ SameQueues(c, b) /\ SameFlow(c, b) /\ SameMcp(c, b)
            /\ SameSession(c, b) /\ b.saved = e.route
        BY <1>1 DEF Working, Hal, SameOuter, SameWish, SameQueues, SameFlow, SameMcp, SameSession
      <4> HIDE DEF b
      <4>3. SavedOk(c) => SavedOk(b)
        BY <2>4, <3>1, <4>2 DEF SavedOk, SameOuter, SameWish, SameFlow
      <4>4. ASSUME NEW E \in SUBSET Earlier, LinkOk(c, E) PROVE LinkOk(b, E)
        BY <4>2, <4>4 DEF LinkOk, Distinct, Entries, Agrees, SameQueues, SameFlow, SameMcp,
           SameSession
      <4>5. Grows(c, b)
        BY <4>2 DEF Grows, SameQueues
      <4> QED BY <3>1, <4>1, <4>3, <4>4, <4>5 DEF Links
    <3>2. CASE ~e.persist
      BY <1>1, <3>2, LinksSelf
    <3> QED BY <3>1, <3>2
  <2> HIDE DEF d, k
  <2>6. CASE k = RequestPreference(d, "effort")
    <3>1. Links(d, k)
      BY <2>5, <2>6, RequestPreferenceLinks
    <3>2. Links(h, k)
      BY <1>1, <2>5, <3>1, LinksTransitive
    <3> QED BY <3>2 DEF k
  <2>7. CASE k \in {PreferenceRefused(c, e), FinishPreferences(c, TRUE, "ready")}
    <3>1. Links(c, k)
      BY <1>1, <2>7, PreferenceRefusedLinks, FinishPreferencesLinks DEF PrefState
    <3>2. Links(h, k)
      BY <1>1, <3>1, LinksTransitive
    <3> QED BY <3>2 DEF k
  <2> QED BY <2>1, <2>6, <2>7
<1> QED
  BY <1>2, <1>3

LEMMA OnSessionResultLinks ==
  ASSUME NEW h, Working(h), NEW s \in Session0
  PROVE  Links(h, OnSessionResult(h, s))
<1> DEFINE c == [h EXCEPT !.sess = 0, !.runtime = s, !.stored = s, !.opening = "done"]
<1>1. /\ SameOuter(h, c) /\ SameMcp(h, c) /\ SameFlow(h, c) /\ SameSaved(h, c)
      /\ SameQueues(h, c) /\ c.sess = 0 /\ Working(c)
  <2>1. /\ SameOuter(h, c) /\ SameChat(h, c) /\ SamePref(h, c) /\ SameMcp(h, c)
        /\ SameFlow(h, c) /\ SameSaved(h, c) /\ SameQueues(h, c)
        /\ c.sess = 0 /\ c.runtime = s /\ c.stored = s /\ c.opening = "done"
        /\ Working(c)
    BY OpenedFrame
  <2> QED BY <2>1
<1>2. OnSessionResult(h, s) = BeginPreferences(c)
  BY DEF OnSessionResult
<1> HIDE DEF c
<1>3. Links(h, c)
  BY <1>1, CalmLinks DEF SameMcp
<1>4. Links(c, BeginPreferences(c))
  BY <1>1, BeginPreferencesLinks
<1> QED
  BY <1>2, <1>3, <1>4, LinksTransitive

LEMMA OnRpcResultLinks ==
  ASSUME NEW h, Working(h), NEW id, NEW m \in Method, NEW v \in Verdicts(m), v # "error",
         NEW s \in Session0, SavedOk(h)
  PROVE  Links(h, OnRpcResult(h, id, m, v, s))
BY OnMcpResultLinks, OnReloadResultLinks, OnSessionResultLinks, OnPreferenceResultLinks,
   LinksSelf DEF OnRpcResult

\* What holds of the state a handler works on, while the requests of E are
\* still to be handled.
Sound(h, E) ==
  Working(h) /\ PromptOk(h) /\ SavedOk(h) /\ Routed(h) /\ LinkOk(h, E)

LEMMA LinkLess ==
  ASSUME NEW h, NEW E, NEW F, F \subseteq E, LinkOk(h, E)
  PROVE  LinkOk(h, F)
BY DEF LinkOk, Entries

LEMMA OnRpcErrorSound ==
  ASSUME NEW h, NEW E \in SUBSET Earlier, Sound(h, E), NEW id, NEW m
  PROVE  Sound(OnRpcError(h, id, m), E) /\ Grows(h, OnRpcError(h, id, m))
BY OnRpcErrorType, OnRpcErrorPrompt, OnRpcErrorLinks, OnRpcErrorRoute DEF Sound, Links

LEMMA OnRpcResultSound ==
  ASSUME NEW h, NEW E \in SUBSET Earlier, Sound(h, E), NEW id, NEW m \in Method,
         NEW v \in Verdicts(m), v # "error", NEW s \in Session0,
         \E i \in DOMAIN signals : signals[i].id = id /\ signals[i].v = v
  PROVE  Sound(OnRpcResult(h, id, m, v, s), E) /\ Grows(h, OnRpcResult(h, id, m, v, s))
<1> DEFINE k == OnRpcResult(h, id, m, v, s)
<1>1. Working(k) /\ PromptOk(k)
  BY OnRpcResultType, OnRpcResultPrompt DEF Sound
<1>2. Links(h, k)
  BY OnRpcResultLinks DEF Sound
<1>3. Routed(k)
  BY OnRpcResultRoute DEF Sound
<1> HIDE DEF k
<1>4. Sound(k, E) /\ Grows(h, k)
  BY <1>1, <1>2, <1>3 DEF Sound, Links
<1> QED
  BY <1>4 DEF k

\* The table is emptied before its requests are rejected.
LEMMA EmptiedSound ==
  ASSUME NEW h, Sound(h, {}), NEW k, k = [h EXCEPT !.pend = <<>>]
  PROVE  Sound(k, {h.pend[i] : i \in DOMAIN h.pend})
<1> DEFINE E == {h.pend[i] : i \in DOMAIN h.pend}
<1>1. Working(k) /\ Working(h)
  <2>1. <<>> \in Seq(Entry)
    OBVIOUS
  <2> QED BY <2>1 DEF Sound, Working, Hal
<1>2. /\ SameOuter(h, k) /\ SameChat(h, k) /\ SamePref(h, k) /\ SameMcp(h, k)
      /\ SameSession(h, k) /\ SameFlow(h, k) /\ SameSaved(h, k)
      /\ k.pend = <<>> /\ k.out = h.out
  BY <1>1 DEF Working, Hal, SameOuter, SameWish, SameChat, SamePref, SameMcp, SameSession,
     SameFlow, SameSaved
<1>3. PromptOk(k)
  BY <1>2, PromptKept DEF Sound, Forgets, SameSession
<1>4. SavedOk(k)
  BY <1>2 DEF Sound, SavedOk, SameOuter, SameWish, SameFlow, SameSaved
<1>5. Routed(k)
  BY <1>1, <1>2, RouteCalm DEF Sound, SameFlow
<1>6. Distinct(k)
  BY <1>2 DEF Distinct
<1>7. ASSUME NEW e \in Entries(k, E) PROVE Agrees(k, e, signals)
  <2>1. e \in Entries(h, {})
    BY <1>2, <1>7 DEF Entries
  <2>2. Agrees(h, e, signals)
    BY <2>1 DEF Sound, LinkOk
  <2> QED BY <1>2, <2>2 DEF Agrees, SameMcp, SameSession, SameFlow
<1> HIDE DEF E
<1>8. Sound(k, E)
  BY <1>1, <1>3, <1>4, <1>5, <1>6, <1>7 DEF Sound, LinkOk
<1> QED
  BY <1>8 DEF E

LEMMA RejectAllSound ==
  ASSUME NEW h, Sound(h, {}), h.pend = hal.pend
  PROVE  Sound(RejectAll(h), {})
<1> DEFINE n == Len(h.pend)
           E == {h.pend[i] : i \in DOMAIN h.pend}
<1>1. h.pend \in Seq(Entry)
  BY DEF Sound, Working, Hal
<1>2. PICK f : Turns(f, h, n) /\ RejectAll(h) = f[n]
  BY <1>1, RejectAllIs
<1>3. n \in Nat
  BY <1>1
<1>4. E \in SUBSET Earlier
  BY DEF Earlier
<1> DEFINE S == {k \in Nat : Sound(f[k], E)}
<1>5. Sound([h EXCEPT !.pend = <<>>], E)
  BY EmptiedSound
<1> HIDE DEF n, E
<1>6. 0 \in S
  BY <1>2, <1>5 DEF Turns
<1>7. ASSUME NEW k \in 0..(n - 1), k \in S PROVE k + 1 \in S
  <2>1. k + 1 \in 1..n /\ (k + 1) - 1 = k
    BY <1>3
  <2>2. f[k + 1] = OnRpcError(f[k], h.pend[k + 1].id, h.pend[k + 1].m)
    BY <1>2, <2>1 DEF Turns
  <2>3. Sound(f[k], E)
    BY <1>7
  <2> QED BY <1>4, <2>1, <2>2, <2>3, OnRpcErrorSound
<1>8. n \in S
  <2> HIDE DEF S
  <2> QED BY <1>3, <1>6, <1>7, UpTo
<1>9. Sound(f[n], {})
  BY <1>8, LinkLess DEF Sound
<1> QED
  BY <1>2, <1>9

LEMMA DisconnectedIs ==
  ASSUME NEW h, Working(h), NEW v \in Conn, v # "connected", v # h.conn,
         NEW k, k = SetState(h, v)
  PROVE  /\ k.conn = v /\ SameWish(h, k) /\ SameChat(h, k) /\ SamePref(h, k) /\ SameFlow(h, k)
         /\ SameSaved(h, k) /\ SameQueues(h, k)
         /\ k.sess = 0 /\ k.runtime = h.runtime /\ k.stored = h.stored /\ k.opening = h.opening
         /\ k.mcp = (IF h.mcp = "reloading" THEN "degraded" ELSE h.mcp)
         /\ k.reloadReq = (IF h.mcp = "reloading" THEN 0 ELSE h.reloadReq)
         /\ k.mcpReq = h.mcpReq /\ k.retry = h.retry
<1> DEFINE b == [h EXCEPT !.conn = v]
           c == [b EXCEPT !.sess = 0]
<1>1. b.conn = v
  BY DEF Working, Hal
<1>2. k = IF c.mcp = "reloading" THEN [c EXCEPT !.reloadReq = 0, !.mcp = "degraded"] ELSE c
  BY <1>1 DEF SetState, OnConnection
<1>3. c = [h EXCEPT !.conn = v, !.sess = 0]
  BY DEF Working, Hal
<1> HIDE DEF b, c
<1> QED
  BY <1>2, <1>3 DEF Working, Hal, SameWish, SameChat, SamePref, SameFlow, SameSaved, SameQueues

\* The state in which a new connection is noticed.
Connected(h) == [h EXCEPT !.conn = "connected", !.opening = "due"]

LEMMA ConnectedIs ==
  ASSUME NEW h, Working(h), h.conn # "connected", NEW c, c = Connected(h)
  PROVE  /\ SetState(h, "connected") = IF SelfMcp /\ c.mcp # "ready" THEN EnsureMcp(c)
                                       ELSE CreateOrResumeSession(c)
         /\ c.conn = "connected" /\ SameWish(h, c) /\ SameChat(h, c) /\ SamePref(h, c)
         /\ SameFlow(h, c) /\ SameSaved(h, c) /\ SameQueues(h, c) /\ SameMcp(h, c)
         /\ c.sess = h.sess /\ c.runtime = h.runtime /\ c.stored = h.stored
         /\ c.opening = "due" /\ Working(c)
<1> DEFINE b == [h EXCEPT !.conn = "connected"]
<1>1. Working(c)
  BY DEF Connected, Working, Hal, Conn
<1>2. b.conn = "connected" /\ c = [b EXCEPT !.opening = "due"]
  BY DEF Connected, Working, Hal
<1>3. SetState(h, "connected") = OnConnection(b)
  BY DEF SetState
<1>4. OnConnection(b) = IF SelfMcp /\ c.mcp # "ready" THEN EnsureMcp(c)
                        ELSE CreateOrResumeSession(c)
  BY <1>2 DEF OnConnection
<1> HIDE DEF b
<1> QED
  BY <1>1, <1>3, <1>4 DEF Connected, Working, Hal, SameWish, SameChat, SamePref, SameFlow, SameSaved,
     SameQueues, SameMcp

\* A connection that is lost or given up.
LEMMA DisconnectSound ==
  ASSUME NEW h, Working(h), PromptOk(h), SavedOk(h), LinkOk(h, {}), FramesOk(h.out, gate),
         NEW v \in Conn, v # "connected"
  PROVE  Sound(SetState(h, v), {})
<1> DEFINE k == SetState(h, v)
<1>1. CASE v = h.conn
  <2>1. Routed(h)
    BY <1>1, RouteClosed DEF Settled, Usable
  <2> QED BY <1>1, <2>1 DEF SetState, Sound
<1>2. CASE v # h.conn
  <2>1. /\ k.conn = v /\ SameWish(h, k) /\ SameChat(h, k) /\ SamePref(h, k) /\ SameFlow(h, k)
        /\ SameSaved(h, k) /\ SameQueues(h, k)
        /\ k.sess = 0 /\ k.runtime = h.runtime /\ k.opening = h.opening
        /\ k.reloadReq = (IF h.mcp = "reloading" THEN 0 ELSE h.reloadReq)
        /\ k.mcpReq = h.mcpReq
    BY <1>2, DisconnectedIs
  <2>2. Working(k)
    BY SetStateType
  <2> HIDE DEF k
  <2>3. Links(h, k)
    BY <2>1, KeptLinks DEF SameFlow
  <2>4. PromptOk(k)
    BY <2>1, PromptKept DEF Forgets
  <2>5. Routed(k)
    BY <2>1, RouteClosed DEF Settled, Usable, SameQueues
  <2>6. Sound(k, {})
    BY <2>2, <2>3, <2>4, <2>5 DEF Sound, Links
  <2> QED BY <2>6 DEF k
<1> QED
  BY <1>1, <1>2

LEMMA SetStateSound ==
  ASSUME NEW h, Sound(h, {}), NEW v \in Conn
  PROVE  Sound(SetState(h, v), {})
<1> DEFINE k == SetState(h, v)
           c == Connected(h)
<1>0. Working(h) /\ FramesOk(h.out, gate)
  BY DEF Sound, Routed
<1>1. CASE v = h.conn
  BY <1>1 DEF SetState
<1>2. CASE v # "connected"
  BY <1>0, <1>2, DisconnectSound DEF Sound
<1>3. CASE v # h.conn /\ v = "connected"
  <2>1. /\ k = (IF SelfMcp /\ c.mcp # "ready" THEN EnsureMcp(c) ELSE CreateOrResumeSession(c))
        /\ SameWish(h, c) /\ SameChat(h, c) /\ SamePref(h, c)
        /\ SameFlow(h, c) /\ SameSaved(h, c) /\ SameQueues(h, c) /\ SameMcp(h, c)
        /\ c.sess = h.sess /\ c.runtime = h.runtime
        /\ c.opening = "due" /\ Working(c)
    BY <1>0, <1>3, ConnectedIs
  <2>2. Working(k)
    BY <1>0, SetStateType
  <2> HIDE DEF k, c
  <2>3. Links(h, c)
    BY <1>0, <2>1, KeptLinks DEF SameFlow, SameMcp
  <2>4. Links(c, k)
    BY <2>1, EnsureMcpLinks, CreateOrResumeLinks
  <2>5. Routed(c)
    BY <1>0, <2>1, RouteClosed DEF Settled, SameQueues
  <2>6. Routed(k)
    BY <2>1, <2>5, EnsureMcpRoute, CreateOrResumeRoute
  <2>7. PromptOk(c)
    BY <2>1 DEF Sound, PromptOk, OneQueued, SameChat, SamePref
  <2>8. PromptOk(k)
    <3>1. PromptOk(EnsureMcp(c))
      BY <2>1, <2>7, RequestMcpPrompt DEF EnsureMcp, McpMethod, Stage
    <3> QED BY <2>1, <2>7, <3>1, CreateOrResumePrompt
  <2>9. Sound(k, {})
    BY <2>2, <2>3, <2>4, <2>6, <2>8 DEF Sound, Links
  <2> QED BY <2>9 DEF k
<1> QED
  BY <1>1, <1>2, <1>3

LEMMA OnTransportStateSound ==
  ASSUME Sound(hal, {}), NEW v \in Conn
  PROVE  Sound(OnTransportState(hal, v), {})
<1>1. Sound(RejectAll(hal), {})
  BY RejectAllSound
<1> QED
  BY <1>1, SetStateSound DEF OnTransportState

LEMMA OnTransportErrorSound ==
  ASSUME Sound(hal, {})
  PROVE  Sound(OnTransportError(hal), {})
BY SetStateSound DEF OnTransportError, Conn

\* A sequence without its entry at i.
LEMMA WithoutOne ==
  ASSUME NEW T, NEW s \in Seq(T), NEW i \in 1..Len(s)
  PROVE  /\ RemoveAt(s, i) \in Seq(T)
         /\ DOMAIN RemoveAt(s, i) = 1..(Len(s) - 1)
         /\ \A j \in 1..(Len(s) - 1) : RemoveAt(s, i)[j] = IF j < i THEN s[j] ELSE s[j + 1]
<1> DEFINE a == SubSeq(s, 1, i - 1)
           b == SubSeq(s, i + 1, Len(s))
<1>1. a \in Seq(T) /\ Len(a) = i - 1 /\ \A j \in 1..(i - 1) : a[j] = s[j]
  <2>1. \A j \in 1..(i - 1) : s[j] \in T
    OBVIOUS
  <2> QED BY <2>1, SubSeqProperties
<1>2. b \in Seq(T) /\ Len(b) = Len(s) - i /\ \A j \in 1..(Len(s) - i) : b[j] = s[i + j]
  <2>1. \A j \in (i + 1)..Len(s) : s[j] \in T
    OBVIOUS
  <2> QED BY <2>1, SubSeqProperties
<1> HIDE DEF a, b
<1>3. a \o b \in Seq(T) /\ Len(a \o b) = Len(s) - 1
      /\ \A j \in 1..(Len(s) - 1) : (a \o b)[j] = IF j < i THEN s[j] ELSE s[j + 1]
  <2>1. /\ a \o b \in Seq(T) /\ Len(a \o b) = Len(a) + Len(b)
        /\ \A j \in 1..(Len(a) + Len(b)) :
             (a \o b)[j] = IF j <= Len(a) THEN a[j] ELSE b[j - Len(a)]
    BY <1>1, <1>2, ConcatProperties
  <2>2. i \in Nat /\ Len(s) \in Nat /\ i >= 1
    OBVIOUS
  <2>3. ASSUME NEW j \in 1..(Len(s) - 1) PROVE (a \o b)[j] = IF j < i THEN s[j] ELSE s[j + 1]
    <3>1. CASE j < i
      BY <1>1, <1>2, <2>1, <2>2, <3>1
    <3>2. CASE ~(j < i)
      <4>1. j - (i - 1) \in 1..(Len(s) - i) /\ i + (j - (i - 1)) = j + 1 /\ ~(j <= i - 1)
        BY <2>2, <3>2
      <4>2. (a \o b)[j] = b[j - (i - 1)]
        BY <1>1, <1>2, <2>1, <2>2, <4>1
      <4> QED BY <1>2, <3>2, <4>1, <4>2
    <3> QED BY <3>1, <3>2
  <2>4. Len(a) + Len(b) = Len(s) - 1
    BY <1>1, <1>2, <2>2
  <2> QED BY <2>1, <2>3, <2>4
<1>4. RemoveAt(s, i) = a \o b
  BY DEF RemoveAt, a, b
<1> HIDE DEF RemoveAt
<1> QED
  BY <1>3, <1>4

\* A request that is taken out of the table.
LEMMA TakenSound ==
  ASSUME Sound(hal, {}), NEW i \in DOMAIN hal.pend, NEW k,
         k = [hal EXCEPT !.pend = RemoveAt(@, i)]
  PROVE  /\ Sound(k, {hal.pend[i]})
         /\ SameOuter(hal, k) /\ SameChat(hal, k) /\ SamePref(hal, k) /\ SameMcp(hal, k)
         /\ SameSession(hal, k) /\ SameFlow(hal, k) /\ SameSaved(hal, k) /\ k.out = hal.out
         /\ Entries(k, {hal.pend[i]}) = Entries(hal, {})
<1> DEFINE s == hal.pend
           t == RemoveAt(s, i)
           E == {hal.pend[i]}
<1>1. Working(hal) /\ s \in Seq(Entry)
  BY DEF Sound, Working, Hal
<1>3. i \in 1..Len(s) /\ Len(s) \in Nat
  BY <1>1
<1>4. t \in Seq(Entry) /\ DOMAIN t = 1..(Len(s) - 1)
      /\ \A j \in 1..(Len(s) - 1) : t[j] = IF j < i THEN s[j] ELSE s[j + 1]
  BY <1>1, <1>3, WithoutOne
<1>2. /\ DOMAIN t = 1..(Len(s) - 1)
      /\ \A j \in 1..(Len(s) - 1) : t[j] = IF j < i THEN s[j] ELSE s[j + 1]
  BY <1>4
<1> HIDE DEF s, t
<1>5. Working(k)
  BY <1>1, <1>4 DEF Working, Hal, s, t
<1>6. /\ SameOuter(hal, k) /\ SameChat(hal, k) /\ SamePref(hal, k) /\ SameMcp(hal, k)
      /\ SameSession(hal, k) /\ SameFlow(hal, k) /\ SameSaved(hal, k)
      /\ k.pend = t /\ k.out = hal.out
  BY <1>1 DEF Working, Hal, SameOuter, SameWish, SameChat, SamePref, SameMcp, SameSession,
     SameFlow, SameSaved, s, t
<1>7. PromptOk(k)
  BY <1>6, PromptKept DEF Sound, Forgets, SameSession
<1>8. SavedOk(k)
  BY <1>6 DEF Sound, SavedOk, SameOuter, SameWish, SameFlow, SameSaved
<1>9. Routed(k)
  BY <1>1, <1>6, RouteCalm DEF Sound, SameFlow
<1>10. Entries(k, E) = Entries(hal, {})
  <2>1. ASSUME NEW j \in DOMAIN t PROVE \E l \in DOMAIN s : t[j] = s[l]
    BY <1>2, <1>3
  <2>2. ASSUME NEW l \in DOMAIN s, l # i PROVE \E j \in DOMAIN t : t[j] = s[l]
    <3>1. CASE l < i
      BY <1>1, <1>2, <1>3, <2>2, <3>1
    <3>2. CASE l > i
      <4>1. l - 1 \in 1..(Len(s) - 1) /\ ~(l - 1 < i) /\ (l - 1) + 1 = l
        BY <1>1, <1>3, <3>2
      <4> QED BY <1>2, <4>1
    <3> QED BY <1>1, <1>3, <2>2, <3>1, <3>2
  <2> QED BY <1>6, <2>1, <2>2 DEF Entries, s
<1>11. Distinct(k)
  <2>1. Distinct(hal)
    BY DEF Sound, LinkOk
  <2>2. \A a, b \in DOMAIN s : s[a].id = s[b].id => a = b
    BY <2>1 DEF Distinct, s
  <2>3. ASSUME NEW a \in DOMAIN t, NEW b \in DOMAIN t, t[a].id = t[b].id PROVE a = b
    <3> DEFINE up(j) == IF j < i THEN j ELSE j + 1
    <3>1. \A j \in DOMAIN t : j \in Nat /\ up(j) \in DOMAIN s /\ t[j] = s[up(j)]
      BY <1>1, <1>2, <1>3
    <3>2. up(a) = up(b)
      <4> HIDE DEF up
      <4> QED BY <2>2, <2>3, <3>1
    <3> QED BY <1>3, <3>1, <3>2
  <2> QED BY <1>6, <2>3 DEF Distinct
<1>12. ASSUME NEW e \in Entries(k, E) PROVE Agrees(k, e, signals)
  <2>1. Agrees(hal, e, signals)
    BY <1>10, <1>12 DEF Sound, LinkOk
  <2> QED BY <1>6, <2>1 DEF Agrees, SameMcp, SameSession, SameFlow
<1> HIDE DEF E
<1>13. Sound(k, E)
  BY <1>5, <1>7, <1>8, <1>9, <1>11, <1>12 DEF Sound, LinkOk
<1> QED
  BY <1>6, <1>10, <1>13 DEF E

\* The answer to a pending request, or to one that is not pending any more.
LEMMA OnReplyIs ==
  ASSUME NEW r
  PROVE  \/ OnReply(hal, r) = hal
         \/ \E i \in DOMAIN hal.pend :
              LET p == [hal EXCEPT !.pend = RemoveAt(@, i)] IN
              /\ hal.pend[i].id = r.id
              /\ OnReply(hal, r) = IF r.v = "error" THEN OnRpcError(p, r.id, hal.pend[i].m)
                                   ELSE OnRpcResult(p, r.id, hal.pend[i].m, r.v, r.s)
<1> DEFINE K == {i \in DOMAIN hal.pend : hal.pend[i].id = r.id}
           i == CHOOSE i \in K : TRUE
           p == [hal EXCEPT !.pend = RemoveAt(@, i)]
<1>1. CASE K = {}
  BY <1>1 DEF OnReply
<1>2. CASE K # {}
  <2>1. OnReply(hal, r) = IF r.v = "error" THEN OnRpcError(p, r.id, hal.pend[i].m)
                          ELSE OnRpcResult(p, r.id, hal.pend[i].m, r.v, r.s)
    BY <1>2 DEF OnReply
  <2>2. i \in DOMAIN hal.pend /\ hal.pend[i].id = r.id
    BY <1>2
  <2> QED BY <2>1, <2>2
<1> QED
  BY <1>1, <1>2

\* The first queued notification, if it is an answer, and the request it settles.
LEMMA AnswerIs ==
  ASSUME Sound(hal, {}), signals # <<>>, Head(signals).t = "reply",
         NEW i \in DOMAIN hal.pend, hal.pend[i].id = Head(signals).id
  PROVE  LET r == Head(signals)
             m == hal.pend[i].m
         IN  /\ m \in Method /\ hal.pend[i].id \in Ids
             /\ r.v \in Verdicts(m) /\ r.s \in Session0
             /\ m \in {"create", "resume"} => r.s # 0
             /\ \E j \in DOMAIN signals : signals[j].id = r.id /\ signals[j].v = r.v
<1>1. signals \in Seq(Signal) /\ hal.pend \in Seq(Entry)
  BY DEF Sound, Working, Hal
<1>2. 1 \in DOMAIN signals /\ signals[1] = Head(signals) /\ signals[1] \in Signal
  BY <1>1
<1>3. signals[1] \in Reply
  BY <1>2 DEF Signal, Note, Fault
<1>4. hal.pend[i] \in Entry /\ Agrees(hal, hal.pend[i], signals)
  BY <1>1 DEF Sound, LinkOk, Entries
<1>5. /\ hal.pend[i].m \in Method /\ hal.pend[i].id \in Ids
      /\ Head(signals).s \in Session0
  BY <1>2, <1>3, <1>4 DEF Entry, Reply
<1>6. /\ Head(signals).v \in Verdicts(hal.pend[i].m)
      /\ hal.pend[i].m \in {"create", "resume"} => Head(signals).s # 0
  BY <1>2, <1>4 DEF Agrees
<1> QED
  BY <1>2, <1>5, <1>6

LEMMA OnReplySound ==
  ASSUME Sound(hal, {}), signals # <<>>, Head(signals).t = "reply"
  PROVE  Sound(OnReply(hal, Head(signals)), {})
<1> DEFINE r == Head(signals)
           k == OnReply(hal, r)
<1> SUFFICES ASSUME NEW i \in DOMAIN hal.pend, NEW p, p = [hal EXCEPT !.pend = RemoveAt(@, i)],
                    hal.pend[i].id = r.id,
                    k = IF r.v = "error" THEN OnRpcError(p, r.id, hal.pend[i].m)
                        ELSE OnRpcResult(p, r.id, hal.pend[i].m, r.v, r.s)
             PROVE  Sound(k, {})
  BY OnReplyIs
<1> DEFINE E == {hal.pend[i]}
<1>1. Sound(p, E)
  BY TakenSound
<1>2. /\ hal.pend[i].m \in Method /\ r.v \in Verdicts(hal.pend[i].m) /\ r.s \in Session0
      /\ \E j \in DOMAIN signals : signals[j].id = r.id /\ signals[j].v = r.v
  BY AnswerIs
<1>3. E \in SUBSET Earlier
  BY DEF Earlier
<1> HIDE DEF E, k, r
<1>4. Sound(k, E)
  BY <1>1, <1>2, <1>3, OnRpcErrorSound, OnRpcResultSound
<1> QED
  BY <1>4, LinkLess DEF Sound

-----------------------------------------------------------------------------
(* The steps.                                                               *)

Notices == {Note(v) : v \in Conn} \cup {Fault}

\* The queue of notifications loses some and gets some that are not answers.
NoNewAnswer ==
  /\ signals' \in Seq(Signal)
  /\ \A i \in DOMAIN signals' :
       (\E j \in DOMAIN signals : signals'[i] = signals[j]) \/ signals'[i] \in Notices

LEMMA CarrySound ==
  ASSUME NEW k, Sound(k, {}), hal' = k, gate' = gate, NoNewAnswer
  PROVE  Sound(hal, {})'
<1>1. Working(hal)'
  BY DEF Sound, Working, NoNewAnswer
<1>2. PromptOk(hal)' /\ SavedOk(hal)'
  BY DEF Sound
<1>3. \A i \in DOMAIN signals' : signals'[i] \in Notices =>
        signals'[i].t # "reply" /\ signals'[i].v # "ok"
  BY DEF Notices, Note, Fault, Conn
<1>4. \A f \in k.flow : EntryOk(k, f, signals, gate) => EntryOk(k, f, signals', gate)
  BY <1>3 DEF EntryOk, NoNewAnswer
<1>5. RouteOk(k, signals', gate) /\ FramesOk(k.out, gate)
  BY <1>4 DEF Sound, Routed, RouteOk, FlowOk
<1>6. Routed(hal)'
  BY <1>5 DEF Routed
<1>7. LinkOk(hal, {})'
  <2>1. \A e : Agrees(k, e, signals) => Agrees(k, e, signals')
    BY <1>3 DEF Agrees, NoNewAnswer
  <2>2. Distinct(k) /\ \A e \in Entries(k, {}) : Agrees(k, e, signals')
    BY <2>1 DEF Sound, LinkOk
  <2> QED BY <2>2 DEF LinkOk
<1> QED
  BY <1>1, <1>2, <1>6, <1>7 DEF Sound

LEMMA SameSignals ==
  ASSUME Sound(hal, {}), signals' = signals
  PROVE  NoNewAnswer
BY DEF Sound, Working, NoNewAnswer

LEMMA MoreNotices ==
  ASSUME Sound(hal, {}), NEW tail \in Seq(Notices), signals' = signals \o tail
  PROVE  NoNewAnswer
<1>1. signals \in Seq(Signal) /\ tail \in Seq(Signal)
  <2>1. Notices \subseteq Signal
    BY DEF Notices, Signal
  <2> QED BY <2>1 DEF Sound, Working
<1>2. /\ signals \o tail \in Seq(Signal)
      /\ Len(signals \o tail) = Len(signals) + Len(tail)
      /\ \A i \in 1 .. Len(signals) + Len(tail) : (signals \o tail)[i] =
           IF i <= Len(signals) THEN signals[i] ELSE tail[i - Len(signals)]
  BY <1>1, ConcatProperties
<1>3. ASSUME NEW i \in DOMAIN signals'
      PROVE  (\E j \in DOMAIN signals : signals'[i] = signals[j]) \/ signals'[i] \in Notices
  <2>1. CASE i <= Len(signals)
    BY <1>1, <1>2, <2>1
  <2>2. CASE ~(i <= Len(signals))
    <3>1. i - Len(signals) \in 1..Len(tail)
      BY <1>1, <1>2, <2>2
    <3>2. signals'[i] = tail[i - Len(signals)] /\ tail[i - Len(signals)] \in Notices
      BY <1>1, <1>2, <2>2, <3>1
    <3> QED BY <3>2
  <2> QED BY <2>1, <2>2
<1> QED
  BY <1>2, <1>3 DEF NoNewAnswer

LEMMA KeptNotices ==
  ASSUME Sound(hal, {}), NEW kept \in Kept, NEW tail \in Seq(Notices), signals' = kept \o tail
  PROVE  NoNewAnswer
<1>1. signals \in Seq(Signal) /\ tail \in Seq(Signal)
  <2>1. Notices \subseteq Signal
    BY DEF Notices, Signal
  <2> QED BY <2>1 DEF Sound, Working
<1>2. PICK k \in 0..Len(signals) : kept = SubSeq(signals, 1, k)
  BY DEF Kept
<1>3. kept \in Seq(Signal) /\ Len(kept) = k /\ \A i \in 1..k : kept[i] = signals[i]
  <2>1. \A i \in 1..k : signals[i] \in Signal
    BY <1>1, <1>2
  <2>2. k \in Int /\ 0 <= k
    BY <1>1, <1>2
  <2> QED BY <1>2, <2>1, <2>2, SubSeqProperties
<1>4. /\ kept \o tail \in Seq(Signal)
      /\ Len(kept \o tail) = Len(kept) + Len(tail)
      /\ \A i \in 1 .. Len(kept) + Len(tail) : (kept \o tail)[i] =
           IF i <= Len(kept) THEN kept[i] ELSE tail[i - Len(kept)]
  BY <1>1, <1>3, ConcatProperties
<1>5. ASSUME NEW i \in DOMAIN signals'
      PROVE  (\E j \in DOMAIN signals : signals'[i] = signals[j]) \/ signals'[i] \in Notices
  <2>1. CASE i <= k
    <3>1. i \in 1..k /\ i \in DOMAIN signals
      BY <1>1, <1>2, <1>3, <1>4, <2>1
    <3>2. signals'[i] = signals[i]
      BY <1>3, <1>4, <2>1, <3>1
    <3> QED BY <3>1, <3>2
  <2>2. CASE ~(i <= k)
    <3>1. i - k \in 1..Len(tail)
      BY <1>1, <1>3, <1>4, <2>2
    <3>2. signals'[i] = tail[i - k] /\ tail[i - k] \in Notices
      BY <1>1, <1>3, <1>4, <2>2, <3>1
    <3> QED BY <3>2
  <2> QED BY <1>1, <1>2, <2>1, <2>2
<1> QED
  BY <1>4, <1>5 DEF NoNewAnswer

LEMMA FewerSignals ==
  ASSUME Sound(hal, {}), signals # <<>>, signals' = Tail(signals)
  PROVE  NoNewAnswer
<1>1. signals \in Seq(Signal)
  BY DEF Sound, Working
<1> QED
  BY <1>1 DEF NoNewAnswer

LEMMA StopWorkerSignals ==
  ASSUME Sound(hal, {}), NEW tail \in Seq(Notices), StopWorker(tail)
  PROVE  NoNewAnswer
<1>1. CASE signals' = signals \o tail
  BY <1>1, MoreNotices
<1>2. ASSUME NEW kept \in Kept, signals' = kept \o <<Note("offline")>> \o tail
      PROVE  NoNewAnswer
  <2>1. <<Note("offline")>> \in Seq(Notices)
    BY DEF Notices, Conn
  <2>2. <<Note("offline")>> \o tail \in Seq(Notices)
    BY <2>1, ConcatProperties
  <2>3. kept \in Seq(Signal)
    <3>1. signals \in Seq(Signal)
      BY DEF Sound, Working
    <3>2. PICK k \in 0..Len(signals) : kept = SubSeq(signals, 1, k)
      BY DEF Kept
    <3>3. k \in Int /\ \A i \in 1..k : signals[i] \in Signal
      BY <3>1, <3>2
    <3> QED BY <3>2, <3>3, SubSeqProperties
  <2>4. <<Note("offline")>> \in Seq(Signal) /\ tail \in Seq(Signal)
    <3>1. Notices \subseteq Signal
      BY DEF Notices, Signal
    <3> QED BY <2>1, <3>1
  <2>5. (kept \o <<Note("offline")>>) \o tail = kept \o (<<Note("offline")>> \o tail)
    BY <2>3, <2>4, ConcatAssociative
  <2> QED BY <1>2, <2>2, <2>5, KeptNotices
<1> QED
  BY <1>1, <1>2 DEF StopWorker

\* The state in which connectTo dials.
Dialing(h) == [h EXCEPT !.link = TRUE, !.url = TRUE, !.out = <<>>, !.stale = @ \/ LeavesNotes]

LEMMA DialingIs ==
  ASSUME NEW h, Working(h), NEW k, k = Dialing(h)
  PROVE  /\ k.conn = h.conn /\ k.link = TRUE /\ k.out = <<>> /\ k.pend = h.pend
         /\ k.desired = h.desired /\ k.persist = h.persist /\ k.fallback = h.fallback
         /\ k.chosen = h.chosen /\ (k.stale <=> h.stale \/ LeavesNotes)
         /\ SameChat(h, k) /\ SamePref(h, k) /\ SameMcp(h, k) /\ SameSession(h, k)
         /\ SameFlow(h, k) /\ SameSaved(h, k)
         /\ Working(k)
<1> DEFINE st == h.stale \/ LeavesNotes
<1>1. st \in BOOLEAN
  OBVIOUS
<1>2. k = [h EXCEPT !.link = TRUE, !.url = TRUE, !.out = <<>>, !.stale = st]
  BY DEF Dialing
<1>3. k.stale = st
  BY <1>2 DEF Working, Hal
<1>4. k.stale <=> h.stale \/ LeavesNotes
  BY <1>3
<1> HIDE DEF st
<1>5. <<>> \in Seq(Frame) /\ TRUE \in BOOLEAN
  OBVIOUS
<1>6. Working(k)
  BY ZenonT(40), <1>1, <1>2, <1>5 DEF Working, Hal
<1>7. /\ k.conn = h.conn /\ k.link = TRUE /\ k.out = <<>> /\ k.pend = h.pend
      /\ k.desired = h.desired /\ k.persist = h.persist /\ k.fallback = h.fallback
      /\ k.chosen = h.chosen
      /\ SameChat(h, k) /\ SamePref(h, k) /\ SameMcp(h, k) /\ SameSession(h, k)
      /\ SameFlow(h, k) /\ SameSaved(h, k)
  BY <1>2 DEF Working, Hal, SameChat, SamePref, SameMcp, SameSession, SameFlow, SameSaved
<1> QED
  BY <1>4, <1>6, <1>7

LEMMA ConnectToSound ==
  ASSUME Sound(hal, {}), ConnectTo
  PROVE  Sound(hal, {})'
<1> DEFINE b == Dialing(hal)
<1>1. /\ b.out = <<>> /\ b.pend = hal.pend
      /\ b.desired = hal.desired /\ b.persist = hal.persist /\ b.chosen = hal.chosen
      /\ SameChat(hal, b) /\ SamePref(hal, b) /\ SameMcp(hal, b) /\ SameSession(hal, b)
      /\ SameFlow(hal, b) /\ SameSaved(hal, b) /\ Working(b)
  BY DialingIs DEF Sound
<1>2. hal' = SetState(b, "connecting") /\ gate' = gate
  BY DEF ConnectTo, Dialing
<1>3. NoNewAnswer
  <2>1. <<Note("connecting")>> \in Seq(Notices)
    BY DEF Notices, Conn
  <2> QED BY <2>1, StopWorkerSignals DEF ConnectTo
<1> HIDE DEF b
<1>4. PromptOk(b) /\ SavedOk(b)
  BY <1>1 DEF Sound, PromptOk, OneQueued, SavedOk, SameChat, SamePref, SameSession, SameFlow, SameSaved
<1>5. LinkOk(b, {})
  BY <1>1 DEF Sound, LinkOk, Distinct, Entries, Agrees, SameMcp, SameSession, SameFlow
<1>6. FramesOk(b.out, gate)
  BY <1>1 DEF FramesOk
<1>7. Sound(SetState(b, "connecting"), {})
  BY <1>1, <1>4, <1>5, <1>6, DisconnectSound DEF Conn
<1> QED
  BY <1>2, <1>3, <1>7, CarrySound

\* The state in which stop closes the client.
Stopping(h) ==
  [Undelivered(h) EXCEPT !.flow = {}, !.prefPending = FALSE, !.prefFailed = FALSE,
     !.prefState = "unconfigured", !.mcp = "idle", !.mcpReq = 0, !.reloadReq = 0,
     !.sess = 0, !.retry = FALSE, !.link = FALSE, !.out = <<>>, !.stale = @ \/ LeavesNotes]

LEMMA StoppingIs ==
  ASSUME NEW h, Working(h), NEW k, k = Stopping(h)
  PROVE  /\ k.conn = h.conn /\ k.link = FALSE /\ k.out = <<>> /\ k.pend = h.pend
         /\ k.desired = h.desired /\ k.persist = h.persist /\ k.fallback = h.fallback
         /\ k.chosen = h.chosen /\ (k.stale <=> h.stale \/ LeavesNotes)
         /\ k.flow = {} /\ k.prefPending = FALSE /\ k.prefFailed = FALSE
         /\ k.mcp = "idle" /\ k.mcpReq = 0 /\ k.reloadReq = 0 /\ k.sess = 0 /\ k.retry = FALSE
         /\ SameChat(Undelivered(h), k) /\ SameSaved(h, k)
         /\ Working(k)
<1> DEFINE u == Undelivered(h)
           st == u.stale \/ LeavesNotes
<1>1. Working(u) /\ SameOuter(h, u) /\ SameSaved(h, u) /\ SameQueues(h, u)
  BY UndeliveredType, UndeliveredFrame
<1>2. st \in BOOLEAN
  OBVIOUS
<1>3. k = [u EXCEPT !.flow = {}, !.prefPending = FALSE, !.prefFailed = FALSE,
             !.prefState = "unconfigured", !.mcp = "idle", !.mcpReq = 0, !.reloadReq = 0,
             !.sess = 0, !.retry = FALSE, !.link = FALSE, !.out = <<>>, !.stale = st]
  BY DEF Stopping
<1> HIDE DEF u
<1>4. k.stale = st
  BY <1>1, <1>3 DEF Working, Hal
<1>5. k.stale <=> h.stale \/ LeavesNotes
  BY <1>1, <1>4 DEF SameOuter, SameWish
<1> HIDE DEF st
<1>6. /\ <<>> \in Seq(Frame) /\ FALSE \in BOOLEAN /\ 0 \in Id0 /\ "idle" \in Stage
      /\ {} \in Flows
  BY FS_EmptySet DEF Id0, Stage, Flows
<1>7. Working(k)
  <2> DEFINE a == [u EXCEPT !.flow = {}, !.prefPending = FALSE, !.prefFailed = FALSE,
                            !.prefState = "unconfigured"]
             b == [a EXCEPT !.mcp = "idle", !.mcpReq = 0, !.reloadReq = 0, !.sess = 0]
             c == [b EXCEPT !.retry = FALSE, !.link = FALSE, !.out = <<>>]
  <2>1. Working(a)
    BY ZenonT(40), <1>1, <1>6 DEF Working, Hal
  <2>2. Working(b)
    <3> HIDE DEF a
    <3> QED BY <1>6, <2>1 DEF Working, Hal
  <2>3. Working(c)
    <3> HIDE DEF b
    <3> QED BY ZenonT(40), <1>6, <2>2 DEF Working, Hal
  <2>4. k = [c EXCEPT !.stale = st]
    BY <1>1, <1>3 DEF Working, Hal
  <2> HIDE DEF c
  <2> QED BY ZenonT(40), <1>2, <2>3, <2>4 DEF Working, Hal
<1>8. /\ k.conn = u.conn /\ k.link = FALSE /\ k.out = <<>> /\ k.pend = u.pend
      /\ k.desired = u.desired /\ k.persist = u.persist /\ k.fallback = u.fallback
      /\ k.chosen = u.chosen
      /\ k.flow = {} /\ k.prefPending = FALSE /\ k.prefFailed = FALSE
      /\ k.mcp = "idle" /\ k.mcpReq = 0 /\ k.reloadReq = 0 /\ k.sess = 0 /\ k.retry = FALSE
      /\ SameChat(u, k) /\ SameSaved(u, k)
  BY <1>1, <1>3 DEF Working, Hal, SameChat, SameSaved
<1> QED
  BY <1>1, <1>5, <1>7, <1>8 DEF SameOuter, SameWish, SameSaved, SameQueues, u

LEMMA StopSound ==
  ASSUME Sound(hal, {}), Stop
  PROVE  Sound(hal, {})'
<1> DEFINE r == Stopping(hal)
           x == RejectAll(r)
<1>0. Working(hal)
  BY DEF Sound
<1>1. /\ r.link = FALSE /\ r.out = <<>> /\ r.pend = hal.pend
      /\ r.desired = hal.desired /\ r.persist = hal.persist /\ r.chosen = hal.chosen
      /\ r.flow = {} /\ r.mcpReq = 0 /\ r.reloadReq = 0 /\ r.sess = 0
      /\ r.prefFailed = FALSE
      /\ SameChat(Undelivered(hal), r) /\ SameSaved(hal, r) /\ Working(r)
  BY ZenonT(40), <1>0, StoppingIs
<1>2. hal' = SetState(x, "offline") /\ gate' = gate
  BY DEF Stop, Stopping
<1>3. NoNewAnswer
  <2>1. <<>> \in Seq(Notices)
    OBVIOUS
  <2> QED BY <2>1, StopWorkerSignals DEF Stop
<1> HIDE DEF r, x
<1>4. PromptOk(r)
  <2>1. PromptOk(Undelivered(hal)) /\ Undelivered(hal).queued = NoPrompt
    BY <1>0, UndeliveredPrompt, UndeliveredFrame DEF Sound, PromptOk
  <2> QED BY <1>1, <2>1 DEF PromptOk, OneQueued, SameChat
<1>5. SavedOk(r)
  BY <1>1 DEF Sound, SavedOk, SameSaved
<1>6. LinkOk(r, {})
  <2>1. Distinct(r)
    BY <1>1 DEF Sound, LinkOk, Distinct
  <2>2. ASSUME NEW e \in Entries(r, {}) PROVE Agrees(r, e, signals)
    <3>1. e \in Entries(hal, {})
      BY <1>1, <2>2 DEF Entries
    <3>2. Agrees(hal, e, signals)
      BY <3>1 DEF Sound, LinkOk
    <3>3. e \in Entry
      BY <1>0, <3>1 DEF Entries, Working, Hal
    <3>4. e.id # 0
      BY <3>3, HermesAssumption DEF Entry
    <3> QED BY <1>1, <3>2, <3>4 DEF Agrees
  <2> QED BY <2>1, <2>2 DEF LinkOk
<1>7. FramesOk(r.out, gate)
  BY <1>1 DEF FramesOk
<1>8. Routed(r)
  BY <1>1, <1>7, RouteClosed DEF Settled, Usable
<1>9. Sound(x, {})
  BY <1>1, <1>4, <1>5, <1>6, <1>8, RejectAllSound DEF Sound, x
<1>10. Sound(SetState(x, "offline"), {})
  BY <1>9, SetStateSound DEF Conn
<1> QED
  BY <1>2, <1>3, <1>10, CarrySound

LEMMA SubmitSound ==
  ASSUME Sound(hal, {}), NEW p \in Prompt, Submit(p)
  PROVE  Sound(hal, {})'
<1> DEFINE k == SendPrompt(hal, p)
<1>1. Working(k) /\ Links(hal, k) /\ Routed(k)
  BY SendPromptType, SendPromptLinks, SendPromptRoute DEF Sound
<1>2. PromptOk(k)
  BY SendPromptPrompt DEF Sound, PromptOk, OneQueued
<1>3. hal' = k /\ gate' = gate /\ NoNewAnswer
  BY SameSignals DEF Submit, Quiet
<1> HIDE DEF k
<1>4. Sound(k, {})
  BY <1>1, <1>2 DEF Sound, Links
<1> QED
  BY <1>3, <1>4, CarrySound

LEMMA CancelSound ==
  ASSUME Sound(hal, {}), Cancel
  PROVE  Sound(hal, {})'
<1> DEFINE k == Undelivered(hal)
<1>1. Working(k) /\ Links(hal, k) /\ Routed(k)
  BY UndeliveredType, UndeliveredLinks, UndeliveredRoute DEF Sound
<1>2. PromptOk(k)
  BY UndeliveredPrompt DEF Sound, PromptOk
<1>3. hal' = k /\ gate' = gate /\ NoNewAnswer
  BY SameSignals DEF Cancel, Quiet
<1> HIDE DEF k
<1>4. Sound(k, {})
  BY <1>1, <1>2 DEF Sound, Links
<1> QED
  BY <1>3, <1>4, CarrySound

\* A new workflow starts well from any wish.
LEMMA BeginPreferencesSound ==
  ASSUME NEW h, Working(h), OneQueued(h), SavedOk(h), LinkOk(h, {}), FramesOk(h.out, gate)
  PROVE  Sound(BeginPreferences(h), {})
BY BeginPreferencesType, BeginPreferencesPrompt, BeginPreferencesLinks, BeginPreferencesRoute
   DEF Sound, Links

LEMMA SwitchModelSound ==
  ASSUME Sound(hal, {}), NEW m \in Model, SwitchModel(m)
  PROVE  Sound(hal, {})'
<1> DEFINE b == [hal EXCEPT !.desired = m, !.persist = TRUE, !.chosen = @ \cup {m}]
<1>0. Working(hal)
  BY DEF Sound
<1>1. /\ SameChat(hal, b) /\ SameMcp(hal, b) /\ SameSession(hal, b) /\ SameFlow(hal, b)
      /\ SameSaved(hal, b) /\ SameQueues(hal, b)
      /\ b.desired = m /\ b.chosen = hal.chosen \cup {m}
  BY <1>0 DEF Working, Hal, SameChat, SameMcp, SameSession, SameFlow, SameSaved, SameQueues
<1>2. Working(b)
  BY <1>0 DEF Working, Hal
<1>3. hal' = BeginPreferences(b) /\ gate' = gate /\ NoNewAnswer
  BY SameSignals DEF SwitchModel, Quiet
<1> HIDE DEF b
<1>4. OneQueued(b)
  BY <1>1 DEF Sound, PromptOk, OneQueued, SameChat
<1>5. SavedOk(b)
  BY <1>1 DEF Sound, SavedOk, SameFlow, SameSaved
<1>6. LinkOk(b, {})
  BY <1>1 DEF Sound, LinkOk, Distinct, Entries, Agrees, SameMcp, SameSession, SameFlow, SameQueues
<1>7. FramesOk(b.out, gate)
  BY <1>1 DEF Sound, Routed, SameQueues
<1> QED
  BY <1>2, <1>3, <1>4, <1>5, <1>6, <1>7, BeginPreferencesSound, CarrySound

\* The state after the router's choice.
Chosen(h, m, fallback) == [h EXCEPT !.desired = m, !.persist = FALSE, !.fallback = fallback]

LEMMA ChosenIs ==
  ASSUME NEW h, Working(h), NEW m \in Model, NEW fallback \in BOOLEAN,
         NEW k, k = Chosen(h, m, fallback)
  PROVE  /\ SameChat(h, k) /\ SamePref(h, k) /\ SameMcp(h, k) /\ SameSession(h, k)
         /\ SameFlow(h, k) /\ SameSaved(h, k) /\ SameQueues(h, k)
         /\ k.conn = h.conn /\ k.link = h.link /\ k.stale = h.stale
         /\ k.chosen = h.chosen /\ ~k.persist
         /\ Working(k)
<1>1. ~k.persist
  BY DEF Chosen, Working, Hal
<1>2. /\ SameChat(h, k) /\ SamePref(h, k) /\ SameMcp(h, k) /\ SameSession(h, k)
      /\ SameFlow(h, k) /\ SameSaved(h, k) /\ SameQueues(h, k)
      /\ k.conn = h.conn /\ k.link = h.link /\ k.stale = h.stale /\ k.chosen = h.chosen
  BY DEF Chosen, Working, Hal, SameChat, SamePref, SameMcp, SameSession, SameFlow, SameSaved,
     SameQueues
<1>3. Working(k)
  <2>1. CASE fallback = TRUE
    BY ZenonT(40), <2>1 DEF Chosen, Working, Hal
  <2>2. CASE fallback = FALSE
    BY ZenonT(40), <2>2 DEF Chosen, Working, Hal
  <2> QED BY <2>1, <2>2
<1> QED
  BY <1>1, <1>2, <1>3

LEMMA EnsureRouteSound ==
  ASSUME Sound(hal, {}), NEW m \in Model, NEW b \in BOOLEAN, EnsureRoute(m, b)
  PROVE  Sound(hal, {})'
<1> DEFINE r == Chosen(hal, m, b)
<1>1. /\ SameChat(hal, r) /\ SamePref(hal, r) /\ SameMcp(hal, r) /\ SameSession(hal, r)
      /\ SameFlow(hal, r) /\ SameSaved(hal, r) /\ SameQueues(hal, r)
      /\ r.conn = hal.conn /\ r.chosen = hal.chosen /\ ~r.persist /\ Working(r)
  BY ChosenIs DEF Sound
<1>2. hal' = (IF CanSet THEN BeginPreferences(r) ELSE r) /\ gate' = gate /\ NoNewAnswer
  BY SameSignals DEF EnsureRoute, Quiet, Chosen
<1> HIDE DEF r
<1>3. PromptOk(r)
  BY <1>1 DEF Sound, PromptOk, OneQueued, SameChat, SamePref, SameSession
<1>4. SavedOk(r)
  BY <1>1 DEF Sound, SavedOk, SameFlow, SameSaved
<1>5. LinkOk(r, {})
  BY <1>1 DEF Sound, LinkOk, Distinct, Entries, Agrees, SameMcp, SameSession, SameFlow, SameQueues
<1>6. FramesOk(r.out, gate)
  BY <1>1 DEF Sound, Routed, SameQueues
<1>7. CASE CanSet
  BY <1>1, <1>2, <1>3, <1>4, <1>5, <1>6, <1>7, BeginPreferencesSound, CarrySound DEF PromptOk
<1>8. CASE ~CanSet
  <2>1. ~Settled(r)
    BY <1>1, <1>8 DEF CanSet, Settled, Usable, SameSession
  <2>2. Sound(r, {})
    BY <1>1, <1>3, <1>4, <1>5, <1>6, <2>1, RouteClosed DEF Sound
  <2> QED BY <1>2, <1>8, <2>2, CarrySound
<1> QED
  BY <1>7, <1>8

LEMMA SetReasoningSound ==
  ASSUME Sound(hal, {}), NEW b \in BOOLEAN, SetReasoning(b)
  PROVE  Sound(hal, {})'
<1>1. gate' = gate /\ NoNewAnswer
  BY SameSignals DEF SetReasoning, Quiet
<1>2. CASE b
  <2>1. hal' = BeginPreferences(hal)
    BY <1>2 DEF SetReasoning
  <2> QED BY <1>1, <2>1, BeginPreferencesSound, CarrySound DEF Sound, PromptOk, Routed
<1>3. CASE ~b
  <2> DEFINE g == NextGeneration(hal)
             k == FailPreferences(g)
  <2>1. hal' = k
    BY <1>3 DEF SetReasoning
  <2>2. /\ SameOuter(hal, g) /\ SameChat(hal, g) /\ SamePref(hal, g) /\ SameMcp(hal, g)
        /\ SameSession(hal, g) /\ SameSaved(hal, g) /\ SameQueues(hal, g)
        /\ g.flow = {[f EXCEPT !.cur = FALSE] : f \in hal.flow} /\ Working(g)
    BY NextGenerationFrame, NextGenerationType DEF Sound
  <2> HIDE DEF g
  <2>3. Links(hal, g)
    BY <2>2, NextGenerationLinks DEF Sound, SameOuter
  <2>4. Links(g, k) /\ Working(k)
    BY <2>2, FailPreferencesLinks, FailPreferencesType
  <2>5. OneQueued(g)
    BY <2>2 DEF Sound, PromptOk, OneQueued, SameChat
  <2>6. \A f \in g.flow : ~f.cur
    <3>1. hal.flow \in SUBSET Preference
      BY DEF Sound, Working, Hal, Flows
    <3> QED BY <2>2, <3>1 DEF Preference
  <2>7. Routed(k)
    <3>1. FlowOk(g, signals, gate) /\ FramesOk(g.out, gate)
      BY <2>2, <2>6 DEF Sound, Routed, FlowOk, SameQueues
    <3> QED BY <2>2, <3>1, FailPreferencesRoute
  <2>8. PromptOk(k)
    BY <2>2, <2>5, FailPreferencesPrompt
  <2> HIDE DEF k
  <2>9. Sound(k, {})
    BY <2>3, <2>4, <2>7, <2>8 DEF Sound, Links
  <2> QED BY <1>1, <2>1, <2>9, CarrySound
<1> QED
  BY <1>2, <1>3

LEMMA DeliverSound ==
  ASSUME Sound(hal, {}), Deliver
  PROVE  Sound(hal, {})'
<1> DEFINE e == Head(signals)
<1>1. signals \in Seq(Signal) /\ signals # <<>> /\ gate' = gate /\ signals' = Tail(signals)
  BY DEF Sound, Working, Deliver
<1>2. NoNewAnswer
  BY <1>1, FewerSignals
<1>3. e \in Signal
  BY <1>1
<1>4. hal' = CASE e.t = "state" -> OnTransportState(hal, e.v)
               [] e.t = "error" -> OnTransportError(hal)
               [] e.t = "reply" -> OnReply(hal, e)
  BY DEF Deliver
<1>5. CASE e.t = "state"
  <2>1. e.v \in Conn
    BY <1>3, <1>5 DEF Signal, Note, Fault, Reply
  <2>2. hal' = OnTransportState(hal, e.v)
    BY <1>4, <1>5
  <2> QED BY <1>1, <1>2, <2>1, <2>2, OnTransportStateSound, CarrySound
<1>6. CASE e.t = "error"
  <2>1. hal' = OnTransportError(hal)
    BY <1>4, <1>6
  <2> QED BY <1>1, <1>2, <2>1, OnTransportErrorSound, CarrySound
<1>7. CASE e.t = "reply"
  <2>1. hal' = OnReply(hal, e)
    BY <1>4, <1>7
  <2>2. Sound(OnReply(hal, e), {})
    BY <1>1, <1>7, OnReplySound
  <2> QED BY <1>1, <1>2, <2>1, <2>2, CarrySound
<1> QED
  BY <1>3, <1>5, <1>6, <1>7 DEF Signal, Note, Fault, Reply

LEMMA TimeoutSound ==
  ASSUME Sound(hal, {}), NEW i \in DOMAIN hal.pend, Timeout(i)
  PROVE  Sound(hal, {})'
<1> DEFINE E == {hal.pend[i]}
           p == [hal EXCEPT !.pend = RemoveAt(@, i)]
           k == OnRpcError(p, hal.pend[i].id, hal.pend[i].m)
<1>1. Sound(p, E)
  BY TakenSound
<1>2. E \in SUBSET Earlier
  BY DEF Earlier
<1>3. hal' = k /\ gate' = gate /\ NoNewAnswer
  BY SameSignals DEF Timeout, Quiet
<1> HIDE DEF p, E
<1>4. Sound(k, E)
  BY <1>1, <1>2, OnRpcErrorSound
<1> HIDE DEF k
<1>5. Sound(k, {})
  BY <1>4, LinkLess DEF Sound
<1> QED
  BY <1>3, <1>5, CarrySound

\* The state in which the retry timer fires.
Retrying(h) == [h EXCEPT !.retry = FALSE, !.mcp = "retrying"]
Tired(h) == [h EXCEPT !.retry = FALSE]

LEMMA RetryMcpIs ==
  ASSUME NEW h, Working(h)
  PROVE  /\ LET c == Tired(h) IN [c EXCEPT !.mcp = "retrying"] = Retrying(h)
         /\ \A k \in {Tired(h), Retrying(h)} :
              /\ SameOuter(h, k) /\ SameChat(h, k) /\ SamePref(h, k) /\ SameSession(h, k)
              /\ SameFlow(h, k) /\ SameSaved(h, k) /\ SameQueues(h, k)
              /\ k.mcpReq = h.mcpReq /\ k.reloadReq = h.reloadReq /\ ~k.retry
              /\ k.mcp = (IF k = Retrying(h) THEN "retrying" ELSE h.mcp) \/ k = Tired(h)
              /\ Working(k)
         /\ Tired(h).mcp = h.mcp /\ Retrying(h).mcp = "retrying"
<1>1. [Tired(h) EXCEPT !.mcp = "retrying"] = Retrying(h)
      /\ Tired(h).mcp = h.mcp /\ Retrying(h).mcp = "retrying"
  BY DEF Tired, Retrying, Working, Hal
<1>2. Working(Tired(h)) /\ Working(Retrying(h))
  BY ZenonT(40) DEF Tired, Retrying, Working, Hal, Stage
<1>3. ASSUME NEW k \in {Tired(h), Retrying(h)}
      PROVE  /\ SameOuter(h, k) /\ SameChat(h, k) /\ SamePref(h, k) /\ SameSession(h, k)
             /\ SameFlow(h, k) /\ SameSaved(h, k) /\ SameQueues(h, k)
             /\ k.mcpReq = h.mcpReq /\ k.reloadReq = h.reloadReq /\ ~k.retry
  BY ZenonT(40), <1>3 DEF Tired, Retrying, Working, Hal, SameOuter, SameWish, SameChat, SamePref, SameSession,
     SameFlow, SameSaved, SameQueues
<1> QED
  BY <1>1, <1>2, <1>3

LEMMA RetryMcpSound ==
  ASSUME Sound(hal, {}), RetryMcp
  PROVE  Sound(hal, {})'
<1> DEFINE c == IF hal.conn = "connected" THEN Retrying(hal) ELSE Tired(hal)
           k == IF hal.conn = "connected" THEN EnsureMcp(c) ELSE c
<1>1. hal' = k /\ gate' = gate /\ NoNewAnswer
  <2>1. Working(hal)
    BY DEF Sound
  <2> QED BY <2>1, SameSignals, RetryMcpIs DEF RetryMcp, Quiet, Tired
<1>2. /\ SameOuter(hal, c) /\ SameChat(hal, c) /\ SamePref(hal, c) /\ SameSession(hal, c)
      /\ SameFlow(hal, c) /\ SameSaved(hal, c) /\ SameQueues(hal, c)
      /\ c.mcpReq = hal.mcpReq /\ c.reloadReq = hal.reloadReq
      /\ Working(c) /\ Working(hal)
  BY RetryMcpIs DEF Sound
<1> HIDE DEF c
<1>3. PromptOk(c)
  BY <1>2, PromptKept DEF Sound, Forgets, SameSession
<1>4. Links(hal, c)
  BY <1>2, CalmLinks DEF SameSession
<1>5. Routed(c)
  BY <1>2, RouteCalm DEF Sound, SameFlow, SameQueues
<1>6. Sound(c, {})
  BY <1>2, <1>3, <1>4, <1>5 DEF Sound, Links
<1>7. Sound(EnsureMcp(c), {})
  <2>1. Working(EnsureMcp(c)) /\ Links(c, EnsureMcp(c)) /\ Routed(EnsureMcp(c))
    BY <1>2, <1>5, EnsureMcpType, EnsureMcpLinks, EnsureMcpRoute
  <2>2. PromptOk(EnsureMcp(c))
    BY <1>2, <1>3, RequestMcpPrompt DEF EnsureMcp, McpMethod, Stage
  <2> QED BY <1>6, <2>1, <2>2 DEF Sound, Links
<1> QED
  BY <1>1, <1>6, <1>7, CarrySound

\* Steps of a worker that end a dial or a socket.
Calls == Dialed \/ DialFails \/ (\E b \in BOOLEAN : SocketDrops(b) \/ LateDial(b)) \/ LateClose

LEMMA CallsSound ==
  ASSUME Sound(hal, {}), Calls
  PROVE  Sound(hal, {})' /\ gate' = gate /\ escaped' = escaped
<1>0. signals \in Seq(Signal)
  BY DEF Sound, Working
<1>1. gate' = gate /\ hal' = hal /\ escaped' = escaped
  BY DEF Calls, Dialed, DialFails, SocketDrops, LateDial, LateClose
<1>2. \A v \in Conn : Note(v) \in Notices /\ Fault \in Notices
  BY DEF Notices
<1>3. CASE \E v \in Conn : signals' = Append(signals, Note(v))
  <2>1. PICK v \in Conn : signals' = Append(signals, Note(v))
    BY <1>3
  <2>2. signals \o <<Note(v)>> = Append(signals, Note(v)) /\ <<Note(v)>> \in Seq(Notices)
    BY <1>0, <1>2
  <2> QED BY <2>1, <2>2, MoreNotices, <1>1, CarrySound
<1>4. CASE DialFails
  <2>1. <<Fault, Note("reconnecting")>> \in Seq(Notices)
    BY <1>2 DEF Conn
  <2> QED BY <1>1, <1>4, <2>1, MoreNotices, CarrySound DEF DialFails
<1>5. ASSUME NEW b \in BOOLEAN, SocketDrops(b) PROVE Sound(hal, {})'
  <2> DEFINE tail == (IF b THEN <<Fault>> ELSE <<>>) \o <<Note("reconnecting")>>
  <2>1. (IF b THEN <<Fault>> ELSE <<>>) \in Seq(Notices) /\ <<Note("reconnecting")>> \in Seq(Notices)
    BY <1>2 DEF Conn
  <2>2. tail \in Seq(Notices)
    BY <2>1, ConcatProperties
  <2>3. PICK kept \in Kept :
          signals' = kept \o (IF b THEN <<Fault>> ELSE <<>>) \o <<Note("reconnecting")>>
    BY <1>5 DEF SocketDrops
  <2>4. kept \in Seq(Signal)
    <3>1. PICK k \in 0..Len(signals) : kept = SubSeq(signals, 1, k)
      BY DEF Kept
    <3>2. k \in Int /\ \A i \in 1..k : signals[i] \in Signal
      BY <1>0, <3>1
    <3> QED BY <3>1, <3>2, SubSeqProperties
  <2>5. signals' = kept \o tail
    <3>1. (IF b THEN <<Fault>> ELSE <<>>) \in Seq(Signal) /\ <<Note("reconnecting")>> \in Seq(Signal)
      <4>1. Notices \subseteq Signal
        BY DEF Notices, Signal
      <4> QED BY <2>1, <4>1
    <3>2. PICK x : x = IF b THEN <<Fault>> ELSE <<>>
      OBVIOUS
    <3>3. (kept \o x) \o <<Note("reconnecting")>> = kept \o (x \o <<Note("reconnecting")>>)
      <4>1. x \in Seq(Signal)
        BY <3>1, <3>2
      <4> QED BY <2>4, <3>1, <4>1, ConcatAssociative
    <3> QED BY <2>3, <3>2, <3>3
  <2> HIDE DEF tail
  <2> QED BY <1>1, <2>2, <2>5, KeptNotices, CarrySound
<1>6. Sound(hal, {})'
  <2>1. CASE Dialed
    BY <1>3, <2>1 DEF Dialed, Conn
  <2>2. CASE LateClose
    BY <1>3, <2>2 DEF LateClose, Conn
  <2>3. ASSUME NEW b \in BOOLEAN, LateDial(b) PROVE Sound(hal, {})'
    BY <1>3, <2>3 DEF LateDial, Conn
  <2> QED BY <1>4, <1>5, <2>1, <2>2, <2>3 DEF Calls
<1> QED
  BY <1>1, <1>6

-----------------------------------------------------------------------------
(* What Hermes does.                                                        *)

LEMMA NewSession ==
  ASSUME Sound(hal, {})
  PROVE  /\ FreshSession \in Sessions /\ FreshSession # hal.runtime
         /\ \A i \in DOMAIN hal.out :
              /\ hal.out[i].s # FreshSession
              /\ hal.out[i].m = "resume" => hal.out[i].arg # FreshSession
<1> DEFINE D == {j \in DOMAIN hal.out : hal.out[j].m = "resume"}
           A == {hal.out[i].s : i \in DOMAIN hal.out}
           B == {hal.out[i].arg : i \in D}
           C == {signals[i].s : i \in DOMAIN signals}
           X == {hal.runtime, hal.stored} \cup A \cup B \cup C
<1>1. hal.out \in Seq(Frame) /\ signals \in Seq(Signal) /\ ~IsFiniteSet(Sessions)
  BY DEF Sound, Working, Hal, Unbounded
<1>2. IsFiniteSet(A) /\ IsFiniteSet(C)
  BY <1>1, FiniteSessions
<1>3. IsFiniteSet(B)
  <2> DEFINE g == [i \in D |-> hal.out[i].arg]
  <2>1. IsFiniteSet(1..Len(hal.out))
    BY FS_Interval, <1>1
  <2>2. D \in SUBSET (1..Len(hal.out))
    BY <1>1
  <2>3. IsFiniteSet(D)
    <3> HIDE DEF D
    <3> QED BY <2>1, <2>2, FS_Subset
  <2>4. g \in Surjection(D, B)
    BY DEF Surjection
  <2> HIDE DEF D, B, g
  <2> QED BY <2>3, <2>4, FS_Surjection
<1>4. IsFiniteSet({hal.runtime, hal.stored})
  <2>1. IsFiniteSet({hal.runtime}) /\ IsFiniteSet({hal.stored})
    BY FS_Singleton
  <2>2. {hal.runtime, hal.stored} = {hal.runtime} \cup {hal.stored}
    OBVIOUS
  <2> QED BY <2>1, <2>2, FS_Union
<1> HIDE DEF A, B, C
<1>5. IsFiniteSet(X)
  BY <1>2, <1>3, <1>4, FS_Union
<1> HIDE DEF X
<1>6. \E s \in Sessions : s \notin X
  <2> SUFFICES ASSUME \A s \in Sessions : s \in X PROVE FALSE
    OBVIOUS
  <2>1. Sessions \in SUBSET X
    OBVIOUS
  <2> QED BY <1>1, <1>5, <2>1, FS_Subset
<1>7. FreshSession = CHOOSE s \in Sessions : s \notin X
  BY DEF FreshSession, X, A, B, C, D
<1>8. FreshSession \in Sessions /\ FreshSession \notin X
  BY <1>6, <1>7
<1> HIDE DEF FreshSession
<1> QED
  BY <1>8 DEF X, A, B, D

\* The route of a session that the service knows, after Hermes answered f.
LEMMA RouteAfter ==
  ASSUME Sound(hal, {}), gate \in [Sessions -> Model], NEW v, NEW f, f \in Frame,
         gate' \in Routes(f, v), NEW x \in Sessions, x # FreshSession
  PROVE  /\ gate'[x] = gate[x] \/ (f.m = "resume" /\ f.arg = x)
            \/ (f.m = "model" /\ f.s = x /\ gate'[x] = f.arg)
         /\ v = "ok" /\ f.m = "model" /\ f.s = x => gate'[x] = f.arg
<1>1. CASE v = "ok" /\ f.m = "create"
  <2>1. gate' = [gate EXCEPT ![FreshSession] = Default]
    BY <1>1 DEF Routes, SessionOf
  <2> HIDE DEF FreshSession
  <2> QED BY <1>1, <2>1
<1>2. CASE v = "ok" /\ f.m = "resume"
  <2>1. gate' = gate \/ gate' = [gate EXCEPT ![f.arg] = Default]
    BY <1>2 DEF Routes, SessionOf
  <2> QED BY <1>2, <2>1
<1>3. CASE v = "ok" /\ f.m = "model"
  <2>1. gate' = [gate EXCEPT ![f.s] = f.arg]
    BY <1>3 DEF Routes, SessionOf
  <2> QED BY <1>3, <2>1
<1>4. CASE ~(v = "ok" /\ f.m \in {"create", "resume", "model"})
  BY <1>4 DEF Routes
<1> QED
  BY <1>1, <1>2, <1>3, <1>4

LEMMA RoutesType ==
  ASSUME Sound(hal, {}), gate \in [Sessions -> Model], NEW v, NEW f, f \in Frame,
         gate' \in Routes(f, v)
  PROVE  gate' \in [Sessions -> Model]
<1>1. Default \in Model
  BY HermesAssumption
<1>2. f.m = "model" => f.arg \in Model
  BY DEF Frame, ArgOf
<1>3. CASE v = "ok" /\ f.m = "create"
  <2> HIDE DEF FreshSession
  <2> QED BY <1>1, <1>3 DEF Routes, SessionOf
<1>4. CASE v = "ok" /\ f.m = "resume"
  BY <1>1, <1>4 DEF Routes, SessionOf
<1>5. CASE v = "ok" /\ f.m = "model"
  BY <1>2, <1>5 DEF Routes, SessionOf
<1>6. CASE ~(v = "ok" /\ f.m \in {"create", "resume", "model"})
  BY <1>6 DEF Routes
<1> QED
  BY <1>3, <1>4, <1>5, <1>6

\* The frame that Hermes answers, and its reply.
Answer(f, v) == [t |-> "reply", v |-> v, id |-> f.id, s |-> SessionOf(f)]

LEMMA AnswerType ==
  ASSUME Sound(hal, {}), server \in {"absent", "match", "differs"}, NEW v,
         NEW f, f \in Frame, v \in Answers(f.m) \cup Refusals(f.m)
  PROVE  /\ Answer(f, v) \in Reply /\ v \in Verdicts(f.m)
         /\ f.m \in {"create", "resume"} => Answer(f, v).s # 0
<1>1. f.id \in Ids /\ f.m \in Method /\ f.s \in Session0
      /\ (f.m = "resume" => f.arg \in Sessions)
  BY DEF Frame, ArgOf
<1>2. v \in Verdicts(f.m)
  <2>1. Answers(f.m) \subseteq (CASE f.m = "list" -> {"absent", "match", "differs"}
                                  [] f.m = "reload" -> {"ok", "confirm"}
                                  [] OTHER -> {"ok"})
    <3>1. CASE f.m = "list"
      BY <3>1 DEF Answers
    <3>2. CASE f.m = "reload"
      BY <3>2 DEF Answers
    <3>3. CASE f.m \notin {"list", "reload"}
      BY <3>3 DEF Answers
    <3> QED BY <3>1, <3>2, <3>3
  <2> QED BY <2>1 DEF Verdicts
<1>3. v \in Verdict
  <2>1. v \in {"absent", "match", "differs", "ok", "confirm"} \cup Refusals(f.m)
    <3>1. CASE f.m = "list"
      BY <1>2, <3>1 DEF Verdicts
    <3>2. CASE f.m = "reload"
      BY <1>2, <3>2 DEF Verdicts
    <3>3. CASE f.m \notin {"list", "reload"}
      BY <1>2, <3>3 DEF Verdicts
    <3> QED BY <3>1, <3>2, <3>3
  <2> QED BY <2>1 DEF Refusals, Verdict
<1>4. SessionOf(f) \in Session0 /\ (f.m \in {"create", "resume"} => SessionOf(f) \in Sessions)
  <2>1. FreshSession \in Sessions
    BY NewSession
  <2> HIDE DEF FreshSession
  <2>2. CASE f.m = "create"
    BY <2>1, <2>2 DEF SessionOf, Session0
  <2>3. CASE f.m = "resume"
    BY <1>1, <2>3 DEF SessionOf, Session0
  <2>4. CASE f.m \notin {"create", "resume"}
    BY <1>1, <2>4 DEF SessionOf
  <2> QED BY <2>2, <2>3, <2>4
<1>5. 0 \notin Sessions
  BY HermesAssumption
<1> HIDE DEF SessionOf
<1> QED
  BY <1>1, <1>2, <1>3, <1>4, <1>5 DEF Answer, Reply

\* The state after the worker took the first frame.
Taken(h) == [h EXCEPT !.out = Tail(@)]

LEMMA TakenIs ==
  ASSUME Sound(hal, {}), hal.out # <<>>, NEW k, k = Taken(hal)
  PROVE  /\ k \in Hal
         /\ SameOuter(hal, k) /\ SameChat(hal, k) /\ SamePref(hal, k) /\ SameMcp(hal, k)
         /\ SameSession(hal, k) /\ SameFlow(hal, k) /\ SameSaved(hal, k) /\ k.pend = hal.pend
         /\ k.url = hal.url
         /\ Len(hal.out) \in Nat \ {0} /\ Len(k.out) = Len(hal.out) - 1
         /\ \A i \in DOMAIN k.out : i + 1 \in DOMAIN hal.out /\ k.out[i] = hal.out[i + 1]
         /\ 1 \in DOMAIN hal.out /\ hal.out[1] = Head(hal.out) /\ Head(hal.out) \in Frame
<1>1. hal \in Hal /\ hal.out \in Seq(Frame)
  BY DEF Sound, Working, Hal
<1>2. Tail(hal.out) \in Seq(Frame)
  BY <1>1
<1>3. k = [hal EXCEPT !.out = Tail(hal.out)]
  BY DEF Taken
<1>4. k \in Hal /\ k.out = Tail(hal.out)
  BY <1>1, <1>2, <1>3 DEF Hal
<1>5. /\ SameOuter(hal, k) /\ SameChat(hal, k) /\ SamePref(hal, k) /\ SameMcp(hal, k)
      /\ SameSession(hal, k) /\ SameFlow(hal, k) /\ SameSaved(hal, k) /\ k.pend = hal.pend
      /\ k.url = hal.url
  BY <1>1, <1>3 DEF Hal, SameOuter, SameWish, SameChat, SamePref, SameMcp, SameSession,
     SameFlow, SameSaved
<1>6. /\ Len(hal.out) \in Nat \ {0} /\ Len(Tail(hal.out)) = Len(hal.out) - 1
      /\ \A i \in DOMAIN Tail(hal.out) : i + 1 \in DOMAIN hal.out /\ Tail(hal.out)[i] = hal.out[i + 1]
      /\ 1 \in DOMAIN hal.out /\ hal.out[1] = Head(hal.out) /\ Head(hal.out) \in Frame
  BY <1>1
<1> QED
  BY <1>4, <1>5, <1>6

\* The route of a session in place stays in place.
LEMMA CleanAfter ==
  ASSUME Sound(hal, {}), gate \in [Sessions -> Model], hal.out # <<>>, NEW v,
         gate' \in Routes(Head(hal.out), v), Settled(hal)
  PROVE  /\ Clean(hal, gate) => Clean(Taken(hal), gate')
         /\ v = "ok" /\ LastWord(hal, 1) => Clean(Taken(hal), gate')
<1> DEFINE k == Taken(hal)
           f == Head(hal.out)
           x == hal.runtime
<1>1. /\ SameOuter(hal, k) /\ SameSession(hal, k)
      /\ Len(hal.out) \in Nat \ {0}
      /\ \A i \in DOMAIN k.out : i + 1 \in DOMAIN hal.out /\ k.out[i] = hal.out[i + 1]
      /\ 1 \in DOMAIN hal.out /\ hal.out[1] = f /\ f \in Frame
  BY TakenIs
<1>2. x \in Sessions /\ x # FreshSession
  BY NewSession DEF Sound, Working, Hal, Session0, Settled
<1>3. DOMAIN hal.out = 1..Len(hal.out)
  BY DEF Sound, Working, Hal
<1> HIDE DEF k, FreshSession
<1>4. k.runtime = x /\ k.desired = hal.desired
  BY <1>1 DEF SameSession, SameOuter, SameWish
<1>5. (\A i \in DOMAIN hal.out : Spares(hal.out[i], x, {hal.desired})) =>
        \A i \in DOMAIN k.out : Spares(k.out[i], x, {hal.desired})
  BY <1>1
<1>6. ASSUME Clean(hal, gate) PROVE Clean(k, gate')
  <2>1. Spares(f, x, {hal.desired}) /\ gate[x] = hal.desired
    BY <1>1, <1>6 DEF Clean
  <2>2. gate'[x] = hal.desired
    BY <1>1, <1>2, <2>1, RouteAfter DEF Spares
  <2> QED BY <1>4, <1>5, <1>6, <2>2 DEF Clean
<1>7. ASSUME v = "ok", LastWord(hal, 1) PROVE Clean(k, gate')
  <2>1. f.m = "model" /\ f.s = x /\ f.arg = hal.desired
        /\ \A j \in DOMAIN hal.out : Spares(hal.out[j], x, {hal.desired})
    BY <1>1, <1>3, <1>7 DEF LastWord
  <2>2. gate'[x] = hal.desired
    BY <1>1, <1>2, <1>7, <2>1, RouteAfter
  <2> QED BY <1>4, <1>5, <2>1, <2>2 DEF Clean
<1> QED
  BY <1>6, <1>7 DEF k

LEMMA FramesAfter ==
  ASSUME Sound(hal, {}), gate \in [Sessions -> Model], hal.out # <<>>, NEW v,
         gate' \in Routes(Head(hal.out), v)
  PROVE  FramesOk(Taken(hal).out, gate')
<1> DEFINE k == Taken(hal)
           o == hal.out
           f == Head(hal.out)
<1>1. /\ Len(o) \in Nat \ {0}
      /\ Len(k.out) = Len(o) - 1
      /\ \A i \in DOMAIN k.out : i + 1 \in DOMAIN o /\ k.out[i] = o[i + 1]
      /\ 1 \in DOMAIN o /\ o[1] = f /\ f \in Frame /\ k \in Hal
  BY TakenIs
<1>2. FramesOk(o, gate) /\ o \in Seq(Frame)
  BY DEF Sound, Routed, Working, Hal
<1>3. \A i \in DOMAIN o : o[i].s # FreshSession
  BY NewSession
<1> HIDE DEF k, FreshSession
<1>4. DOMAIN k.out = 1..Len(k.out)
  BY <1>1 DEF Hal
<1>5. ASSUME NEW i \in DOMAIN k.out, k.out[i].m = "prompt" PROVE k.out[i].s # 0
  BY <1>1, <1>2, <1>5 DEF FramesOk
<1>6. ASSUME NEW i \in DOMAIN k.out, k.out[i].m = "prompt", k.out[i].arg.settled,
             k.out[i].arg.need # Model
      PROVE  Finds(k.out, gate', i)
  <2> DEFINE x == o[i + 1].s
             R == o[i + 1].arg.need
  <2>1. i + 1 \in DOMAIN o /\ k.out[i] = o[i + 1] /\ i \in Nat
    BY <1>1, <1>4, <1>6
  <2>2. x # 0 /\ Finds(o, gate, i + 1)
    BY <1>2, <1>6, <2>1 DEF FramesOk
  <2>3. x \in Sessions /\ x # FreshSession
    BY <1>2, <1>3, <2>1, <2>2 DEF Frame, Session0
  <2>4. gate[x] \in R /\ \A j \in 1..(i + 1) : Spares(o[j], x, R)
    BY <2>2 DEF Finds
  <2>5. Spares(f, x, R)
    BY <1>1, <2>1, <2>4
  <2> HIDE DEF x, R
  <2>6. gate'[x] \in R
    BY <1>1, <2>3, <2>4, <2>5, RouteAfter DEF Spares
  <2>7. ASSUME NEW j \in 1..i PROVE Spares(k.out[j], x, R)
    <3>1. j \in DOMAIN k.out /\ j + 1 \in 1..(i + 1)
      BY <1>4, <1>6, <2>1
    <3> QED BY <1>1, <2>4, <3>1
  <2> QED BY <2>1, <2>6, <2>7 DEF Finds, x, R
<1>7. FramesOk(k.out, gate')
  BY <1>5, <1>6 DEF FramesOk
<1> QED
  BY <1>7 DEF k

LEMMA ServeSound ==
  ASSUME Sound(hal, {}), gate \in [Sessions -> Model], server \in {"absent", "match", "differs"},
         ~escaped, NEW v \in Verdict, Serve(v)
  PROVE  /\ Sound(hal, {})' /\ gate' \in [Sessions -> Model]
         /\ server' \in {"absent", "match", "differs"} /\ ~escaped'
<1> DEFINE f == Head(hal.out)
           k == Taken(hal)
           r == Answer(f, v)
<1>0. Working(hal)
  BY DEF Sound
<1>1. /\ hal.out # <<>> /\ v \in Answers(f.m) \cup Refusals(f.m)
      /\ hal' = k /\ signals' = Append(signals, r) /\ gate' \in Routes(f, v)
  BY DEF Serve, Answer, Taken
<1>2. /\ SameOuter(hal, k) /\ SameChat(hal, k) /\ SamePref(hal, k) /\ SameMcp(hal, k)
      /\ SameSession(hal, k) /\ SameFlow(hal, k) /\ SameSaved(hal, k) /\ k.pend = hal.pend
      /\ Len(hal.out) \in Nat \ {0} /\ Len(k.out) = Len(hal.out) - 1
      /\ \A i \in DOMAIN k.out : i + 1 \in DOMAIN hal.out /\ k.out[i] = hal.out[i + 1]
      /\ 1 \in DOMAIN hal.out /\ hal.out[1] = f /\ f \in Frame /\ k \in Hal
  BY <1>1, TakenIs
<1>3. /\ r \in Reply /\ v \in Verdicts(f.m)
      /\ f.m \in {"create", "resume"} => r.s # 0
  BY <1>1, <1>2, AnswerType
<1>4. r.t = "reply" /\ r.v = v /\ r.id = f.id
  BY DEF Answer
<1>5. gate' \in [Sessions -> Model]
  BY <1>1, <1>2, RoutesType
<1>6. server' \in {"absent", "match", "differs"}
  BY DEF Serve
<1>7. ~escaped'
  <2>1. FramesOk(hal.out, gate)
    BY DEF Sound, Routed
  <2>2. ASSUME f.m = "prompt", f.arg.settled PROVE gate[f.s] \in f.arg.need
    <3>1. f.s # 0 /\ (f.arg.need # Model => gate[f.s] \in f.arg.need)
      BY <1>2, <2>1, <2>2 DEF FramesOk, Finds
    <3>2. f.s \in Sessions
      BY <1>2, <3>1 DEF Frame, Session0
    <3>3. gate[f.s] \in Model
      BY <3>2
    <3> QED BY <3>1, <3>3
  <2>3. escaped' = (escaped \/ (f.m = "prompt" /\ v = "ok" /\ f.arg.settled
                                /\ gate[f.s] \notin f.arg.need))
    BY DEF Serve
  <2> QED BY <2>2, <2>3
<1>8. FramesOk(k.out, gate')
  BY <1>1, FramesAfter
<1>9. Settled(hal) => /\ Clean(hal, gate) => Clean(k, gate')
                      /\ v = "ok" /\ LastWord(hal, 1) => Clean(k, gate')
  BY <1>1, CleanAfter
<1> HIDE DEF f, k, r
<1>10. signals \in Seq(Signal) /\ signals' \in Seq(Signal)
       /\ \A i \in DOMAIN signals' : (i \in DOMAIN signals /\ signals'[i] = signals[i])
                                     \/ signals'[i] = r
  <2>1. signals \in Seq(Signal) /\ r \in Signal
    BY <1>0, <1>3 DEF Working, Signal
  <2> QED BY <1>1, <2>1, AppendProperties
<1>11. Working(hal)'
  BY <1>0, <1>1, <1>2, <1>10 DEF Working
<1>12. PromptOk(k) /\ SavedOk(k)
  <2>1. PromptOk(hal) /\ SavedOk(hal)
    BY DEF Sound
  <2> QED BY <1>2, <2>1 DEF PromptOk, OneQueued, SavedOk, SameChat, SamePref, SameSession,
          SameOuter, SameWish, SameFlow, SameSaved
<1>13. LinkOk(hal, {})'
  <2>1. Distinct(k)
    BY <1>2 DEF Sound, LinkOk, Distinct
  <2>2. ASSUME NEW e \in Entries(k, {}) PROVE Agrees(k, e, signals')
    <3>1. Agrees(hal, e, signals)
      BY <1>2, <2>2 DEF Sound, LinkOk, Entries
    <3>2. f.id = e.id => f.m = e.m
      BY <1>2, <3>1 DEF Agrees
    <3>3. r.id = e.id =>
            r.v \in Verdicts(e.m) /\ (e.m \in {"create", "resume"} => r.s # 0)
      BY <1>3, <1>4, <3>2
    <3>4. \A i \in DOMAIN k.out : k.out[i].id = e.id => k.out[i].m = e.m
      BY <1>2, <3>1 DEF Agrees
    <3>5. \A i \in DOMAIN signals' : signals'[i].t = "reply" /\ signals'[i].id = e.id =>
            signals'[i].v \in Verdicts(e.m) /\ (e.m \in {"create", "resume"} => signals'[i].s # 0)
      BY <1>10, <3>1, <3>3 DEF Agrees
    <3> QED BY <1>2, <3>1, <3>4, <3>5 DEF Agrees, SameMcp, SameSession, SameFlow
  <2> QED BY <1>1, <2>1, <2>2 DEF LinkOk
<1>14. FlowOk(k, signals', gate')
  <2> SUFFICES ASSUME Settled(k), NEW e \in k.flow, e.cur PROVE EntryOk(k, e, signals', gate')
    BY DEF FlowOk
  <2>1. Settled(hal) /\ e \in hal.flow
    BY <1>2 DEF Settled, Usable, SameOuter, SameWish, SameSession, SameFlow
  <2>2. EntryOk(hal, e, signals, gate)
    BY <2>1 DEF Sound, Routed, RouteOk, FlowOk
  <2>3. k.fallback = hal.fallback /\ k.runtime = hal.runtime /\ k.desired = hal.desired
    BY <1>2 DEF SameOuter, SameWish, SameSession
  <2>4. /\ e.fallback = k.fallback
        /\ ~k.fallback /\ e.m = "effort" => Clean(k, gate')
    BY <1>9, <2>1, <2>2, <2>3 DEF EntryOk
  <2>5. ASSUME ~k.fallback, e.m = "model", NEW i \in DOMAIN k.out, k.out[i].id = e.id
        PROVE  LastWord(k, i)
    <3>1. LastWord(hal, i + 1) /\ k.out[i] = hal.out[i + 1]
      BY <1>2, <2>2, <2>3, <2>5 DEF EntryOk
    <3>2. i \in Nat /\ DOMAIN k.out = 1..Len(k.out)
      BY <1>2 DEF Hal
    <3>3. ASSUME NEW j \in i..Len(k.out) PROVE Spares(k.out[j], k.runtime, {k.desired})
      <4>1. j \in DOMAIN k.out /\ j + 1 \in (i + 1)..Len(hal.out)
        BY <1>2, <3>2, <2>5
      <4> QED BY <1>2, <2>3, <3>1, <4>1 DEF LastWord
    <3> QED BY <2>3, <3>1, <3>3 DEF LastWord
  <2>6. ASSUME ~k.fallback, e.m = "model", NEW i \in DOMAIN signals', signals'[i].id = e.id,
               signals'[i].v = "ok"
        PROVE  Clean(k, gate')
    <3>1. CASE i \in DOMAIN signals /\ signals'[i] = signals[i]
      BY <1>9, <2>1, <2>2, <2>3, <2>6, <3>1 DEF EntryOk
    <3>2. CASE signals'[i] = r
      <4>1. LastWord(hal, 1) /\ v = "ok"
        BY <1>2, <1>4, <2>2, <2>3, <2>6, <3>2 DEF EntryOk
      <4> QED BY <1>9, <2>1, <4>1
    <3> QED BY <1>10, <3>1, <3>2
  <2> QED BY <2>4, <2>5, <2>6 DEF EntryOk
<1>15. Routed(hal)'
  <2>1. ~k.prefPending /\ ~k.prefFailed => InPlace(k, gate')
    <3>1. ~hal.prefPending /\ ~hal.prefFailed => InPlace(hal, gate)
      BY DEF Sound, Routed, RouteOk
    <3>2. Settled(k) /\ ~k.fallback => Settled(hal) /\ ~hal.fallback
      BY <1>2 DEF Settled, Usable, SameOuter, SameWish, SameSession
    <3> QED BY <1>2, <1>9, <3>1, <3>2 DEF InPlace, SamePref
  <2> QED BY <1>1, <1>8, <1>14, <2>1 DEF Routed, RouteOk
<1>16. PromptOk(hal)' /\ SavedOk(hal)'
  BY <1>1, <1>12
<1> QED
  BY <1>5, <1>6, <1>7, <1>11, <1>13, <1>15, <1>16 DEF Sound

-----------------------------------------------------------------------------
(* The inductive invariant.                                                 *)

Orderly ==
  /\ Sound(hal, {}) /\ gate \in [Sessions -> Model]
  /\ sock \in {"none", "dialing", "open"} /\ late \in {"no", "dialing", "closing"}
  /\ server \in {"absent", "match", "differs"} /\ ~escaped

LEMMA InitOrderly ==
  ASSUME Unbounded, Init
  PROVE  Orderly
<1>0. /\ Default \in Model /\ Resumable \in Sessions \cup {0}
      /\ Registered \in {"absent", "match", "differs"}
  BY HermesAssumption
<1>1. /\ hal.conn = "offline" /\ hal.pend = <<>> /\ hal.out = <<>> /\ hal.runtime = 0
      /\ hal.queued = NoPrompt /\ hal.flow = {} /\ hal.prefFailed = FALSE
      /\ hal.prefPending = FALSE /\ hal.desired = Default /\ hal.saved = Default
      /\ hal.fate = [p \in Prompt |-> "new"] /\ hal.chosen = {Default}
  BY DEF Init
<1>2. Working(hal)
  <2>1. signals \in Seq(Signal)
    BY DEF Init
  <2>2. /\ hal.conn \in Conn /\ <<>> \in Seq(Entry) /\ <<>> \in Seq(Frame) /\ 0 \in Id0
        /\ 0 \in Session0 /\ Resumable \in Session0 /\ {} \in Flows /\ "idle" \in Stage
        /\ NoPrompt \in Prompt \cup {NoPrompt}
        /\ [p \in Prompt |-> "new"] \in [Prompt -> Fate]
        /\ {Default} \in SUBSET Model
    BY <1>0, <1>1, FS_EmptySet DEF Conn, Id0, Session0, Flows, Stage, Fate
  <2>3. hal \in Hal
    <3> HIDE DEF Id0, Session0, Flows, Stage, Fate, NoPrompt
    <3> QED BY <1>0, <2>2 DEF Init, Hal, Conn
  <2> QED BY <2>1, <2>3 DEF Working
<1>3. PromptOk(hal)
  <2>1. NoPrompt \notin Prompt
    BY HermesAssumption
  <2> QED BY <1>1, <2>1 DEF PromptOk, OneQueued
<1>4. SavedOk(hal)
  BY <1>1 DEF SavedOk
<1>5. Routed(hal)
  BY <1>1, RouteClosed DEF FramesOk, Settled
<1>6. LinkOk(hal, {})
  BY <1>1 DEF LinkOk, Distinct, Entries
<1>7. gate \in [Sessions -> Model] /\ sock = "none" /\ late = "no" /\ ~escaped
      /\ server \in {"absent", "match", "differs"}
  BY <1>0 DEF Init
<1> QED
  BY <1>2, <1>3, <1>4, <1>5, <1>6, <1>7 DEF Orderly, Sound

\* The steps of the Qt thread, which leave Hermes alone.
Handles ==
  \/ Start \/ Reconnect \/ Stop \/ Cancel
  \/ \E p \in Prompt : Submit(p)
  \/ \E m \in Model : SwitchModel(m) \/ \E b \in BOOLEAN : EnsureRoute(m, b)
  \/ \E b \in BOOLEAN : SetReasoning(b)
  \/ Deliver \/ RetryMcp \/ (\E i \in DOMAIN hal.pend : Timeout(i))

LEMMA HandlesSound ==
  ASSUME Sound(hal, {}), Handles
  PROVE  Sound(hal, {})'
<1>1. CASE Start \/ Reconnect
  BY <1>1, ConnectToSound DEF Start, Reconnect
<1>2. CASE Stop
  BY <1>2, StopSound
<1>3. CASE Cancel
  BY <1>3, CancelSound
<1>4. ASSUME NEW p \in Prompt, Submit(p) PROVE Sound(hal, {})'
  BY <1>4, SubmitSound
<1>5. ASSUME NEW m \in Model, SwitchModel(m) PROVE Sound(hal, {})'
  BY <1>5, SwitchModelSound
<1>6. ASSUME NEW m \in Model, NEW b \in BOOLEAN, EnsureRoute(m, b) PROVE Sound(hal, {})'
  BY <1>6, EnsureRouteSound
<1>7. ASSUME NEW b \in BOOLEAN, SetReasoning(b) PROVE Sound(hal, {})'
  BY <1>7, SetReasoningSound
<1>8. CASE Deliver
  BY <1>8, DeliverSound
<1>9. CASE RetryMcp
  BY <1>9, RetryMcpSound
<1>10. ASSUME NEW i \in DOMAIN hal.pend, Timeout(i) PROVE Sound(hal, {})'
  BY <1>10, TimeoutSound
<1> QED
  BY <1>1, <1>2, <1>3, <1>4, <1>5, <1>6, <1>7, <1>8, <1>9, <1>10 DEF Handles

LEMMA HandlesLeaves ==
  ASSUME Handles
  PROVE  /\ gate' = gate /\ server' = server /\ escaped' = escaped
         /\ sock' \in {sock, "none", "dialing"} /\ late' \in {late, "dialing"}
<1>1. \A tail : StopWorker(tail) => late' \in {late, "dialing"}
  BY DEF StopWorker
<1>2. ConnectTo => /\ gate' = gate /\ server' = server /\ escaped' = escaped /\ sock' = "dialing"
                   /\ late' \in {late, "dialing"}
  BY <1>1 DEF ConnectTo
<1>3. Stop => /\ gate' = gate /\ server' = server /\ escaped' = escaped /\ sock' = "none"
              /\ late' \in {late, "dialing"}
  BY <1>1 DEF Stop
<1>4. Deliver => UNCHANGED <<sock, late, gate, server, escaped>>
  BY DEF Deliver
<1>5. Cancel \/ RetryMcp => Quiet
  BY DEF Cancel, RetryMcp
<1>6. \A p : Submit(p) => Quiet
  BY DEF Submit
<1>7. \A m, b : SwitchModel(m) \/ EnsureRoute(m, b) \/ SetReasoning(b) => Quiet
  BY DEF SwitchModel, EnsureRoute, SetReasoning
<1>8. \A i : Timeout(i) => Quiet
  BY DEF Timeout
<1> HIDE DEF Quiet, StopWorker
<1>9. Start \/ Reconnect => ConnectTo
  BY DEF Start, Reconnect
<1>10. Quiet \/ ConnectTo \/ Stop \/ Deliver
  BY <1>5, <1>6, <1>7, <1>8, <1>9 DEF Handles
<1> QED
  BY <1>2, <1>3, <1>4, <1>10 DEF Quiet

LEMMA StepOrderly ==
  ASSUME Orderly, [Next]_vars
  PROVE  Orderly'
<1>0. Sound(hal, {}) /\ gate \in [Sessions -> Model] /\ ~escaped
      /\ sock \in {"none", "dialing", "open"} /\ late \in {"no", "dialing", "closing"}
      /\ server \in {"absent", "match", "differs"}
  BY DEF Orderly
<1>1. CASE Handles
  <2>1. Sound(hal, {})'
    BY <1>0, <1>1, HandlesSound
  <2> QED BY <1>0, <1>1, <2>1, HandlesLeaves DEF Orderly
<1>2. CASE Calls
  <2>1. Sound(hal, {})' /\ gate' = gate /\ escaped' = escaped
    BY <1>0, <1>2, CallsSound
  <2>2. server' = server /\ sock' \in {sock, "open", "dialing"} /\ late' \in {late, "no", "closing"}
    BY <1>2 DEF Calls, Dialed, DialFails, SocketDrops, LateDial, LateClose
  <2> QED BY <1>0, <2>1, <2>2 DEF Orderly
<1>3. ASSUME NEW v \in Verdict, Serve(v) PROVE Orderly'
  <2>1. sock' = sock /\ late' = late
    BY <1>3 DEF Serve
  <2>2. /\ Sound(hal, {})' /\ gate' \in [Sessions -> Model]
        /\ server' \in {"absent", "match", "differs"} /\ ~escaped'
    BY <1>0, <1>3, ServeSound
  <2> QED BY <1>0, <2>1, <2>2 DEF Orderly
<1>4. CASE UNCHANGED vars
  <2>1. hal' = hal /\ gate' = gate /\ signals' = signals /\ sock' = sock /\ late' = late
        /\ server' = server /\ escaped' = escaped
    BY <1>4 DEF vars
  <2>2. NoNewAnswer
    BY <1>0, <2>1, SameSignals
  <2>3. Sound(hal, {})'
    BY <1>0, <2>1, <2>2, CarrySound
  <2> QED BY <1>0, <2>1, <2>3 DEF Orderly
<1>5. Next => Handles \/ Calls \/ \E v \in Verdict : Serve(v)
  BY DEF Next, WorkerNext, Handles, Calls
<1> QED
  BY <1>1, <1>2, <1>3, <1>4, <1>5

LEMMA OrderlyType ==
  ASSUME Orderly
  PROVE  TypeOK
<1>1. hal \in Hal /\ signals \in Seq(Signal) /\ Distinct(hal)
  BY DEF Orderly, Sound, Working, LinkOk
<1>2. /\ hal.pend \in Seq(Entry) /\ hal.out \in Seq(Frame) /\ hal.flow \in Flows
      /\ hal.mcpReq \in Id0 /\ hal.reloadReq \in Id0 /\ hal.sess \in Id0
  BY <1>1 DEF Hal
<1>3. UsedIds(hal) \subseteq Ids \cup {0}
  <2>1. \A i \in DOMAIN hal.pend : hal.pend[i].id \in Ids
    <3>1. \A i \in DOMAIN hal.pend : hal.pend[i] \in Entry
      BY <1>2
    <3> QED BY <3>1 DEF Entry
  <2>2. \A i \in DOMAIN hal.out : hal.out[i].id \in Ids
    BY <1>2 DEF Frame
  <2>3. \A i \in DOMAIN signals : signals[i].id \in Ids \cup {0}
    BY <1>1 DEF Signal, Note, Fault, Reply
  <2>4. \A f \in hal.flow : f.id \in Ids
    BY <1>2 DEF Flows, Preference
  <2> QED BY <1>2, <2>1, <2>2, <2>3, <2>4 DEF UsedIds, PendIds, Id0
<1>4. IsInjective([i \in DOMAIN hal.pend |-> hal.pend[i].id])
  BY <1>1 DEF Distinct, IsInjective
<1>5. /\ hal.conn \in {"offline", "connecting", "connected", "reconnecting", "error"}
      /\ hal.mcp \in Stage /\ hal.fate \in [Prompt -> Fate]
      /\ hal.queued \in Prompt \cup {NoPrompt} /\ hal.desired \in Model /\ hal.saved \in Model
      /\ hal.runtime \in Sessions \cup {0} /\ hal.stored \in Sessions \cup {0}
  BY <1>1 DEF Hal, Conn, Session0
<1> QED
  BY <1>3, <1>4, <1>5 DEF Orderly, TypeOK

LEMMA OrderlyPromises ==
  ASSUME Orderly
  PROVE  PromptAccounted /\ RouteKept
<1>1. TypeOK
  BY OrderlyType
<1>2. PromptAccounted
  BY <1>1 DEF Orderly, Sound, PromptOk, OneQueued, PromptAccounted
<1>3. RouteKept
  BY DEF Orderly, Sound, SavedOk, RouteKept, RequiredRoute, ManualSticky
<1> QED
  BY <1>2, <1>3

\* What the tables, the queues and the routes of the client look like between
\* any two steps, if request ids and session names never run out.
THEOREM OrderlyCorrect == Unbounded => (Spec => []Orderly)
<1>1. Unbounded /\ Init => Orderly
  BY InitOrderly
<1>2. Orderly /\ [Next]_vars => Orderly'
  BY StepOrderly
<1> QED
  BY <1>1, <1>2, PTL DEF Spec

\* The state of the service and its client is always well typed, and no two
\* pending requests share an id: an answer settles one request (client.py:
\* request, _on_message).
THEOREM TypeCorrect == Unbounded => (Spec => []TypeOK)
<1>1. Orderly => TypeOK
  BY OrderlyType
<1> QED
  BY <1>1, OrderlyCorrect, PTL

\* A prompt is never lost in silence, whatever the connection, the preference
\* workflow and the registration of the MCP server do (service.py: sendPrompt,
\* cancel, stop, _finish_session_preferences).
THEOREM PromptAccountedCorrect == Unbounded => (Spec => []PromptAccounted)
<1>1. Orderly => PromptAccounted
  BY OrderlyPromises
<1> QED
  BY <1>1, OrderlyCorrect, PTL

\* No prompt runs on a route that its turn ruled out, and no automatic route is
\* saved as the user's choice (service.py: _request_model, _on_rpc_result).
THEOREM RouteKeptCorrect == Unbounded => (Spec => []RouteKept)
<1>1. Orderly => RouteKept
  BY OrderlyPromises
<1> QED
  BY <1>1, OrderlyCorrect, PTL

-----------------------------------------------------------------------------
(* What the service waits for.                                              *)

Registering == {"listing", "removing", "adding", "testing"}
Pending(h, E, id) == \E e \in Entries(h, E) : e.id = id

\* The preference workflow and the registration each wait for a request.
WaitsPref(h, E) == h.prefPending => \E f \in h.flow : f.cur /\ Pending(h, E, f.id)
WaitsMcp(h, E) == /\ h.mcp \in Registering => Pending(h, E, h.mcpReq)
                  /\ h.mcp = "reloading" => Pending(h, E, h.reloadReq)

\* A request whose answer, or whose failure, opens a session or gives it up.
Opener(h, e) == e.m = "create" \/ (e.m = "resume" /\ h.stored # 0)

\* What the stages of the registration and the session request have in common.
Tidy(h, E) ==
  /\ h.conn # "connected" => h.sess = 0 /\ h.mcp # "reloading"
  /\ h.reloadReq # 0 => h.mcp = "reloading"
  /\ h.mcp = "reloading" => h.mcpReq = 0 /\ ~h.retry
  /\ h.sess # 0 => \E e \in Entries(h, E) : e.id = h.sess /\ Opener(h, e)
\* A connected service without a session is about to ask for one.
Opens(h, E) ==
  h.conn = "connected" /\ h.runtime = 0 =>
    \/ h.opening = "failed" \/ h.mcp = "approval" \/ h.mcp \in Registering
    \/ \E e \in Entries(h, E) : Opener(h, e)

Attends(h, E) == WaitsPref(h, E) /\ WaitsMcp(h, E) /\ Tidy(h, E) /\ Opens(h, E)

\* Only a service with a worker is connected.
Alive(h) == h.conn = "connected" => h.link

LEMMA GrowsEntries ==
  ASSUME NEW h, NEW k, Grows(h, k), NEW E
  PROVE  /\ Entries(h, E) \subseteq Entries(k, E)
         /\ \A id : Pending(h, E, id) => Pending(k, E, id)
BY DEF Grows, Entries, Pending

LEMMA SameGrows ==
  ASSUME NEW h, NEW k, SameQueues(h, k)
  PROVE  Grows(h, k)
BY DEF SameQueues, Grows

LEMMA KeptPref ==
  ASSUME NEW h, NEW k, NEW E, Grows(h, k), k.prefPending = h.prefPending, SameFlow(h, k),
         WaitsPref(h, E)
  PROVE  WaitsPref(k, E)
<1>1. \A id : Pending(h, E, id) => Pending(k, E, id)
  BY GrowsEntries
<1> QED
  BY <1>1 DEF WaitsPref, SameFlow

LEMMA KeptMcp ==
  ASSUME NEW h, NEW k, NEW E, Grows(h, k), SameMcp(h, k), WaitsMcp(h, E)
  PROVE  WaitsMcp(k, E)
<1>1. \A id : Pending(h, E, id) => Pending(k, E, id)
  BY GrowsEntries
<1> QED
  BY <1>1 DEF WaitsMcp, SameMcp

LEMMA KeptTidy ==
  ASSUME NEW h, NEW k, NEW E, Grows(h, k), k.conn = h.conn, SameMcp(h, k),
         k.sess = h.sess, k.stored = h.stored, Tidy(h, E)
  PROVE  Tidy(k, E)
<1>1. Entries(h, E) \subseteq Entries(k, E)
  BY GrowsEntries
<1> QED
  BY <1>1 DEF Tidy, SameMcp, Opener

LEMMA KeptOpens ==
  ASSUME NEW h, NEW k, NEW E, Grows(h, k), k.conn = h.conn, k.mcp = h.mcp, SameSession(h, k),
         Opens(h, E)
  PROVE  Opens(k, E)
<1>1. Entries(h, E) \subseteq Entries(k, E)
  BY GrowsEntries
<1> QED
  BY <1>1 DEF Opens, SameSession, Opener

LEMMA KeptAttends ==
  ASSUME NEW h, NEW k, NEW E, Grows(h, k), SameOuter(h, k), SamePref(h, k), SameMcp(h, k),
         SameSession(h, k), SameFlow(h, k), Attends(h, E)
  PROVE  Attends(k, E)
<1>1. k.conn = h.conn /\ k.prefPending = h.prefPending /\ k.mcp = h.mcp
      /\ k.sess = h.sess /\ k.stored = h.stored
  BY DEF SameOuter, SamePref, SameMcp, SameSession
<1> QED
  BY <1>1, KeptPref, KeptMcp, KeptTidy, KeptOpens DEF Attends

\* The new request is in the table.
LEMMA PostedPending ==
  ASSUME NEW h, Working(h), NEW m, NEW arg, NEW k, SameQueues(Posted(h, m, arg), k), NEW E
  PROVE  /\ [id |-> FreshId(h), m |-> m] \in Entries(k, E)
         /\ Pending(k, E, FreshId(h))
<1> DEFINE e == [id |-> FreshId(h), m |-> m]
<1>1. h.pend \in Seq(Entry) /\ k.pend = Append(h.pend, e)
  BY DEF Working, Hal, SameQueues, Posted
<1> HIDE DEF e
<1>2. Len(h.pend) + 1 \in DOMAIN k.pend /\ k.pend[Len(h.pend) + 1] = e
  BY <1>1
<1>3. e \in Entries(k, E)
  BY <1>2 DEF Entries
<1>4. e.id = FreshId(h)
  BY DEF e
<1> QED
  BY <1>3, <1>4 DEF Pending, e

LEMMA CreateOrResumeAttends ==
  ASSUME NEW h, Working(h), Alive(h), NEW E, WaitsPref(h, E), WaitsMcp(h, E), Tidy(h, E),
         NEW k, k = CreateOrResumeSession(h)
  PROVE  Attends(k, E)
<1>1. SameOuter(h, k) /\ SamePref(h, k) /\ SameMcp(h, k) /\ SameFlow(h, k) /\ Grows(h, k)
  BY CreateOrResumeFrame, CreateOrResumeLinks DEF Links
<1>2. WaitsPref(k, E) /\ WaitsMcp(k, E)
  BY <1>1, KeptPref, KeptMcp DEF SamePref
<1>3. CASE h.sess # 0
  <2>1. k = h
    BY <1>3 DEF CreateOrResumeSession
  <2>2. Opens(k, E)
    BY <1>3, <2>1 DEF Tidy, Opens
  <2> QED BY <1>2, <2>1, <2>2 DEF Attends
<1>4. CASE h.sess = 0 /\ Usable(h)
  <2> DEFINE m == IF h.stored # 0 THEN "resume" ELSE "create"
  <2>1. k = [Posted(h, m, h.stored) EXCEPT !.sess = FreshId(h)]
    BY <1>4 DEF CreateOrResumeSession
  <2>2. m = "create" \/ (m = "resume" /\ h.stored # 0)
    OBVIOUS
  <2> HIDE DEF m
  <2>3. SameQueues(Posted(h, m, h.stored), k) /\ k.sess = FreshId(h) /\ k.stored = h.stored
    BY <2>1 DEF SameQueues, Posted, Working, Hal
  <2>4. [id |-> FreshId(h), m |-> m] \in Entries(k, E)
    BY <2>3, PostedPending
  <2>5. \E e \in Entries(k, E) : e.id = k.sess /\ Opener(k, e)
    <3> DEFINE e == [id |-> FreshId(h), m |-> m]
    <3>1. e.id = FreshId(h) /\ e.m = m /\ e \in Entries(k, E)
      BY <2>4
    <3> HIDE DEF e
    <3> QED BY <2>2, <2>3, <3>1 DEF Opener
  <2>6. k.conn = "connected" /\ k.mcp = h.mcp /\ k.mcpReq = h.mcpReq
        /\ k.reloadReq = h.reloadReq /\ k.retry = h.retry
    BY <1>1, <1>4 DEF Usable, SameOuter, SameMcp
  <2>7. Tidy(k, E) /\ Opens(k, E)
    BY <2>5, <2>6 DEF Tidy, Opens
  <2> QED BY <1>2, <2>7 DEF Attends
<1>5. CASE h.sess = 0 /\ ~Usable(h)
  <2>1. h.conn # "connected"
    BY <1>5 DEF Usable, Alive
  <2>2. k.sess = 0
    BY <1>5 DEF CreateOrResumeSession, Working, Hal
  <2>3. k.conn = h.conn /\ k.mcp = h.mcp /\ k.mcpReq = h.mcpReq
        /\ k.reloadReq = h.reloadReq /\ k.retry = h.retry
    BY <1>1 DEF SameOuter, SameMcp
  <2> QED BY <1>2, <2>1, <2>2, <2>3 DEF Tidy, Opens, Attends
<1> QED
  BY <1>3, <1>4, <1>5

LEMMA SendPromptAttends ==
  ASSUME NEW h, Working(h), Alive(h), NEW E, Attends(h, E), NEW p \in Prompt,
         NEW k, k = SendPrompt(h, p)
  PROVE  Attends(k, E)
<1> DEFINE q == Queued(h, p)
<1>1. CASE k = [h EXCEPT !.fate[p] = "settled"]
  <2>1. /\ SameOuter(h, k) /\ SamePref(h, k) /\ SameMcp(h, k) /\ SameSession(h, k)
        /\ SameFlow(h, k) /\ SameQueues(h, k)
    BY <1>1 DEF Working, Hal, SameOuter, SameWish, SamePref, SameMcp, SameSession, SameFlow, SameQueues
  <2> QED BY <2>1, SameGrows, KeptAttends
<1>2. CASE k = SubmitPrompt(h, p)
  <2>1. Grows(h, k)
    BY <1>2, SubmitPromptLinks DEF Links
  <2> QED BY <1>2, <2>1, SubmitPromptFrame, KeptAttends
<1>3. k = q \/ k = CreateOrResumeSession(q) \/ k = SubmitPrompt(h, p)
      \/ k = [h EXCEPT !.fate[p] = "settled"]
  BY SendPromptIs
<1>4. /\ SameOuter(h, q) /\ SamePref(h, q) /\ SameMcp(h, q) /\ SameSession(h, q)
      /\ SameFlow(h, q) /\ SameQueues(h, q) /\ Working(q)
  BY QueuedFrame
<1> HIDE DEF q
<1>5. Attends(q, E)
  BY <1>4, SameGrows, KeptAttends
<1>6. Alive(q)
  BY <1>4 DEF Alive, SameOuter, SameWish
<1>7. CASE k = CreateOrResumeSession(q)
  BY <1>4, <1>5, <1>6, <1>7, CreateOrResumeAttends DEF Attends
<1> QED
  BY <1>1, <1>2, <1>3, <1>5, <1>7

LEMMA UndeliveredAttends ==
  ASSUME NEW h, Working(h), NEW E, Attends(h, E)
  PROVE  Attends(Undelivered(h), E)
BY UndeliveredFrame, SameGrows, KeptAttends

LEMMA FinishPreferencesAttends ==
  ASSUME NEW h, Working(h), Alive(h), NEW E, WaitsMcp(h, E), Tidy(h, E), Opens(h, E),
         NEW deliver \in BOOLEAN, NEW state \in PrefState
  PROVE  Attends(FinishPreferences(h, deliver, state), E)
<1> DEFINE d == Ended(h, deliver, state)
           u == [d EXCEPT !.queued = NoPrompt]
           k == FinishPreferences(h, deliver, state)
<1>1. /\ SameOuter(h, d) /\ SameMcp(h, d) /\ SameSession(h, d)
      /\ SameFlow(h, d) /\ SameQueues(h, d) /\ ~d.prefPending /\ Working(d)
  BY EndedFrame
<1>2. k = IF h.queued # NoPrompt /\ deliver THEN SendPrompt(u, h.queued) ELSE Undelivered(d)
  BY FinishPreferencesIs
<1> HIDE DEF d, k
<1>3. Attends(d, E) /\ Alive(d)
  <2>1. Grows(h, d) /\ d.conn = h.conn /\ d.mcp = h.mcp /\ d.sess = h.sess /\ d.stored = h.stored
        /\ d.link = h.link
    BY <1>1, SameGrows DEF SameOuter, SameWish, SameMcp, SameSession
  <2>2. WaitsMcp(d, E) /\ Tidy(d, E) /\ Opens(d, E)
    BY <1>1, <2>1, KeptMcp, KeptTidy, KeptOpens
  <2> QED BY <1>1, <2>1, <2>2 DEF Attends, WaitsPref, Alive
<1>4. Attends(u, E) /\ Alive(u) /\ Working(u)
  <2>1. /\ SameOuter(d, u) /\ SamePref(d, u) /\ SameMcp(d, u) /\ SameSession(d, u)
        /\ SameFlow(d, u) /\ SameQueues(d, u) /\ Working(u)
    BY <1>1, UnqueuedFrame
  <2> HIDE DEF u
  <2> QED BY <1>3, <2>1, SameGrows, KeptAttends DEF Alive, SameOuter, SameWish
<1> HIDE DEF u
<1>5. CASE h.queued # NoPrompt /\ deliver
  <2>1. h.queued \in Prompt
    BY <1>5 DEF Working, Hal
  <2> QED BY <1>2, <1>4, <1>5, <2>1, SendPromptAttends DEF k
<1>6. CASE ~(h.queued # NoPrompt /\ deliver)
  BY <1>1, <1>2, <1>3, <1>6, UndeliveredAttends DEF k
<1> QED
  BY <1>5, <1>6

LEMMA FailPreferencesAttends ==
  ASSUME NEW h, Working(h), Alive(h), NEW E, WaitsMcp(h, E), Tidy(h, E), Opens(h, E)
  PROVE  Attends(FailPreferences(h), E)
BY FinishPreferencesAttends DEF FailPreferences, PrefState

LEMMA PreferenceRefusedAttends ==
  ASSUME NEW h, Working(h), Alive(h), NEW E, WaitsMcp(h, E), Tidy(h, E), Opens(h, E), NEW e
  PROVE  Attends(PreferenceRefused(h, e), E)
BY FinishPreferencesAttends, FailPreferencesAttends DEF PreferenceRefused, PrefState

LEMMA RequestPreferenceAttends ==
  ASSUME NEW h, Working(h), Usable(h), NEW E, WaitsMcp(h, E), Tidy(h, E), Opens(h, E),
         NEW m \in {"model", "effort"}, NEW k, k = RequestPreference(h, m)
  PROVE  Attends(k, E)
<1>1. /\ SameOuter(h, k) /\ SameMcp(h, k) /\ SameSession(h, k)
      /\ k.flow = h.flow \cup {Choice(h, m)} /\ SameQueues(Posted(h, m, h.desired), k)
      /\ Grows(h, k)
  BY RequestPreferenceFrame, RequestPreferenceLinks DEF Links
<1>2. k.conn = h.conn /\ k.mcp = h.mcp /\ k.sess = h.sess /\ k.stored = h.stored
  BY <1>1 DEF SameOuter, SameMcp, SameSession
<1>3. Pending(k, E, FreshId(h))
  BY <1>1, PostedPending
<1>4. WaitsPref(k, E)
  <2>1. Choice(h, m) \in k.flow /\ Choice(h, m).cur /\ Choice(h, m).id = FreshId(h)
    BY <1>1 DEF Choice
  <2> QED BY <1>3, <2>1 DEF WaitsPref
<1> QED
  BY <1>1, <1>2, <1>4, KeptMcp, KeptTidy, KeptOpens DEF Attends

LEMMA BeginPreferencesAttends ==
  ASSUME NEW h, Working(h), Alive(h), NEW E, WaitsMcp(h, E), Tidy(h, E), Opens(h, E)
  PROVE  Attends(BeginPreferences(h), E)
<1> DEFINE b == Begun(h)
<1>1. /\ SameOuter(h, b) /\ SameMcp(h, b) /\ SameSession(h, b) /\ SameQueues(h, b) /\ Working(b)
  BY BegunFrame
<1>2. BeginPreferences(h) = IF b.runtime = 0 \/ b.conn # "connected" THEN FailPreferences(b)
                            ELSE RequestPreference(b, "model")
  BY BeginPreferencesIs
<1> HIDE DEF b
<1>3. b.conn = h.conn /\ b.mcp = h.mcp /\ b.sess = h.sess /\ b.stored = h.stored /\ b.link = h.link
      /\ Grows(h, b)
  BY <1>1, SameGrows DEF SameOuter, SameWish, SameMcp, SameSession
<1>4. WaitsMcp(b, E) /\ Tidy(b, E) /\ Opens(b, E) /\ Alive(b)
  BY <1>1, <1>3, KeptMcp, KeptTidy, KeptOpens DEF Alive
<1>5. CASE b.runtime = 0 \/ b.conn # "connected"
  BY <1>1, <1>2, <1>4, <1>5, FailPreferencesAttends
<1>6. CASE ~(b.runtime = 0 \/ b.conn # "connected")
  <2>1. Usable(b)
    BY <1>4, <1>6 DEF Usable, Alive
  <2> QED BY <1>1, <1>2, <1>4, <1>6, <2>1, RequestPreferenceAttends
<1> QED
  BY <1>5, <1>6

LEMMA RequestMcpAttends ==
  ASSUME NEW h, Working(h), Usable(h), NEW E, WaitsPref(h, E), Tidy(h, E), h.reloadReq = 0,
         NEW m \in McpMethod, NEW stage \in Registering, NEW k, k = RequestMcp(h, m, stage)
  PROVE  Attends(k, E)
<1>0. stage \in Stage /\ stage # "reloading"
  BY DEF Registering, Stage
<1>1. /\ SameOuter(h, k) /\ SamePref(h, k) /\ SameSession(h, k) /\ SameFlow(h, k)
      /\ k.mcp = stage /\ k.mcpReq = FreshId(h) /\ k.reloadReq = 0
      /\ SameQueues(Posted(h, m, 0), k) /\ Grows(h, k)
  BY <1>0, RequestMcpFrame, RequestMcpLinks DEF Links
<1>2. k.conn = "connected" /\ k.sess = h.sess /\ k.stored = h.stored
      /\ k.prefPending = h.prefPending
  BY <1>1 DEF Usable, SameOuter, SameSession, SamePref
<1>3. Pending(k, E, k.mcpReq)
  BY <1>1, PostedPending
<1>4. Entries(h, E) \subseteq Entries(k, E)
  BY <1>1, GrowsEntries
<1>5. Tidy(k, E)
  BY <1>0, <1>1, <1>2, <1>4 DEF Tidy, Opener
<1>6. WaitsMcp(k, E) /\ Opens(k, E)
  BY <1>0, <1>1, <1>3 DEF WaitsMcp, Opens
<1> QED
  BY <1>1, <1>2, <1>5, <1>6, KeptPref DEF Attends

LEMMA EnsureMcpAttends ==
  ASSUME NEW h, Working(h), Usable(h), NEW E, WaitsPref(h, E), Tidy(h, E), h.reloadReq = 0,
         h.mcp \in {"idle", "degraded", "retrying"}
  PROVE  Attends(EnsureMcp(h), E)
BY RequestMcpAttends DEF EnsureMcp, McpMethod, Registering

LEMMA FinishMcpSetupAttends ==
  ASSUME NEW h, Working(h), Usable(h), NEW E, WaitsPref(h, E), Tidy(h, E),
         NEW k, k = FinishMcpSetup(h)
  PROVE  Attends(k, E)
<1>0. Grows(h, k)
  BY FinishMcpSetupLinks DEF Links
<1>1. CASE h.runtime # 0
  <2> DEFINE d == SetUp(h)
  <2>1. /\ SameOuter(h, k) /\ SamePref(h, k) /\ SameSession(h, k) /\ SameFlow(h, k)
        /\ k.mcp = "reloading" /\ k.mcpReq = 0 /\ k.reloadReq = FreshId(d) /\ ~k.retry
        /\ SameQueues(Posted(d, "reload", 0), k)
    BY <1>1, ReloadingFrame
  <2>2. Working(d)
    BY SetUpFrame
  <2> HIDE DEF d
  <2>3. Pending(k, E, k.reloadReq)
    BY <2>1, <2>2, PostedPending
  <2>4. k.conn = "connected" /\ k.sess = h.sess /\ k.stored = h.stored /\ k.runtime # 0
        /\ k.prefPending = h.prefPending
    BY <1>1, <2>1 DEF Usable, SameOuter, SameSession, SamePref
  <2>5. Entries(h, E) \subseteq Entries(k, E)
    BY <1>0, GrowsEntries
  <2>6. Tidy(k, E)
    BY <2>1, <2>4, <2>5 DEF Tidy, Opener
  <2>7. WaitsMcp(k, E) /\ Opens(k, E)
    BY <2>1, <2>3, <2>4 DEF WaitsMcp, Opens, Registering
  <2> QED BY <1>0, <2>1, <2>4, <2>6, <2>7, KeptPref DEF Attends
<1>2. CASE h.runtime = 0
  <2> DEFINE r == MarkMcpReady(SetUp(h))
  <2>1. /\ k = CreateOrResumeSession(r)
        /\ SameOuter(h, r) /\ SamePref(h, r) /\ SameSession(h, r)
        /\ SameFlow(h, r) /\ SameQueues(h, r)
        /\ r.mcp = "ready" /\ r.mcpReq = 0 /\ r.reloadReq = 0 /\ ~r.retry
        /\ Working(r)
    BY <1>2, RegisteredFrame
  <2> HIDE DEF r
  <2>2. Grows(h, r)
    BY <2>1, SameGrows
  <2>3. r.conn = "connected" /\ r.sess = h.sess /\ r.stored = h.stored /\ Alive(r)
        /\ r.prefPending = h.prefPending
    BY <2>1 DEF Usable, Alive, SameOuter, SameWish, SameSession, SamePref
  <2>4. Entries(h, E) \subseteq Entries(r, E)
    BY <2>2, GrowsEntries
  <2>5. Tidy(r, E) /\ WaitsMcp(r, E) /\ WaitsPref(r, E)
    BY <2>1, <2>2, <2>3, <2>4, KeptPref DEF Tidy, Opener, WaitsMcp, Registering
  <2> QED BY <2>1, <2>3, <2>5, CreateOrResumeAttends
<1> QED
  BY <1>1, <1>2

LEMMA McpFailedAttends ==
  ASSUME NEW h, Working(h), Alive(h), NEW E, WaitsPref(h, E), Tidy(h, E), h.reloadReq = 0,
         NEW k, k = McpFailed(h)
  PROVE  Attends(k, E)
<1> DEFINE d == Degraded(h)
           s == IF h.runtime = 0 THEN CreateOrResumeSession(d) ELSE d
<1>1. /\ SameOuter(h, d) /\ SamePref(h, d) /\ SameSession(h, d)
      /\ SameFlow(h, d) /\ SameQueues(h, d)
      /\ d.mcp = "degraded" /\ d.mcpReq = 0 /\ d.reloadReq = 0
      /\ Working(d)
  BY DegradedFrame
<1>2. Working(s) /\ SameBut(s, k)
  BY McpFailedIs
<1> HIDE DEF d
<1>3. Grows(h, d)
  BY <1>1, SameGrows
<1>4. d.conn = h.conn /\ d.sess = h.sess /\ d.stored = h.stored /\ d.link = h.link
      /\ d.prefPending = h.prefPending /\ d.runtime = h.runtime
  BY <1>1 DEF SameOuter, SameWish, SameSession, SamePref
<1>5. Entries(h, E) \subseteq Entries(d, E)
  BY <1>3, GrowsEntries
<1>6. Tidy(d, E) /\ WaitsMcp(d, E) /\ WaitsPref(d, E) /\ Alive(d)
  BY <1>1, <1>3, <1>4, <1>5, KeptPref DEF Tidy, Opener, WaitsMcp, Registering, Alive
<1>7. Attends(s, E) /\ s.mcp = "degraded"
  <2>1. CASE h.runtime = 0
    <3>1. SameMcp(d, CreateOrResumeSession(d))
      BY <1>1, CreateOrResumeFrame
    <3> QED BY <1>1, <1>6, <2>1, <3>1, CreateOrResumeAttends DEF SameMcp
  <2>2. CASE h.runtime # 0
    BY <1>1, <1>4, <1>6, <2>2 DEF Attends, Opens
  <2> QED BY <2>1, <2>2
<1> HIDE DEF s
<1>8. /\ k.mcp = s.mcp /\ k.mcpReq = s.mcpReq /\ k.reloadReq = s.reloadReq /\ k.conn = s.conn
      /\ k.sess = s.sess /\ k.stored = s.stored /\ k.prefPending = s.prefPending
      /\ SameFlow(s, k) /\ SameSession(s, k) /\ Grows(s, k)
  BY <1>2, SameGrows DEF SameBut, SameOuter, SameSession, SamePref
<1>9. WaitsPref(k, E) /\ Opens(k, E)
  BY <1>7, <1>8, KeptPref, KeptOpens DEF Attends
<1>10. Tidy(k, E) /\ WaitsMcp(k, E)
  <2>1. Entries(s, E) \subseteq Entries(k, E)
    BY <1>8, GrowsEntries
  <2> QED BY <1>7, <1>8, <2>1 DEF Attends, Tidy, Opener, WaitsMcp, Registering
<1> QED
  BY <1>9, <1>10 DEF Attends

LEMMA DroppedAttends ==
  ASSUME NEW h, Working(h), NEW E, NEW id, NEW k, k = Dropped(h, id)
  PROVE  /\ WaitsMcp(h, E) => WaitsMcp(k, E)
         /\ Tidy(h, E) => Tidy(k, E)
         /\ Opens(h, E) => Opens(k, E)
         /\ Alive(h) => Alive(k)
         /\ WaitsPref(h, E) /\ (\A f \in h.flow : f.id = id => ~f.cur) => WaitsPref(k, E)
<1>1. /\ SameOuter(h, k) /\ SamePref(h, k) /\ SameSession(h, k) /\ SameMcp(h, k)
      /\ SameQueues(h, k) /\ k.flow = {f \in h.flow : f.id # id}
  BY DroppedFrame
<1>2. Grows(h, k) /\ k.conn = h.conn /\ k.mcp = h.mcp /\ k.sess = h.sess /\ k.stored = h.stored
      /\ k.link = h.link /\ k.prefPending = h.prefPending
  BY <1>1, SameGrows DEF SameOuter, SameWish, SameMcp, SameSession, SamePref
<1>3. \A x : Pending(h, E, x) => Pending(k, E, x)
  BY <1>2, GrowsEntries
<1>4. WaitsPref(h, E) /\ (\A f \in h.flow : f.id = id => ~f.cur) => WaitsPref(k, E)
  BY <1>1, <1>2, <1>3 DEF WaitsPref
<1> QED
  BY <1>1, <1>2, <1>4, KeptMcp, KeptTidy, KeptOpens DEF Alive

\* What is left when a request is answered, or fails.
LEMMA WithoutEntry ==
  ASSUME NEW h, Working(h), NEW E, NEW e \in Entry, Agrees(h, e, signals), Attends(h, E \cup {e})
  PROVE  /\ e.m \notin {"model", "effort"} \/ CurrentEntry(h, e.id, e.m) = {} => WaitsPref(h, E)
         /\ e.m \notin {"model", "effort"} \/ CurrentEntry(h, e.id, e.m) = {} =>
              \A f \in h.flow : f.id = e.id => ~f.cur
         /\ ~(e.m \in McpMethod /\ e.id = h.mcpReq) /\ ~(e.m = "reload" /\ e.id = h.reloadReq) =>
              WaitsMcp(h, E)
         /\ ~Opener(h, e) => Tidy(h, E) /\ Opens(h, E)
         /\ e.id = h.mcpReq => h.reloadReq = 0
         /\ e.id = h.reloadReq => h.mcp = "reloading"
<1> DEFINE F == E \cup {e}
<1>1. \A x : Pending(h, F, x) /\ x # e.id => Pending(h, E, x)
  BY DEF Pending, Entries
<1>2. \A x \in Entries(h, F) : x = e \/ x \in Entries(h, E)
  BY DEF Entries
<1>3. e.id # 0
  BY HermesAssumption DEF Entry
<1> HIDE DEF F
<1>4. WaitsPref(h, F) /\ WaitsMcp(h, F) /\ Tidy(h, F) /\ Opens(h, F)
  BY DEF Attends, F
<1>5. ASSUME e.m \notin {"model", "effort"} \/ CurrentEntry(h, e.id, e.m) = {}
      PROVE  \A f \in h.flow : f.id = e.id => ~f.cur
  <2>1. \A f \in h.flow : f.id = e.id => f.m = e.m
    BY DEF Agrees
  <2>2. \A f \in h.flow : f.m \in {"model", "effort"}
    BY DEF Working, Hal, Flows, Preference
  <2> QED BY <1>5, <2>1, <2>2 DEF CurrentEntry
<1>6. ASSUME e.m \notin {"model", "effort"} \/ CurrentEntry(h, e.id, e.m) = {}
      PROVE  WaitsPref(h, E)
  BY <1>1, <1>4, <1>5, <1>6 DEF WaitsPref
<1>7. ASSUME ~(e.m \in McpMethod /\ e.id = h.mcpReq), ~(e.m = "reload" /\ e.id = h.reloadReq)
      PROVE  WaitsMcp(h, E)
  BY <1>1, <1>4, <1>7 DEF WaitsMcp, Agrees
<1>8. ASSUME ~Opener(h, e) PROVE Tidy(h, E) /\ Opens(h, E)
  BY <1>2, <1>4, <1>8 DEF Tidy, Opens
<1>9. /\ e.id = h.mcpReq => h.reloadReq = 0
      /\ e.id = h.reloadReq => h.mcp = "reloading"
  BY <1>3, <1>4 DEF Tidy
<1> QED
  BY <1>5, <1>6, <1>7, <1>8, <1>9

LEMMA OnRpcErrorAttends ==
  ASSUME NEW h, Working(h), Alive(h), NEW E, NEW e \in Entry, Agrees(h, e, signals),
         Attends(h, E \cup {e})
  PROVE  Attends(OnRpcError(h, e.id, e.m), E)
<1> DEFINE id == e.id
           m == e.m
           c == NoSession(h, m)
           u == [h EXCEPT !.reloadReq = 0]
           z == [c EXCEPT !.stored = 0, !.runtime = 0]
           d == Dropped(c, id)
           k == OnRpcError(h, id, m)
           p == CHOOSE f \in CurrentEntry(c, id, m) : TRUE
<1>1. /\ m \notin {"model", "effort"} \/ CurrentEntry(h, id, m) = {} =>
           WaitsPref(h, E) /\ \A f \in h.flow : f.id = id => ~f.cur
      /\ ~(m \in McpMethod /\ id = h.mcpReq) /\ ~(m = "reload" /\ id = h.reloadReq) =>
           WaitsMcp(h, E)
      /\ ~Opener(h, e) => Tidy(h, E) /\ Opens(h, E)
      /\ id = h.mcpReq => h.reloadReq = 0
  BY WithoutEntry
<1>2. k = IF m \in McpMethod /\ id = h.mcpReq THEN McpFailed(h)
          ELSE IF m = "reload" /\ id = h.reloadReq THEN McpFailed(u)
          ELSE IF m = "resume" /\ c.stored # 0 THEN CreateOrResumeSession(z)
          ELSE IF m \in {"model", "effort"} /\ CurrentEntry(c, id, m) # {}
          THEN PreferenceRefused(d, p) ELSE d
  BY OnRpcErrorIs
<1>3. CASE m \in McpMethod /\ id = h.mcpReq
  <2>1. WaitsPref(h, E) /\ Tidy(h, E) /\ h.reloadReq = 0
    BY <1>1, <1>3 DEF McpMethod, Opener
  <2> QED BY <1>2, <1>3, <2>1, McpFailedAttends
<1>4. CASE m = "reload" /\ id = h.reloadReq /\ ~(m \in McpMethod /\ id = h.mcpReq)
  <2>1. WaitsPref(h, E) /\ Tidy(h, E)
    BY <1>1, <1>4 DEF Opener
  <2>2. /\ SameOuter(h, u) /\ SamePref(h, u) /\ SameSession(h, u)
        /\ SameFlow(h, u) /\ SameQueues(h, u)
        /\ u.mcp = h.mcp /\ u.mcpReq = h.mcpReq /\ u.reloadReq = 0 /\ u.retry = h.retry
        /\ Working(u)
    BY UnreloadedFrame
  <2> HIDE DEF u
  <2>3. Grows(h, u) /\ u.conn = h.conn /\ u.link = h.link /\ u.sess = h.sess /\ u.stored = h.stored
        /\ u.prefPending = h.prefPending
    BY <2>2, SameGrows DEF SameOuter, SameWish, SameSession, SamePref
  <2>4. Entries(h, E) \subseteq Entries(u, E)
    BY <2>3, GrowsEntries
  <2>5. WaitsPref(u, E) /\ Tidy(u, E) /\ Alive(u)
    BY <2>1, <2>2, <2>3, <2>4, KeptPref DEF Tidy, Opener, Alive
  <2> QED BY <1>2, <1>4, <2>2, <2>5, McpFailedAttends
<1>5. CASE ~(m \in McpMethod /\ id = h.mcpReq) /\ ~(m = "reload" /\ id = h.reloadReq)
  <2>1. WaitsMcp(h, E)
    BY <1>1, <1>5
  <2>2. /\ SameOuter(h, c) /\ SamePref(h, c) /\ SameMcp(h, c)
        /\ SameFlow(h, c) /\ SameQueues(h, c)
        /\ c.runtime = h.runtime /\ c.stored = h.stored
        /\ c.sess = (IF m \in {"create", "resume"} THEN 0 ELSE h.sess)
        /\ c.opening = (IF m = "create" THEN "failed" ELSE h.opening)
        /\ Working(c)
    BY NoSessionFrame, NoSessionType
  <2> HIDE DEF c
  <2>3. Grows(h, c) /\ c.conn = h.conn /\ c.mcp = h.mcp /\ c.link = h.link
        /\ c.prefPending = h.prefPending
    BY <2>2, SameGrows DEF SameOuter, SameWish, SamePref, SameMcp
  <2>4. Entries(h, E) \subseteq Entries(c, E)
    BY <2>3, GrowsEntries
  <2>5. WaitsMcp(c, E) /\ Alive(c)
    BY <2>1, <2>2, <2>3, KeptMcp DEF Alive
  <2>6. Tidy(c, E)
    <3>1. CASE m \in {"create", "resume"}
      <4>1. Tidy(h, E \cup {e})
        BY DEF Attends
      <4> QED BY <2>2, <2>3, <3>1, <4>1 DEF Tidy, SameMcp
    <3>2. CASE m \notin {"create", "resume"}
      <4>1. Tidy(h, E)
        BY <1>1, <3>2 DEF Opener
      <4> QED BY <2>2, <2>3, <2>4, <3>2, <4>1, KeptTidy
    <3> QED BY <3>1, <3>2
  <2>7. CASE m = "resume" /\ c.stored # 0
    <3>1. WaitsPref(c, E)
      BY <1>1, <2>2, <2>3, <2>7, KeptPref
    <3>2. /\ SameOuter(c, z) /\ SamePref(c, z) /\ SameMcp(c, z)
          /\ SameFlow(c, z) /\ SameQueues(c, z)
          /\ z.sess = c.sess /\ Working(z)
      BY <2>2, ForgottenFrame
    <3> HIDE DEF z
    <3>3. Grows(c, z) /\ z.conn = c.conn /\ z.link = c.link /\ z.prefPending = c.prefPending
          /\ z.sess = 0
      BY <2>2, <2>7, <3>2, SameGrows DEF SameOuter, SameWish, SamePref
    <3>4. WaitsPref(z, E) /\ WaitsMcp(z, E) /\ Alive(z)
      BY <2>5, <3>1, <3>2, <3>3, KeptPref, KeptMcp DEF Alive
    <3>5. Tidy(z, E)
      BY <2>6, <3>2, <3>3 DEF Tidy, SameMcp
    <3> QED BY <1>2, <1>5, <2>7, <3>2, <3>4, <3>5, CreateOrResumeAttends
  <2>8. CASE ~(m = "resume" /\ c.stored # 0)
    <3>1. Opens(c, E)
      <4>1. CASE m = "create"
        BY <2>2, <4>1 DEF Opens
      <4>2. CASE m # "create"
        <5>1. Opens(h, E) /\ c.opening = h.opening
          BY <1>1, <2>2, <2>8, <4>2 DEF Opener
        <5> QED BY <2>2, <2>3, <2>4, <5>1 DEF Opens, Opener
      <4> QED BY <4>1, <4>2
    <3>2. Working(d)
      BY <2>2, DroppedType
    <3>3. WaitsMcp(d, E) /\ Tidy(d, E) /\ Opens(d, E) /\ Alive(d)
          /\ (WaitsPref(c, E) /\ (\A f \in c.flow : f.id = id => ~f.cur) => WaitsPref(d, E))
      BY <2>2, <2>5, <2>6, <3>1, DroppedAttends
    <3> HIDE DEF d, p
    <3>4. CASE m \in {"model", "effort"} /\ CurrentEntry(c, id, m) # {}
      <4>1. k = PreferenceRefused(d, p)
        BY <1>2, <1>5, <2>8, <3>4
      <4> QED BY <3>2, <3>3, <4>1, PreferenceRefusedAttends
    <3>5. CASE ~(m \in {"model", "effort"} /\ CurrentEntry(c, id, m) # {})
      <4>1. k = d
        BY <1>2, <1>5, <2>8, <3>5
      <4>2. CurrentEntry(c, id, m) = CurrentEntry(h, id, m)
        BY <2>2 DEF CurrentEntry, SameFlow
      <4>3. WaitsPref(h, E) /\ \A f \in c.flow : f.id = id => ~f.cur
        BY <1>1, <2>2, <3>5, <4>2 DEF SameFlow
      <4>4. WaitsPref(c, E)
        BY <2>2, <2>3, <4>3, KeptPref
      <4> QED BY <3>3, <4>1, <4>3, <4>4 DEF Attends
    <3> QED BY <3>4, <3>5
  <2> QED BY <2>7, <2>8
<1> HIDE DEF k
<1>6. Attends(k, E)
  BY <1>3, <1>4, <1>5 DEF k
<1> QED
  BY <1>6 DEF k

LEMMA OnMcpResultAttends ==
  ASSUME NEW h, Working(h), Usable(h), NEW E, WaitsPref(h, E), Tidy(h, E), h.reloadReq = 0,
         NEW m \in McpMethod, NEW v \in Verdicts(m), v # "error"
  PROVE  Attends(OnMcpResult(h, m, v), E)
<1>1. /\ m = "list" => v \in {"absent", "match", "differs"}
      /\ m = "test" => v \in {"ok", "refused"}
  BY DEF Verdicts, Refusals
<1>2. /\ Attends(RequestMcp(h, "add", "adding"), E)
      /\ Attends(RequestMcp(h, "test", "testing"), E)
      /\ Attends(RequestMcp(h, "remove", "removing"), E)
  BY RequestMcpAttends DEF McpMethod, Registering
<1>3. Attends(FinishMcpSetup(h), E) /\ Attends(McpFailed(h), E)
  BY FinishMcpSetupAttends, McpFailedAttends DEF Usable, Alive
<1> QED
  BY <1>1, <1>2, <1>3 DEF OnMcpResult, McpMethod

LEMMA OnReloadResultAttends ==
  ASSUME NEW h, Working(h), Usable(h), NEW E, WaitsPref(h, E), Tidy(h, E), Opens(h, E),
         h.mcp = "reloading", NEW v \in Verdicts("reload"), v # "error"
  PROVE  Attends(OnReloadResult(h, v), E)
<1> DEFINE c == [h EXCEPT !.reloadReq = 0]
           a == [c EXCEPT !.mcp = "approval"]
           r == MarkMcpReady(c)
           k == OnReloadResult(h, v)
<1>1. v \in {"ok", "confirm", "refused"}
  BY DEF Verdicts, Refusals
<1>2. /\ SameOuter(h, c) /\ SamePref(h, c) /\ SameSession(h, c) /\ SameFlow(h, c)
      /\ SameQueues(h, c) /\ c.mcp = h.mcp /\ c.mcpReq = h.mcpReq /\ c.reloadReq = 0
      /\ c.retry = h.retry /\ Working(c)
  BY UnreloadedFrame
<1>3. k \in {a, McpFailed(c), r}
  BY <1>1 DEF OnReloadResult
<1> HIDE DEF c, k
<1>4. Grows(h, c) /\ c.conn = "connected" /\ c.link /\ c.sess = h.sess /\ c.stored = h.stored
      /\ c.prefPending = h.prefPending /\ c.runtime = h.runtime /\ c.opening = h.opening
  BY <1>2, SameGrows DEF SameOuter, SameWish, SameSession, SamePref, Usable
<1>5. Entries(h, E) \subseteq Entries(c, E)
  BY <1>4, GrowsEntries
<1>6. WaitsPref(c, E) /\ Tidy(c, E) /\ Alive(c)
  BY <1>2, <1>4, <1>5, KeptPref DEF Tidy, Opener, Alive
<1>7. /\ c.runtime = 0 => c.opening = "failed" \/ \E e \in Entries(c, E) : Opener(c, e)
      /\ c.mcpReq = 0 /\ ~c.retry
  <2>1. h.runtime = 0 => h.opening = "failed" \/ \E e \in Entries(h, E) : Opener(h, e)
    BY DEF Opens, Usable, Registering
  <2> QED BY <1>2, <1>4, <1>5, <2>1 DEF Opener, Tidy
<1>8. ASSUME NEW x, x \in {a, r} PROVE Attends(x, E)
  <2>1. /\ SameOuter(c, x) /\ SamePref(c, x) /\ SameSession(c, x)
        /\ SameFlow(c, x) /\ SameQueues(c, x)
        /\ x.mcp \in {"approval", "ready"} /\ x.reloadReq = 0
    <3>1. CASE x = a
      BY <1>2, <3>1 DEF Working, Hal, SameOuter, SameWish, SamePref, SameSession, SameFlow, SameQueues
    <3>2. CASE x = r
      BY <1>2, <3>2, MarkMcpReadyFrame
    <3> QED BY <1>8, <3>1, <3>2
  <2>2. Grows(c, x) /\ x.conn = c.conn /\ x.sess = c.sess /\ x.stored = c.stored
        /\ x.prefPending = c.prefPending /\ x.runtime = c.runtime /\ x.opening = c.opening
    BY <2>1, SameGrows DEF SameOuter, SameSession, SamePref
  <2>3. Entries(c, E) \subseteq Entries(x, E)
    BY <2>2, GrowsEntries
  <2>4. WaitsPref(x, E)
    BY <1>6, <2>1, <2>2, KeptPref
  <2>5. WaitsMcp(x, E) /\ Tidy(x, E) /\ Opens(x, E)
    BY <1>4, <1>6, <1>7, <2>1, <2>2, <2>3 DEF WaitsMcp, Tidy, Opens, Opener, Registering
  <2> QED BY <2>4, <2>5 DEF Attends
<1>9. Attends(McpFailed(c), E)
  BY <1>2, <1>6, McpFailedAttends
<1> HIDE DEF a, r
<1>10. Attends(k, E)
  BY <1>3, <1>8, <1>9
<1> QED
  BY <1>10 DEF k

LEMMA OnSessionResultAttends ==
  ASSUME NEW h, Working(h), Alive(h), NEW E, WaitsMcp(h, E), NEW F, Tidy(h, F),
         NEW s \in Session0, s # 0
  PROVE  Attends(OnSessionResult(h, s), E)
<1> DEFINE c == [h EXCEPT !.sess = 0, !.runtime = s, !.stored = s, !.opening = "done"]
<1>1. /\ SameOuter(h, c) /\ SameMcp(h, c) /\ SameQueues(h, c) /\ c.sess = 0 /\ c.runtime = s
      /\ Working(c)
  <2>1. /\ SameOuter(h, c) /\ SameChat(h, c) /\ SamePref(h, c) /\ SameMcp(h, c)
        /\ SameFlow(h, c) /\ SameSaved(h, c) /\ SameQueues(h, c)
        /\ c.sess = 0 /\ c.runtime = s /\ c.stored = s /\ c.opening = "done"
        /\ Working(c)
    BY OpenedFrame
  <2> QED BY <2>1
<1>2. OnSessionResult(h, s) = BeginPreferences(c)
  BY DEF OnSessionResult
<1> HIDE DEF c
<1>3. Grows(h, c) /\ c.conn = h.conn /\ c.link = h.link
  BY <1>1, SameGrows DEF SameOuter, SameWish
<1>4. WaitsMcp(c, E) /\ Alive(c) /\ Opens(c, E)
  BY <1>1, <1>3, KeptMcp DEF Alive, Opens
<1>5. Tidy(c, E)
  BY <1>1, <1>3 DEF Tidy, SameMcp
<1> QED
  BY <1>1, <1>2, <1>4, <1>5, BeginPreferencesAttends

LEMMA OnPreferenceResultAttends ==
  ASSUME NEW h, Working(h), Usable(h), NEW E, WaitsMcp(h, E), Tidy(h, E), Opens(h, E),
         NEW id, NEW m \in {"model", "effort"}, NEW v,
         CurrentEntry(h, id, m) = {} =>
           WaitsPref(h, E) /\ \A f \in h.flow : f.id = id => ~f.cur
  PROVE  Attends(OnPreferenceResult(h, id, m, v), E)
<1> DEFINE c == Dropped(h, id)
           e == CHOOSE e \in CurrentEntry(h, id, m) : TRUE
           b == [c EXCEPT !.saved = e.route]
           d == IF e.persist THEN b ELSE c
           k == OnPreferenceResult(h, id, m, v)
<1>1. /\ WaitsMcp(c, E) /\ Tidy(c, E) /\ Opens(c, E) /\ Alive(c) /\ Working(c)
      /\ SameOuter(h, c)
      /\ WaitsPref(h, E) /\ (\A f \in h.flow : f.id = id => ~f.cur) => WaitsPref(c, E)
  BY DroppedAttends, DroppedType, DroppedFrame DEF Usable, Alive
<1>2. CASE CurrentEntry(h, id, m) = {}
  <2>1. k = c
    BY <1>2 DEF OnPreferenceResult
  <2> QED BY <1>1, <1>2, <2>1 DEF Attends
<1>3. CASE CurrentEntry(h, id, m) # {}
  <2>1. k \in {PreferenceRefused(c, e), RequestPreference(d, "effort"),
               FinishPreferences(c, TRUE, "ready")}
    BY <1>3 DEF OnPreferenceResult
  <2>2. e.route \in Model
    <3>1. e \in h.flow
      BY <1>3 DEF CurrentEntry
    <3> QED BY <3>1 DEF Working, Hal, Flows, Preference
  <2> HIDE DEF c, e
  <2>3. Working(d) /\ WaitsMcp(d, E) /\ Tidy(d, E) /\ Opens(d, E) /\ Usable(d)
    <3>1. Usable(c)
      BY <1>1 DEF Usable, SameOuter, SameWish
    <3>2. CASE e.persist
      <4>1. Working(b)
        BY <1>1, <2>2 DEF Working, Hal
      <4>2. SameOuter(c, b) /\ SameQueues(c, b) /\ SameMcp(c, b) /\ SameSession(c, b)
        BY <1>1 DEF Working, Hal, SameOuter, SameWish, SameQueues, SameMcp, SameSession
      <4> HIDE DEF b
      <4>3. Grows(c, b) /\ b.conn = c.conn /\ b.link = c.link /\ b.mcp = c.mcp
            /\ b.sess = c.sess /\ b.stored = c.stored
        BY <4>2, SameGrows DEF SameOuter, SameWish, SameMcp, SameSession
      <4>4. WaitsMcp(b, E) /\ Tidy(b, E) /\ Opens(b, E) /\ Usable(b)
        BY <1>1, <3>1, <4>2, <4>3, KeptMcp, KeptTidy, KeptOpens DEF Usable
      <4> QED BY <3>2, <4>1, <4>4
    <3>3. CASE ~e.persist
      BY <1>1, <3>1, <3>3
    <3> QED BY <3>2, <3>3
  <2> HIDE DEF d, k
  <2>4. CASE k = RequestPreference(d, "effort")
    <3>1. Attends(k, E)
      BY <2>3, <2>4, RequestPreferenceAttends
    <3> QED BY <3>1 DEF k
  <2>5. CASE k \in {PreferenceRefused(c, e), FinishPreferences(c, TRUE, "ready")}
    <3>1. Attends(k, E)
      BY <1>1, <2>5, PreferenceRefusedAttends, FinishPreferencesAttends DEF PrefState
    <3> QED BY <3>1 DEF k
  <2> QED BY <2>1, <2>4, <2>5
<1> QED
  BY <1>2, <1>3

LEMMA OnRpcResultAttends ==
  ASSUME NEW h, Working(h), Usable(h), NEW E, NEW e \in Entry, Agrees(h, e, signals),
         Attends(h, E \cup {e}), NEW v \in Verdicts(e.m), v # "error", NEW s \in Session0,
         e.m \in {"create", "resume"} => s # 0
  PROVE  Attends(OnRpcResult(h, e.id, e.m, v, s), E)
<1> DEFINE id == e.id
           m == e.m
           k == OnRpcResult(h, id, m, v, s)
<1>1. /\ m \notin {"model", "effort"} \/ CurrentEntry(h, id, m) = {} =>
           WaitsPref(h, E) /\ \A f \in h.flow : f.id = id => ~f.cur
      /\ ~(m \in McpMethod /\ id = h.mcpReq) /\ ~(m = "reload" /\ id = h.reloadReq) =>
           WaitsMcp(h, E)
      /\ ~Opener(h, e) => Tidy(h, E) /\ Opens(h, E)
      /\ id = h.mcpReq => h.reloadReq = 0
      /\ id = h.reloadReq => h.mcp = "reloading"
  BY WithoutEntry
<1>2. Alive(h) /\ Tidy(h, E \cup {e})
  BY DEF Alive, Usable, Attends
<1>3. m \in Method
  BY DEF Entry
<1> SUFFICES Attends(k, E)
  OBVIOUS
<1> HIDE DEF k
<1>4. CASE m \in McpMethod
  <2>1. WaitsPref(h, E) /\ Tidy(h, E) /\ Opens(h, E)
    BY <1>1, <1>4 DEF McpMethod, Opener
  <2>2. CASE id = h.mcpReq
    <3>1. k = OnMcpResult(h, m, v)
      BY <1>4, <2>2 DEF k, OnRpcResult
    <3> QED BY <1>1, <1>4, <2>1, <2>2, <3>1, OnMcpResultAttends
  <2>3. CASE id # h.mcpReq
    <3>1. k = h
      BY <1>4, <2>3 DEF k, OnRpcResult
    <3> QED BY <1>1, <1>4, <2>1, <2>3, <3>1 DEF Attends, McpMethod
  <2> QED BY <2>2, <2>3
<1>5. CASE m = "reload"
  <2>1. WaitsPref(h, E) /\ Tidy(h, E) /\ Opens(h, E)
    BY <1>1, <1>5 DEF Opener
  <2>2. CASE id = h.reloadReq
    <3>1. k = OnReloadResult(h, v)
      BY <1>5, <2>2 DEF k, OnRpcResult, McpMethod
    <3> QED BY <1>1, <1>5, <2>1, <2>2, <3>1, OnReloadResultAttends
  <2>3. CASE id # h.reloadReq
    <3>1. k = h
      BY <1>5, <2>3 DEF k, OnRpcResult, McpMethod
    <3> QED BY <1>1, <1>5, <2>1, <2>3, <3>1 DEF Attends, McpMethod
  <2> QED BY <2>2, <2>3
<1>6. CASE m \in {"create", "resume"}
  <2>1. k = OnSessionResult(h, s) /\ WaitsMcp(h, E)
    BY <1>1, <1>6 DEF k, OnRpcResult, McpMethod
  <2> QED BY <1>2, <1>6, <2>1, OnSessionResultAttends
<1>7. CASE m \in {"model", "effort"}
  <2>1. k = OnPreferenceResult(h, id, m, v) /\ WaitsMcp(h, E) /\ Tidy(h, E) /\ Opens(h, E)
    BY <1>1, <1>7 DEF k, OnRpcResult, McpMethod, Opener
  <2> QED BY <1>1, <1>7, <2>1, OnPreferenceResultAttends
<1>8. CASE m = "prompt"
  <2>1. k = h
    BY <1>8 DEF k, OnRpcResult, McpMethod
  <2> QED BY <1>1, <1>8, <2>1 DEF Attends, McpMethod, Opener
<1> QED
  BY <1>3, <1>4, <1>5, <1>6, <1>7, <1>8 DEF Method, McpMethod

\* The same requests, some of them taken out of the table.
LEMMA MovedAttends ==
  ASSUME NEW h, NEW k, NEW E, NEW F, Entries(k, F) = Entries(h, E), SameOuter(h, k),
         SamePref(h, k), SameMcp(h, k), SameSession(h, k), SameFlow(h, k), Attends(h, E)
  PROVE  Attends(k, F)
<1>1. WaitsPref(k, F)
  BY DEF Attends, WaitsPref, Pending, SamePref, SameFlow
<1>2. WaitsMcp(k, F)
  BY DEF Attends, WaitsMcp, Pending, SameMcp
<1>3. Tidy(k, F) /\ Opens(k, F)
  BY DEF Attends, Tidy, Opens, Opener, SameOuter, SameMcp, SameSession
<1> QED
  BY <1>1, <1>2, <1>3 DEF Attends

-----------------------------------------------------------------------------
(* The connection is changed by nothing but its notifications.              *)

LEMMA OuterTransitive ==
  ASSUME NEW h, NEW j, NEW k, SameOuter(h, j), SameOuter(j, k)
  PROVE  SameOuter(h, k)
BY DEF SameOuter, SameWish

LEMMA OnRpcErrorOuter ==
  ASSUME NEW h, Working(h), NEW id, NEW m
  PROVE  SameOuter(h, OnRpcError(h, id, m))
<1> DEFINE c == NoSession(h, m)
           u == [h EXCEPT !.reloadReq = 0]
           z == [c EXCEPT !.stored = 0, !.runtime = 0]
           d == Dropped(c, id)
           k == OnRpcError(h, id, m)
<1>1. Working(c) /\ SameOuter(h, c)
  BY NoSessionFrame, NoSessionType
<1>2. Working(u) /\ SameOuter(h, u)
  <2>1. /\ SameOuter(h, u) /\ SameChat(h, u) /\ SamePref(h, u) /\ SameSession(h, u)
        /\ SameFlow(h, u) /\ SameSaved(h, u) /\ SameQueues(h, u)
        /\ u.mcp = h.mcp /\ u.mcpReq = h.mcpReq /\ u.reloadReq = 0 /\ u.retry = h.retry
        /\ Working(u)
    BY UnreloadedFrame
  <2> QED BY <2>1
<1>3. \/ k = McpFailed(h) \/ k = McpFailed(u) \/ k = CreateOrResumeSession(z)
      \/ k = d \/ \E e : k = PreferenceRefused(d, e)
  BY OnRpcErrorIs
<1> HIDE DEF c, u
<1>4. Working(z) /\ SameOuter(c, z)
  <2>1. /\ SameOuter(c, z) /\ SameChat(c, z) /\ SamePref(c, z) /\ SameMcp(c, z)
        /\ SameFlow(c, z) /\ SameSaved(c, z) /\ SameQueues(c, z) /\ Forgets(c, z)
        /\ z.sess = c.sess /\ z.runtime = 0 /\ z.stored = 0
        /\ Working(z)
    BY <1>1, ForgottenFrame
  <2> QED BY <2>1
<1>5. Working(d) /\ SameOuter(c, d)
  BY <1>1, DroppedFrame, DroppedType
<1> HIDE DEF z, d
<1> SUFFICES SameOuter(h, k)
  OBVIOUS
<1> HIDE DEF k
<1>6. CASE k = McpFailed(h) \/ k = McpFailed(u)
  <2>1. SameOuter(h, k) \/ SameOuter(u, k)
    BY <1>2, <1>6, McpFailedFrame
  <2> QED BY <1>2, <2>1, OuterTransitive
<1>7. CASE k = CreateOrResumeSession(z)
  <2>1. SameOuter(z, k)
    BY <1>4, <1>7, CreateOrResumeFrame
  <2> QED BY <1>1, <1>4, <2>1, OuterTransitive
<1>8. CASE k = d \/ \E e : k = PreferenceRefused(d, e)
  <2>1. k = d \/ SameOuter(d, k)
    BY <1>5, <1>8, PreferenceRefusedFrame
  <2> QED BY <1>1, <1>5, <2>1, OuterTransitive
<1> QED
  BY <1>3, <1>6, <1>7, <1>8

LEMMA OnRpcResultOuter ==
  ASSUME NEW h, Working(h), NEW id, NEW m \in Method, NEW v \in Verdicts(m), v # "error",
         NEW s \in Session0
  PROVE  SameOuter(h, OnRpcResult(h, id, m, v, s))
<1> DEFINE k == OnRpcResult(h, id, m, v, s)
<1>1. SameOuter(h, h)
  BY DEF SameOuter, SameWish
<1>2. ASSUME m \in McpMethod PROVE SameOuter(h, OnMcpResult(h, m, v))
  <2>1. /\ m = "list" => v \in {"absent", "match", "differs"}
        /\ m = "test" => v \in {"ok", "refused"}
    BY DEF Verdicts, Refusals
  <2>2. SameOuter(h, RequestMcp(h, "add", "adding")) /\ SameOuter(h, RequestMcp(h, "test", "testing"))
        /\ SameOuter(h, RequestMcp(h, "remove", "removing"))
    BY RequestMcpFrame DEF McpMethod, Stage
  <2>3. SameOuter(h, FinishMcpSetup(h)) /\ SameOuter(h, McpFailed(h))
    BY FinishMcpSetupFrame, McpFailedFrame
  <2> QED BY <1>2, <2>1, <2>2, <2>3 DEF OnMcpResult, McpMethod
<1>3. ASSUME m = "reload" PROVE SameOuter(h, OnReloadResult(h, v))
  <2> DEFINE c == [h EXCEPT !.reloadReq = 0]
             a == [c EXCEPT !.mcp = "approval"]
             r == OnReloadResult(h, v)
  <2>1. v \in {"ok", "confirm", "refused"}
    BY <1>3 DEF Verdicts, Refusals
  <2>2. SameOuter(h, c) /\ Working(c)
    <3>1. /\ SameOuter(h, c) /\ SameChat(h, c) /\ SamePref(h, c) /\ SameSession(h, c)
          /\ SameFlow(h, c) /\ SameSaved(h, c) /\ SameQueues(h, c)
          /\ c.mcp = h.mcp /\ c.mcpReq = h.mcpReq /\ c.reloadReq = 0 /\ c.retry = h.retry
          /\ Working(c)
      BY UnreloadedFrame
    <3> QED BY <3>1
  <2>3. r \in {a, McpFailed(c), MarkMcpReady(c)}
    BY <2>1 DEF OnReloadResult
  <2> HIDE DEF c, r
  <2>4. SameOuter(c, a)
    BY <2>2 DEF Working, Hal, SameOuter, SameWish
  <2>5. SameOuter(c, McpFailed(c)) /\ SameOuter(c, MarkMcpReady(c))
    BY <2>2, McpFailedFrame, MarkMcpReadyFrame
  <2>6. SameOuter(h, r)
    BY <2>2, <2>3, <2>4, <2>5, OuterTransitive
  <2> QED BY <2>6 DEF r
<1>4. SameOuter(h, OnSessionResult(h, s))
  <2> DEFINE c == [h EXCEPT !.sess = 0, !.runtime = s, !.stored = s, !.opening = "done"]
  <2>1. /\ SameOuter(h, c) /\ SameChat(h, c) /\ SamePref(h, c) /\ SameMcp(h, c)
        /\ SameFlow(h, c) /\ SameSaved(h, c) /\ SameQueues(h, c)
        /\ c.sess = 0 /\ c.runtime = s /\ c.stored = s /\ c.opening = "done"
        /\ Working(c)
    BY OpenedFrame
  <2>2. OnSessionResult(h, s) = BeginPreferences(c)
    BY DEF OnSessionResult
  <2> HIDE DEF c
  <2> QED BY <2>1, <2>2, BeginPreferencesFrame, OuterTransitive
<1>5. ASSUME m \in {"model", "effort"} PROVE SameOuter(h, OnPreferenceResult(h, id, m, v))
  <2> DEFINE c == Dropped(h, id)
             e == CHOOSE e \in CurrentEntry(h, id, m) : TRUE
             d == IF e.persist THEN [c EXCEPT !.saved = e.route] ELSE c
             r == OnPreferenceResult(h, id, m, v)
  <2>1. Working(c) /\ SameOuter(h, c)
    BY DroppedType, DroppedFrame
  <2>2. \/ r = c
        \/ /\ e \in h.flow
           /\ r \in {PreferenceRefused(c, e), RequestPreference(d, "effort"),
                     FinishPreferences(c, TRUE, "ready")}
    BY DEF OnPreferenceResult, CurrentEntry
  <2>3. e \in h.flow => e.route \in Model
    BY DEF Working, Hal, Flows, Preference
  <2> HIDE DEF c, e, r
  <2>4. e \in h.flow => Working(d) /\ SameOuter(c, d)
    BY <2>1, <2>3 DEF Working, Hal, SameOuter, SameWish
  <2> HIDE DEF d
  <2>5. e \in h.flow => SameOuter(d, RequestPreference(d, "effort"))
    BY <2>4, RequestPreferenceFrame
  <2>6. SameOuter(c, PreferenceRefused(c, e)) /\ SameOuter(c, FinishPreferences(c, TRUE, "ready"))
    BY <2>1, PreferenceRefusedFrame, FinishPreferencesFrame DEF PrefState
  <2>7. r = c => SameOuter(h, r)
    BY <2>1
  <2>8. r \in {PreferenceRefused(c, e), FinishPreferences(c, TRUE, "ready")} => SameOuter(c, r)
    BY <2>6
  <2>9. e \in h.flow /\ r = RequestPreference(d, "effort") => SameOuter(c, r)
    <3>1. e \in h.flow => SameOuter(c, RequestPreference(d, "effort"))
      BY <2>4, <2>5, OuterTransitive
    <3> QED BY <3>1
  <2>10. SameOuter(c, r) => SameOuter(h, r)
    BY <2>1, OuterTransitive
  <2>11. SameOuter(h, r)
    BY <2>2, <2>7, <2>8, <2>9, <2>10
  <2> QED BY <2>11 DEF r
<1> HIDE DEF k
<1> QED
  BY <1>1, <1>2, <1>3, <1>4, <1>5 DEF OnRpcResult

\* All pending requests fail at once.
LEMMA RejectAllAttends ==
  ASSUME NEW h, Sound(h, {}), h.pend = hal.pend, Alive(h), Attends(h, {})
  PROVE  Attends(RejectAll(h), {}) /\ SameOuter(h, RejectAll(h))
<1> DEFINE n == Len(h.pend)
           E == {h.pend[i] : i \in DOMAIN h.pend}
           Rest(j) == {h.pend[i] : i \in (j + 1)..n}
<1>1. h.pend \in Seq(Entry)
  BY DEF Sound, Working, Hal
<1>2. PICK f : Turns(f, h, n) /\ RejectAll(h) = f[n]
  BY <1>1, RejectAllIs
<1>3. n \in Nat /\ DOMAIN h.pend = 1..n
  BY <1>1
<1>4. E \in SUBSET Earlier
  BY DEF Earlier
<1> DEFINE S == {j \in Nat : Sound(f[j], E) /\ Attends(f[j], Rest(j)) /\ SameOuter(h, f[j])}
<1>5. 0 \in S
  <2> DEFINE k == [h EXCEPT !.pend = <<>>]
  <2>1. f[0] = k
    BY <1>2 DEF Turns
  <2>2. Sound(k, E)
    BY EmptiedSound
  <2>3. /\ SameOuter(h, k) /\ SamePref(h, k) /\ SameMcp(h, k)
        /\ SameSession(h, k) /\ SameFlow(h, k) /\ k.pend = <<>>
    BY DEF Sound, Working, Hal, SameOuter, SameWish, SamePref, SameMcp, SameSession, SameFlow
  <2> HIDE DEF k
  <2>4. Entries(k, Rest(0)) = Entries(h, {})
    BY <1>3, <2>3 DEF Entries
  <2>5. Attends(k, Rest(0))
    BY <2>3, <2>4, MovedAttends
  <2> QED BY <2>1, <2>2, <2>3, <2>5
<1>6. ASSUME NEW j \in 0..(n - 1), j \in S PROVE j + 1 \in S
  <2> DEFINE e == h.pend[j + 1]
  <2>1. j + 1 \in 1..n /\ (j + 1) - 1 = j
    BY <1>3
  <2>2. f[j + 1] = OnRpcError(f[j], e.id, e.m)
    BY <1>2, <2>1 DEF Turns
  <2>3. Sound(f[j], E) /\ Attends(f[j], Rest(j)) /\ SameOuter(h, f[j])
    BY <1>6
  <2>4. e \in E /\ e \in Entry
    BY <1>1, <1>3, <2>1
  <2>5. Rest(j) = Rest(j + 1) \cup {e}
    <3>1. (j + 1)..n = ((j + 1) + 1)..n \cup {j + 1}
      BY <1>3, <2>1
    <3> QED BY <3>1
  <2> DEFINE R0 == Rest(j)
             R1 == Rest(j + 1)
             a == f[j]
             b == f[j + 1]
  <2>13. R0 = R1 \cup {e}
    BY <2>5
  <2>14. Sound(a, E) /\ Attends(a, R0)
    BY <2>3
  <2>15. b = OnRpcError(a, e.id, e.m)
    BY <2>2
  <2> HIDE DEF E, R0, R1, Rest, n, e
  <2>6. Sound(f[j + 1], E)
    BY <1>4, <2>2, <2>3, OnRpcErrorSound
  <2>7. Alive(f[j]) /\ Working(f[j])
    BY <2>3 DEF Sound, Alive, SameOuter, SameWish
  <2>8. Agrees(f[j], e, signals)
    BY <2>3, <2>4 DEF Sound, LinkOk, Entries
  <2>9. Attends(f[j + 1], Rest(j + 1))
    <3>1. Alive(a) /\ Working(a) /\ Agrees(a, e, signals)
      BY <2>7, <2>8
    <3> HIDE DEF a, b
    <3>2. Attends(b, R1)
      BY <2>4, <2>13, <2>14, <2>15, <3>1, OnRpcErrorAttends
    <3> QED BY <3>2 DEF b, R1
  <2>10. SameOuter(h, f[j + 1])
    BY <2>2, <2>3, <2>7, OnRpcErrorOuter, OuterTransitive
  <2>11. j + 1 \in Nat
    BY <2>1
  <2> QED BY <2>6, <2>9, <2>10, <2>11
<1>7. n \in S
  <2> HIDE DEF S, n
  <2> QED BY <1>3, <1>5, <1>6, UpTo
<1>8. Rest(n) = {}
  BY <1>3
<1> HIDE DEF Rest, n
<1> QED
  BY <1>2, <1>7, <1>8

LEMMA SetStateOuter ==
  ASSUME NEW h, Working(h), NEW v \in Conn
  PROVE  SetState(h, v).conn = v /\ SameWish(h, SetState(h, v))
<1> DEFINE c == Connected(h)
<1>1. CASE v = h.conn
  BY <1>1 DEF SetState, SameWish
<1>2. CASE v # h.conn /\ v # "connected"
  BY <1>2, DisconnectedIs
<1>3. CASE v # h.conn /\ v = "connected"
  <2>1. /\ SetState(h, v) = (IF SelfMcp /\ c.mcp # "ready" THEN EnsureMcp(c)
                             ELSE CreateOrResumeSession(c))
        /\ c.conn = "connected" /\ SameWish(h, c) /\ Working(c)
    BY <1>3, ConnectedIs
  <2> HIDE DEF c
  <2>2. SameOuter(c, CreateOrResumeSession(c))
    BY <2>1, CreateOrResumeFrame
  <2>3. SameOuter(c, EnsureMcp(c))
    <3>1. SameOuter(c, c)
      BY DEF SameOuter, SameWish
    <3>2. SameOuter(c, RequestMcp(c, "list", "listing"))
      BY <2>1, RequestMcpFrame DEF McpMethod, Stage
    <3> QED BY <3>1, <3>2 DEF EnsureMcp
  <2>4. SameOuter(c, SetState(h, v))
    BY <2>1, <2>2, <2>3
  <2> QED BY <1>3, <2>1, <2>4 DEF SameOuter, SameWish
<1> QED
  BY <1>1, <1>2, <1>3

\* Connection changes.
LEMMA DisconnectAttends ==
  ASSUME NEW h, Working(h), Attends(h, {}), NEW v \in Conn, v # "connected"
  PROVE  Attends(SetState(h, v), {})
<1> DEFINE k == SetState(h, v)
<1>1. CASE v = h.conn
  BY <1>1 DEF SetState
<1>2. CASE v # h.conn
  <2>1. /\ k.conn = v /\ SameWish(h, k) /\ SamePref(h, k) /\ SameFlow(h, k)
        /\ SameQueues(h, k) /\ k.sess = 0
        /\ k.mcp = (IF h.mcp = "reloading" THEN "degraded" ELSE h.mcp)
        /\ k.reloadReq = (IF h.mcp = "reloading" THEN 0 ELSE h.reloadReq)
        /\ k.mcpReq = h.mcpReq /\ k.retry = h.retry
    BY <1>2, DisconnectedIs
  <2> HIDE DEF k
  <2>2. Entries(k, {}) = Entries(h, {})
    BY <2>1 DEF Entries, SameQueues
  <2>3. WaitsPref(k, {})
    BY <2>1, <2>2 DEF Attends, WaitsPref, Pending, SamePref, SameFlow
  <2>4. WaitsMcp(k, {})
    BY <2>1, <2>2 DEF Attends, WaitsMcp, Pending, Registering
  <2>5. Tidy(k, {})
    BY <2>1 DEF Attends, Tidy
  <2>6. Opens(k, {})
    BY <2>1 DEF Opens
  <2>7. Attends(k, {})
    BY <2>3, <2>4, <2>5, <2>6 DEF Attends
  <2> QED BY <2>7 DEF k
<1> QED
  BY <1>1, <1>2

LEMMA ConnectAttends ==
  ASSUME NEW h, Working(h), h.link, h.conn # "connected", Attends(h, {})
  PROVE  Attends(SetState(h, "connected"), {})
<1> DEFINE k == SetState(h, "connected")
           c == Connected(h)
<1> SUFFICES Attends(k, {})
  OBVIOUS
<1>1. /\ k = (IF SelfMcp /\ c.mcp # "ready" THEN EnsureMcp(c) ELSE CreateOrResumeSession(c))
      /\ c.conn = "connected" /\ SameWish(h, c) /\ SamePref(h, c)
      /\ SameFlow(h, c) /\ SameQueues(h, c) /\ SameMcp(h, c)
      /\ c.sess = h.sess /\ Working(c)
  BY ConnectedIs
<1>2. h.sess = 0 /\ h.mcp # "reloading" /\ h.reloadReq = 0
  BY DEF Attends, Tidy
<1> HIDE DEF k, c
<1>3. Entries(c, {}) = Entries(h, {})
  BY <1>1 DEF Entries, SameQueues
<1>4. c.link /\ c.sess = 0 /\ c.reloadReq = 0 /\ c.mcp = h.mcp
  BY <1>1, <1>2 DEF SameWish, SameMcp
<1>5. WaitsPref(c, {})
  BY <1>1, <1>3 DEF Attends, WaitsPref, Pending, SamePref, SameFlow
<1>6. WaitsMcp(c, {})
  BY <1>1, <1>3 DEF Attends, WaitsMcp, Pending, SameMcp
<1>7. Tidy(c, {})
  BY <1>1, <1>2, <1>4 DEF Tidy
<1>8. c.mcp \in Stage
  BY <1>1 DEF Working, Hal
<1>9. CASE SelfMcp /\ c.mcp # "ready"
  <2>1. k = EnsureMcp(c)
    BY <1>1, <1>9
  <2>2. CASE c.mcp \in {"idle", "degraded", "retrying"}
    BY <1>1, <1>4, <1>5, <1>7, <2>1, <2>2, EnsureMcpAttends DEF Usable
  <2>3. CASE c.mcp \notin {"idle", "degraded", "retrying"}
    <3>1. k = c
      BY <2>1, <2>3 DEF EnsureMcp
    <3>2. c.mcp \in Registering \/ c.mcp = "approval"
      BY <1>2, <1>4, <1>8, <1>9, <2>3 DEF Stage, Registering
    <3>3. Opens(c, {})
      BY <3>2 DEF Opens
    <3> QED BY <1>5, <1>6, <1>7, <3>1, <3>3 DEF Attends
  <2> QED BY <2>2, <2>3
<1>10. CASE ~(SelfMcp /\ c.mcp # "ready")
  <2>1. k = CreateOrResumeSession(c)
    BY <1>1, <1>10
  <2>2. Alive(c)
    BY <1>4 DEF Alive
  <2> QED BY <1>1, <1>5, <1>6, <1>7, <2>1, <2>2, CreateOrResumeAttends
<1> QED
  BY <1>9, <1>10

\* What a notification of the worker may find: a connection it announces comes
\* to a client that has a worker.
LEMMA OnTransportStateAttends ==
  ASSUME Sound(hal, {}), Alive(hal), Attends(hal, {}), NEW v \in Conn, v = "connected" => hal.link
  PROVE  /\ Attends(OnTransportState(hal, v), {})
         /\ OnTransportState(hal, v).conn = v /\ OnTransportState(hal, v).link = hal.link
         /\ OnTransportState(hal, v).stale = hal.stale
<1> DEFINE b == IF v \in {"reconnecting", "offline"} /\ hal.conn = "connected"
                THEN RejectAll(hal) ELSE hal
           k == SetState(b, v)
<1>1. Sound(b, {}) /\ Attends(b, {}) /\ SameOuter(hal, b)
  <2>1. Sound(RejectAll(hal), {}) /\ Attends(RejectAll(hal), {}) /\ SameOuter(hal, RejectAll(hal))
    BY RejectAllSound, RejectAllAttends
  <2>2. SameOuter(hal, hal)
    BY DEF SameOuter, SameWish
  <2> HIDE DEF SameOuter
  <2> QED BY <2>1, <2>2
<1>2. OnTransportState(hal, v) = k
  BY DEF OnTransportState
<1> HIDE DEF b
<1>3. Working(b) /\ b.conn = hal.conn /\ b.link = hal.link /\ b.stale = hal.stale
  BY <1>1 DEF Sound, SameOuter, SameWish
<1>4. Attends(k, {})
  <2>1. v # "connected" => Attends(SetState(b, v), {})
    BY <1>1, <1>3, DisconnectAttends
  <2>2. v = "connected" /\ b.conn # "connected" => Attends(SetState(b, v), {})
    BY <1>1, <1>3, ConnectAttends
  <2>3. v = b.conn => SetState(b, v) = b
    BY DEF SetState
  <2> QED BY <1>1, <2>1, <2>2, <2>3
<1>5. k.conn = v /\ k.link = b.link /\ k.stale = b.stale
  BY <1>3, SetStateOuter DEF SameWish
<1> QED
  BY <1>2, <1>3, <1>4, <1>5

LEMMA OnTransportErrorAttends ==
  ASSUME Sound(hal, {}), Alive(hal), Attends(hal, {})
  PROVE  /\ Attends(OnTransportError(hal), {})
         /\ OnTransportError(hal).conn \in {"reconnecting", "error"}
         /\ OnTransportError(hal).link = hal.link /\ OnTransportError(hal).stale = hal.stale
<1>1. Working(hal) /\ "error" \in Conn
  BY DEF Sound, Conn
<1>2. Attends(SetState(hal, "error"), {})
  BY <1>1, DisconnectAttends
<1>3. SetState(hal, "error").conn = "error" /\ SetState(hal, "error").link = hal.link
      /\ SetState(hal, "error").stale = hal.stale
  BY <1>1, SetStateOuter DEF SameWish
<1> QED
  BY <1>2, <1>3 DEF OnTransportError

\* A request that leaves the table is handled in the same step.
LEMMA TakenAttends ==
  ASSUME Sound(hal, {}), Alive(hal), Attends(hal, {}), NEW i \in DOMAIN hal.pend, NEW k,
         k = [hal EXCEPT !.pend = RemoveAt(@, i)]
  PROVE  /\ Working(k) /\ Alive(k) /\ Agrees(k, hal.pend[i], signals) /\ hal.pend[i] \in Entry
         /\ Attends(k, {hal.pend[i]}) /\ SameOuter(hal, k)
<1> DEFINE e == hal.pend[i]
<1>1. /\ Sound(k, {e}) /\ SameOuter(hal, k) /\ SamePref(hal, k) /\ SameMcp(hal, k)
      /\ SameSession(hal, k) /\ SameFlow(hal, k) /\ Entries(k, {e}) = Entries(hal, {})
  BY TakenSound
<1>2. e \in Entry
  <2>1. hal.pend \in Seq(Entry)
    BY DEF Sound, Working, Hal
  <2> QED BY <2>1
<1> HIDE DEF e
<1>3. Attends(k, {e})
  BY <1>1, MovedAttends
<1>4. Agrees(k, e, signals)
  BY <1>1 DEF Sound, LinkOk, Entries
<1>5. Alive(k)
  BY <1>1 DEF Alive, SameOuter, SameWish
<1>6. Working(k)
  BY <1>1 DEF Sound
<1> QED
  BY <1>1, <1>2, <1>3, <1>4, <1>5, <1>6 DEF e

LEMMA NoneLeft ==
  ASSUME NEW h, NEW e, Attends(h, {e})
  PROVE  Attends(h, {} \cup {e})
<1>1. {} \cup {e} = {e}
  OBVIOUS
<1> QED
  BY <1>1

LEMMA OnReplyAttends ==
  ASSUME Sound(hal, {}), Usable(hal), Attends(hal, {}), signals # <<>>, Head(signals).t = "reply"
  PROVE  /\ Attends(OnReply(hal, Head(signals)), {})
         /\ SameOuter(hal, OnReply(hal, Head(signals)))
<1> DEFINE r == Head(signals)
           k == OnReply(hal, r)
<1>1. SameOuter(hal, hal) /\ Alive(hal)
  BY DEF SameOuter, SameWish, Usable, Alive
<1> SUFFICES ASSUME NEW i \in DOMAIN hal.pend, NEW p, p = [hal EXCEPT !.pend = RemoveAt(@, i)],
                    hal.pend[i].id = r.id,
                    k = IF r.v = "error" THEN OnRpcError(p, r.id, hal.pend[i].m)
                        ELSE OnRpcResult(p, r.id, hal.pend[i].m, r.v, r.s)
             PROVE  Attends(k, {}) /\ SameOuter(hal, k)
  BY <1>1, OnReplyIs
<1> DEFINE e == hal.pend[i]
<1>2. /\ Working(p) /\ Alive(p) /\ Agrees(p, e, signals) /\ e \in Entry
      /\ Attends(p, {e}) /\ SameOuter(hal, p)
  BY <1>1, TakenAttends
<1>3. /\ e.m \in Method /\ r.v \in Verdicts(e.m) /\ r.s \in Session0
      /\ e.m \in {"create", "resume"} => r.s # 0
  BY AnswerIs
<1>4. Usable(p)
  BY <1>2 DEF Usable, SameOuter, SameWish
<1>5. e.id = r.id
  OBVIOUS
<1>6. k = IF r.v = "error" THEN OnRpcError(p, e.id, e.m) ELSE OnRpcResult(p, e.id, e.m, r.v, r.s)
  OBVIOUS
<1> HIDE DEF e, k, r
<1>7. Attends(p, {} \cup {e})
  BY <1>2, NoneLeft
<1>8. r.v = "error" => Attends(k, {}) /\ SameOuter(p, k)
  <2>1. Attends(OnRpcError(p, e.id, e.m), {})
    BY <1>2, <1>7, OnRpcErrorAttends
  <2>2. SameOuter(p, OnRpcError(p, e.id, e.m))
    BY <1>2, OnRpcErrorOuter
  <2> QED BY <1>6, <2>1, <2>2
<1>9. r.v # "error" => Attends(k, {}) /\ SameOuter(p, k)
  <2> SUFFICES ASSUME r.v # "error" PROVE Attends(k, {}) /\ SameOuter(p, k)
    OBVIOUS
  <2>1. Attends(OnRpcResult(p, e.id, e.m, r.v, r.s), {})
    BY <1>2, <1>3, <1>4, <1>7, OnRpcResultAttends
  <2>2. SameOuter(p, OnRpcResult(p, e.id, e.m, r.v, r.s))
    BY <1>2, <1>3, OnRpcResultOuter
  <2> QED BY <1>6, <2>1, <2>2
<1> QED
  BY <1>2, <1>8, <1>9, OuterTransitive

LEMMA TimeoutAttends ==
  ASSUME Sound(hal, {}), Alive(hal), Attends(hal, {}), NEW i \in DOMAIN hal.pend, Timeout(i)
  PROVE  Attends(hal', {}) /\ SameOuter(hal, hal')
<1> DEFINE e == hal.pend[i]
           p == [hal EXCEPT !.pend = RemoveAt(@, i)]
           k == OnRpcError(p, e.id, e.m)
<1>1. /\ Working(p) /\ Alive(p) /\ Agrees(p, e, signals) /\ e \in Entry
      /\ Attends(p, {e}) /\ SameOuter(hal, p)
  BY TakenAttends
<1>2. hal' = k
  BY DEF Timeout
<1> HIDE DEF e, p
<1>3. Attends(p, {} \cup {e})
  BY <1>1, NoneLeft
<1>4. Attends(k, {}) /\ SameOuter(p, k)
  BY <1>1, <1>3, OnRpcErrorAttends, OnRpcErrorOuter
<1> QED
  BY <1>1, <1>2, <1>4, OuterTransitive

\* The steps of the user and of the router, and the retry timer.
LEMMA SubmitAttends ==
  ASSUME Sound(hal, {}), Alive(hal), Attends(hal, {}), NEW p \in Prompt, Submit(p)
  PROVE  Attends(hal', {}) /\ SameOuter(hal, hal')
BY SendPromptAttends, SendPromptFrame DEF Submit, Sound

LEMMA CancelAttends ==
  ASSUME Sound(hal, {}), Alive(hal), Attends(hal, {}), Cancel
  PROVE  Attends(hal', {}) /\ SameOuter(hal, hal')
BY UndeliveredAttends, UndeliveredFrame DEF Cancel, Sound

\* The connection stays as it is.
SameWire(h, k) == k.conn = h.conn /\ k.link = h.link /\ k.stale = h.stale

\* A new workflow attends to whatever the old one did.
LEMMA AnewAttends ==
  ASSUME NEW h, Alive(h), Attends(h, {}), NEW k, Working(k), SameWire(h, k), SameMcp(h, k),
         SameSession(h, k), SameQueues(h, k)
  PROVE  /\ Alive(k) /\ WaitsMcp(k, {}) /\ Tidy(k, {}) /\ Opens(k, {})
         /\ Attends(BeginPreferences(k), {}) /\ SameWire(h, BeginPreferences(k))
         /\ Attends(FailPreferences(k), {}) /\ SameWire(h, FailPreferences(k))
<1>1. Alive(k)
  BY DEF Alive, SameWire
<1>2. k.conn = h.conn /\ k.mcp = h.mcp /\ k.sess = h.sess /\ k.stored = h.stored /\ Grows(h, k)
  BY SameGrows DEF SameWire, SameMcp, SameSession
<1>3. WaitsMcp(k, {}) /\ Tidy(k, {}) /\ Opens(k, {})
  BY <1>2, KeptMcp, KeptTidy, KeptOpens DEF Attends
<1>4. Attends(BeginPreferences(k), {}) /\ Attends(FailPreferences(k), {})
  BY <1>1, <1>3, BeginPreferencesAttends, FailPreferencesAttends
<1>5. SameOuter(k, BeginPreferences(k)) /\ SameOuter(k, FailPreferences(k))
  BY BeginPreferencesFrame, FailPreferencesFrame
<1>6. SameWire(h, BeginPreferences(k)) /\ SameWire(h, FailPreferences(k))
  BY <1>5 DEF SameWire, SameOuter, SameWish
<1> QED
  BY <1>1, <1>3, <1>4, <1>6

LEMMA SwitchModelAttends ==
  ASSUME Sound(hal, {}), Alive(hal), Attends(hal, {}), NEW m \in Model, SwitchModel(m)
  PROVE  Attends(hal', {}) /\ SameWire(hal, hal')
<1> DEFINE b == [hal EXCEPT !.desired = m, !.persist = TRUE, !.chosen = @ \cup {m}]
<1>0. Working(hal)
  BY DEF Sound
<1>1. SameWire(hal, b) /\ SameMcp(hal, b) /\ SameSession(hal, b) /\ SameQueues(hal, b)
  BY <1>0 DEF Working, Hal, SameWire, SameMcp, SameSession, SameQueues
<1>2. Working(b)
  BY <1>0 DEF Working, Hal
<1>3. hal' = BeginPreferences(b)
  BY DEF SwitchModel
<1> HIDE DEF b
<1>4. Attends(BeginPreferences(b), {}) /\ SameWire(hal, BeginPreferences(b))
  BY <1>1, <1>2, AnewAttends
<1> QED
  BY <1>3, <1>4

LEMMA EnsureRouteAttends ==
  ASSUME Sound(hal, {}), Alive(hal), Attends(hal, {}), NEW m \in Model, NEW b \in BOOLEAN,
         EnsureRoute(m, b)
  PROVE  Attends(hal', {}) /\ SameWire(hal, hal')
<1> DEFINE r == Chosen(hal, m, b)
<1>1. /\ SamePref(hal, r) /\ SameMcp(hal, r) /\ SameSession(hal, r)
      /\ SameFlow(hal, r) /\ SameQueues(hal, r)
      /\ r.conn = hal.conn /\ r.link = hal.link /\ r.stale = hal.stale /\ Working(r)
  BY ChosenIs DEF Sound
<1>2. hal' = (IF CanSet THEN BeginPreferences(r) ELSE r)
  BY DEF EnsureRoute, Chosen
<1> HIDE DEF r
<1>3. SameWire(hal, r)
  BY <1>1 DEF SameWire
<1>4. /\ WaitsMcp(r, {}) /\ Tidy(r, {}) /\ Opens(r, {})
      /\ Attends(BeginPreferences(r), {}) /\ SameWire(hal, BeginPreferences(r))
  BY <1>1, <1>3, AnewAttends
<1>5. WaitsPref(r, {})
  BY <1>1, SameGrows, KeptPref DEF Attends, SamePref
<1> QED
  BY <1>2, <1>3, <1>4, <1>5 DEF Attends

LEMMA SetReasoningAttends ==
  ASSUME Sound(hal, {}), Alive(hal), Attends(hal, {}), NEW b \in BOOLEAN, SetReasoning(b)
  PROVE  Attends(hal', {}) /\ SameWire(hal, hal')
<1> DEFINE g == NextGeneration(hal)
<1>1. SameMcp(hal, hal) /\ SameSession(hal, hal) /\ SameQueues(hal, hal) /\ SameWire(hal, hal)
  BY DEF SameMcp, SameSession, SameQueues, SameWire
<1>2. /\ SameOuter(hal, g) /\ SameMcp(hal, g) /\ SameSession(hal, g) /\ SameQueues(hal, g)
      /\ Working(g)
  BY NextGenerationFrame, NextGenerationType DEF Sound
<1>3. hal' = IF b THEN BeginPreferences(hal) ELSE FailPreferences(g)
  BY DEF SetReasoning
<1> HIDE DEF g
<1>4. SameWire(hal, g)
  BY <1>2 DEF SameWire, SameOuter, SameWish
<1>5. Attends(BeginPreferences(hal), {}) /\ SameWire(hal, BeginPreferences(hal))
  BY <1>1, AnewAttends DEF Sound
<1>6. Attends(FailPreferences(g), {}) /\ SameWire(hal, FailPreferences(g))
  BY <1>2, <1>4, AnewAttends
<1> QED
  BY <1>3, <1>5, <1>6

LEMMA RetryMcpAttends ==
  ASSUME Sound(hal, {}), Alive(hal), Attends(hal, {}), RetryMcp
  PROVE  Attends(hal', {}) /\ SameWire(hal, hal')
<1> DEFINE t == Tired(hal)
           c == Retrying(hal)
<1>0. Working(hal)
  BY DEF Sound
<1>1. hal' = IF hal.conn = "connected" THEN EnsureMcp(c) ELSE t
  BY <1>0, RetryMcpIs DEF RetryMcp, Tired
<1>2. \A k \in {t, c} :
        /\ SameOuter(hal, k) /\ SamePref(hal, k) /\ SameSession(hal, k) /\ SameFlow(hal, k)
        /\ SameQueues(hal, k) /\ k.mcpReq = hal.mcpReq /\ k.reloadReq = hal.reloadReq /\ ~k.retry
        /\ Working(k)
  BY <1>0, RetryMcpIs
<1>3. t.mcp = hal.mcp /\ c.mcp = "retrying"
  BY <1>0, RetryMcpIs
<1>4. hal.retry
  BY DEF RetryMcp
<1> HIDE DEF t, c
<1>5. hal.mcp # "reloading" /\ hal.reloadReq = 0
  BY <1>4 DEF Attends, Tidy
<1>6. \A k \in {t, c} : Entries(k, {}) = Entries(hal, {})
  BY <1>2 DEF Entries, SameQueues
<1>7. \A k \in {t, c} : WaitsPref(k, {})
  BY <1>2, <1>6 DEF Attends, WaitsPref, Pending, SamePref, SameFlow
<1>8. \A k \in {t, c} : Tidy(k, {})
  BY <1>2, <1>3, <1>5, <1>6 DEF Attends, Tidy, Opener, SameOuter, SameSession
<1>9. CASE hal.conn = "connected"
  <2>1. Usable(c) /\ Working(c)
    BY <1>2, <1>9 DEF Alive, Usable, SameOuter, SameWish
  <2>2. Attends(EnsureMcp(c), {})
    BY <1>2, <1>3, <1>5, <1>7, <1>8, <2>1, EnsureMcpAttends
  <2>3. SameOuter(c, EnsureMcp(c))
    <3>1. EnsureMcp(c) = RequestMcp(c, "list", "listing")
      BY <1>3 DEF EnsureMcp
    <3>2. "list" \in McpMethod /\ "listing" \in Stage
      BY DEF McpMethod, Stage
    <3> QED BY <2>1, <3>1, <3>2, RequestMcpFrame
  <2>4. SameOuter(hal, EnsureMcp(c))
    BY <1>2, <2>3, OuterTransitive
  <2> QED BY <1>1, <1>9, <2>2, <2>4 DEF SameWire, SameOuter, SameWish
<1>10. CASE hal.conn # "connected"
  <2>1. WaitsMcp(t, {})
    BY <1>2, <1>3, <1>6 DEF Attends, WaitsMcp, Pending
  <2>2. Opens(t, {})
    BY <1>2, <1>10 DEF Opens, SameOuter
  <2> QED BY <1>1, <1>2, <1>7, <1>8, <1>10, <2>1, <2>2 DEF Attends, SameWire, SameOuter, SameWish
<1> QED
  BY <1>9, <1>10

\* A service that was stopped waits for nothing, and the failures of its
\* requests do not make it wait.
Idle(h) == /\ ~h.link /\ h.flow = {} /\ ~h.prefPending /\ h.mcp = "idle"
           /\ h.mcpReq = 0 /\ h.reloadReq = 0 /\ h.sess = 0

LEMMA OnRpcErrorIdle ==
  ASSUME NEW h, Working(h), Idle(h), NEW id \in Ids, NEW m
  PROVE  Idle(OnRpcError(h, id, m))
<1> DEFINE c == NoSession(h, m)
           z == [c EXCEPT !.stored = 0, !.runtime = 0]
           d == Dropped(c, id)
           k == OnRpcError(h, id, m)
<1>1. id # 0
  BY HermesAssumption
<1>2. /\ SameOuter(h, c) /\ SamePref(h, c) /\ SameMcp(h, c) /\ SameFlow(h, c)
      /\ c.sess = IF m \in {"create", "resume"} THEN 0 ELSE h.sess
      /\ Working(c)
  BY NoSessionFrame, NoSessionType
<1>3. Idle(c) /\ c.flow = {}
  BY <1>2 DEF Idle, SameOuter, SameWish, SamePref, SameMcp, SameFlow
<1>4. Idle(z)
  BY <1>2, <1>3 DEF Idle, Working, Hal
<1>5. CreateOrResumeSession(z) = z
  <2>1. z.sess = 0 /\ ~z.link /\ z.stored = 0
    BY <1>2, <1>4 DEF Idle, Working, Hal
  <2> QED BY <2>1 DEF CreateOrResumeSession, Usable
<1>6. Idle(d)
  <2>1. /\ SameOuter(c, d) /\ SamePref(c, d) /\ SameMcp(c, d) /\ SameSession(c, d)
        /\ d.flow = {f \in c.flow : f.id # id}
    BY <1>2, DroppedFrame
  <2> HIDE DEF d
  <2> QED BY <1>3, <2>1 DEF Idle, SameOuter, SameWish, SamePref, SameMcp, SameSession
<1>7. k \in {CreateOrResumeSession(z), d}
  <2>1. id # h.mcpReq /\ id # h.reloadReq
    BY <1>1 DEF Idle
  <2>2. CurrentEntry(c, id, m) = {}
    BY <1>3 DEF CurrentEntry
  <2> QED BY <2>1, <2>2, OnRpcErrorIs
<1> HIDE DEF c, d, z, k
<1>8. Idle(k)
  BY <1>4, <1>5, <1>6, <1>7
<1> QED
  BY <1>8 DEF k

LEMMA RejectAllIdle ==
  ASSUME NEW h, Working(h), Idle(h)
  PROVE  Idle(RejectAll(h)) /\ SameOuter(h, RejectAll(h))
<1> DEFINE n == Len(h.pend)
<1>1. h.pend \in Seq(Entry) /\ n \in Nat
  BY DEF Working, Hal
<1>2. PICK f : Turns(f, h, n) /\ RejectAll(h) = f[n]
  BY <1>1, RejectAllIs
<1> DEFINE S == {k \in Nat : Working(f[k]) /\ Idle(f[k]) /\ SameOuter(h, f[k])}
<1>3. 0 \in S
  <2> DEFINE k == [h EXCEPT !.pend = <<>>]
  <2>1. f[0] = k
    BY <1>2 DEF Turns
  <2>2. <<>> \in Seq(Entry)
    OBVIOUS
  <2>3. Working(k)
    BY <2>2 DEF Working, Hal
  <2>4. Idle(k) /\ SameOuter(h, k)
    BY DEF Working, Hal, Idle, SameOuter, SameWish
  <2> QED BY <2>1, <2>3, <2>4
<1>4. ASSUME NEW j \in 0..(n - 1), j \in S PROVE j + 1 \in S
  <2> DEFINE e == h.pend[j + 1]
  <2>1. j + 1 \in 1..n /\ (j + 1) - 1 = j /\ j + 1 \in Nat
    BY <1>1
  <2>2. f[j + 1] = OnRpcError(f[j], e.id, e.m)
    BY <1>2, <2>1 DEF Turns
  <2>3. Working(f[j]) /\ Idle(f[j]) /\ SameOuter(h, f[j])
    BY <1>4
  <2>4. e.id \in Ids
    <3>1. e \in Entry
      BY <1>1, <2>1
    <3> QED BY <3>1 DEF Entry
  <2> HIDE DEF e
  <2>5. Working(f[j + 1]) /\ Idle(f[j + 1])
    BY <2>2, <2>3, <2>4, OnRpcErrorType, OnRpcErrorIdle
  <2>6. SameOuter(h, f[j + 1])
    BY <2>2, <2>3, OnRpcErrorOuter, OuterTransitive
  <2> QED BY <2>1, <2>5, <2>6
<1>5. n \in S
  <2> HIDE DEF S, n
  <2> QED BY <1>1, <1>3, <1>4, UpTo
<1> HIDE DEF n
<1> QED
  BY <1>2, <1>5

LEMMA StopAttends ==
  ASSUME Sound(hal, {}), Stop
  PROVE  /\ Attends(hal', {}) /\ hal'.conn = "offline" /\ ~hal'.link
         /\ hal'.stale <=> hal.stale \/ LeavesNotes
<1> DEFINE r == Stopping(hal)
           x == RejectAll(r)
           k == SetState(x, "offline")
<1>1. /\ ~r.link /\ (r.stale <=> hal.stale \/ LeavesNotes)
      /\ r.flow = {} /\ ~r.prefPending /\ r.mcp = "idle" /\ r.mcpReq = 0 /\ r.reloadReq = 0
      /\ r.sess = 0 /\ Working(r)
  BY StoppingIs DEF Sound
<1>2. hal' = k
  BY DEF Stop, Stopping
<1>3. Idle(r)
  BY <1>1 DEF Idle
<1> HIDE DEF r
<1>4. Idle(x) /\ SameOuter(r, x) /\ Working(x)
  BY <1>1, <1>3, RejectAllIdle, RejectAllType
<1> HIDE DEF x
<1>5. k.conn = "offline" /\ SameWish(x, k)
  BY <1>4, SetStateOuter DEF Conn
<1>6. Idle(k)
  <2>1. CASE x.conn = "offline"
    BY <1>4, <2>1 DEF SetState
  <2>2. CASE x.conn # "offline"
    <3>1. /\ SameWish(x, k) /\ SamePref(x, k) /\ SameFlow(x, k) /\ k.sess = 0
          /\ k.mcp = (IF x.mcp = "reloading" THEN "degraded" ELSE x.mcp)
          /\ k.reloadReq = (IF x.mcp = "reloading" THEN 0 ELSE x.reloadReq)
          /\ k.mcpReq = x.mcpReq
      BY <1>4, <2>2, DisconnectedIs DEF Conn
    <3> HIDE DEF k
    <3> QED BY <1>4, <3>1 DEF Idle, SameWish, SamePref, SameFlow
  <2> QED BY <2>1, <2>2
<1> HIDE DEF k
<1>7. Attends(k, {})
  BY <1>5, <1>6 DEF Idle, Attends, WaitsPref, WaitsMcp, Tidy, Opens, Registering
<1>8. k.stale <=> hal.stale \/ LeavesNotes
  BY <1>1, <1>4, <1>5 DEF SameOuter, SameWish
<1>9. ~k.link
  BY <1>6 DEF Idle
<1> QED
  BY <1>2, <1>5, <1>7, <1>8, <1>9

LEMMA ConnectToAttends ==
  ASSUME Sound(hal, {}), Attends(hal, {}), ConnectTo
  PROVE  /\ Attends(hal', {}) /\ hal'.conn = "connecting" /\ hal'.link
         /\ hal'.stale <=> hal.stale \/ LeavesNotes
<1> DEFINE b == Dialing(hal)
           k == SetState(b, "connecting")
<1>1. /\ b.conn = hal.conn /\ b.link /\ b.pend = hal.pend
      /\ (b.stale <=> hal.stale \/ LeavesNotes)
      /\ SamePref(hal, b) /\ SameMcp(hal, b) /\ SameSession(hal, b) /\ SameFlow(hal, b)
      /\ Working(b)
  BY DialingIs DEF Sound
<1>2. hal' = k
  BY DEF ConnectTo, Dialing
<1> HIDE DEF b
<1>3. Entries(b, {}) = Entries(hal, {})
  BY <1>1 DEF Entries
<1>4. Attends(b, {})
  <2>1. WaitsPref(b, {})
    BY <1>1, <1>3 DEF Attends, WaitsPref, Pending, SamePref, SameFlow
  <2>2. WaitsMcp(b, {})
    BY <1>1, <1>3 DEF Attends, WaitsMcp, Pending, SameMcp
  <2>3. Tidy(b, {}) /\ Opens(b, {})
    BY <1>1, <1>3 DEF Attends, Tidy, Opens, Opener, SameSession, SameMcp
  <2> QED BY <2>1, <2>2, <2>3 DEF Attends
<1>5. Attends(k, {})
  BY <1>1, <1>4, DisconnectAttends DEF Conn
<1>6. k.conn = "connecting" /\ SameWish(b, k)
  BY <1>1, SetStateOuter DEF Conn
<1> HIDE DEF k
<1> QED
  BY <1>1, <1>2, <1>5, <1>6 DEF SameWish

-----------------------------------------------------------------------------
(* The worker's notifications and the connection they speak of.             *)

LEMMA RejectAllOuter ==
  ASSUME NEW h, Working(h)
  PROVE  SameOuter(h, RejectAll(h))
<1> DEFINE n == Len(h.pend)
<1>1. h.pend \in Seq(Entry) /\ n \in Nat
  BY DEF Working, Hal
<1>2. PICK f : Turns(f, h, n) /\ RejectAll(h) = f[n]
  BY <1>1, RejectAllIs
<1> DEFINE S == {k \in Nat : Working(f[k]) /\ SameOuter(h, f[k])}
<1>3. 0 \in S
  <2> DEFINE k == [h EXCEPT !.pend = <<>>]
  <2>1. f[0] = k
    BY <1>2 DEF Turns
  <2>2. <<>> \in Seq(Entry)
    OBVIOUS
  <2>3. Working(k)
    BY <2>2 DEF Working, Hal
  <2>4. SameOuter(h, k)
    BY DEF Working, Hal, SameOuter, SameWish
  <2> QED BY <2>1, <2>3, <2>4
<1>4. ASSUME NEW j \in 0..(n - 1), j \in S PROVE j + 1 \in S
  <2>1. j + 1 \in 1..n /\ (j + 1) - 1 = j /\ j + 1 \in Nat
    BY <1>1
  <2>2. f[j + 1] = OnRpcError(f[j], h.pend[j + 1].id, h.pend[j + 1].m)
    BY <1>2, <2>1 DEF Turns
  <2>3. Working(f[j]) /\ SameOuter(h, f[j])
    BY <1>4
  <2>4. Working(f[j + 1])
    BY <2>2, <2>3, OnRpcErrorType
  <2>5. SameOuter(h, f[j + 1])
    BY <2>2, <2>3, OnRpcErrorOuter, OuterTransitive
  <2> QED BY <2>1, <2>4, <2>5
<1>5. n \in S
  <2> HIDE DEF S, n
  <2> QED BY <1>1, <1>3, <1>4, UpTo
<1> HIDE DEF n
<1> QED
  BY <1>2, <1>5

\* Once notifications of an earlier worker may be queued, they may be for ever.
LEMMA OnReplyOuter ==
  ASSUME Sound(hal, {}), signals # <<>>, Head(signals).t = "reply"
  PROVE  SameOuter(hal, OnReply(hal, Head(signals)))
<1> DEFINE r == Head(signals)
           k == OnReply(hal, r)
<1>1. SameOuter(hal, hal)
  BY DEF SameOuter, SameWish
<1> SUFFICES ASSUME NEW i \in DOMAIN hal.pend, NEW p, p = [hal EXCEPT !.pend = RemoveAt(@, i)],
                    hal.pend[i].id = r.id,
                    k = IF r.v = "error" THEN OnRpcError(p, r.id, hal.pend[i].m)
                        ELSE OnRpcResult(p, r.id, hal.pend[i].m, r.v, r.s)
             PROVE  SameOuter(hal, k)
  BY <1>1, OnReplyIs
<1> DEFINE e == hal.pend[i]
<1>2. Working(p) /\ SameOuter(hal, p)
  <2>1. Sound(p, {e}) /\ SameOuter(hal, p)
    BY TakenSound
  <2> QED BY <2>1 DEF Sound
<1>3. /\ e.m \in Method /\ r.v \in Verdicts(e.m) /\ r.s \in Session0
  BY AnswerIs
<1>4. k = IF r.v = "error" THEN OnRpcError(p, r.id, e.m) ELSE OnRpcResult(p, r.id, e.m, r.v, r.s)
  OBVIOUS
<1> HIDE DEF e, k, r
<1>5. SameOuter(p, OnRpcError(p, r.id, e.m))
  BY <1>2, OnRpcErrorOuter
<1>6. r.v # "error" => SameOuter(p, OnRpcResult(p, r.id, e.m, r.v, r.s))
  BY <1>2, <1>3, OnRpcResultOuter
<1>7. SameOuter(p, k)
  BY <1>4, <1>5, <1>6
<1> QED
  BY <1>2, <1>7, OuterTransitive

LEMMA StaleStays ==
  ASSUME Sound(hal, {}), Handles
  PROVE  hal.stale => hal'.stale
<1>0. Working(hal)
  BY DEF Sound
<1>1. CASE Start \/ Reconnect
  <2> DEFINE b == Dialing(hal)
  <2>1. Working(b) /\ (hal.stale => b.stale)
    BY <1>0, DialingIs
  <2>2. hal' = SetState(b, "connecting")
    BY <1>1 DEF Start, Reconnect, ConnectTo, Dialing
  <2> HIDE DEF b
  <2> QED BY <2>1, <2>2, SetStateOuter DEF Conn, SameWish
<1>2. CASE Stop
  <2> DEFINE r == Stopping(hal)
  <2>1. Working(r) /\ (hal.stale => r.stale)
    BY <1>0, StoppingIs
  <2>2. hal' = SetState(RejectAll(r), "offline")
    BY <1>2 DEF Stop, Stopping
  <2> HIDE DEF r
  <2>3. Working(RejectAll(r)) /\ SameOuter(r, RejectAll(r))
    BY <2>1, RejectAllType, RejectAllOuter
  <2> QED BY <2>1, <2>2, <2>3, SetStateOuter DEF Conn, SameOuter, SameWish
<1>3. CASE Cancel
  BY <1>0, <1>3, UndeliveredFrame DEF Cancel, SameOuter, SameWish
<1>4. ASSUME NEW p \in Prompt, Submit(p) PROVE hal.stale => hal'.stale
  BY <1>0, <1>4, SendPromptFrame DEF Submit, SameOuter, SameWish
<1>5. ASSUME NEW m \in Model, SwitchModel(m) PROVE hal.stale => hal'.stale
  <2> DEFINE b == [hal EXCEPT !.desired = m, !.persist = TRUE, !.chosen = @ \cup {m}]
  <2>1. Working(b) /\ b.stale = hal.stale
    BY <1>0 DEF Working, Hal
  <2>2. hal' = BeginPreferences(b)
    BY <1>5 DEF SwitchModel
  <2> HIDE DEF b
  <2> QED BY <2>1, <2>2, BeginPreferencesFrame DEF SameOuter, SameWish
<1>6. ASSUME NEW m \in Model, NEW b \in BOOLEAN, EnsureRoute(m, b) PROVE hal.stale => hal'.stale
  <2> DEFINE r == Chosen(hal, m, b)
  <2>1. Working(r) /\ r.stale = hal.stale
    BY <1>0, ChosenIs
  <2>2. hal' = (IF CanSet THEN BeginPreferences(r) ELSE r)
    BY <1>6 DEF EnsureRoute, Chosen
  <2> HIDE DEF r
  <2>3. SameOuter(r, BeginPreferences(r))
    BY <2>1, BeginPreferencesFrame
  <2> QED BY <2>1, <2>2, <2>3 DEF SameOuter, SameWish
<1>7. ASSUME NEW b \in BOOLEAN, SetReasoning(b) PROVE hal.stale => hal'.stale
  <2> DEFINE g == NextGeneration(hal)
  <2>1. Working(g) /\ SameOuter(hal, g)
    BY <1>0, NextGenerationFrame, NextGenerationType
  <2>2. hal' = IF b THEN BeginPreferences(hal) ELSE FailPreferences(g)
    BY <1>7 DEF SetReasoning
  <2> HIDE DEF g
  <2>3. SameOuter(hal, BeginPreferences(hal)) /\ SameOuter(g, FailPreferences(g))
    BY <1>0, <2>1, BeginPreferencesFrame, FailPreferencesFrame
  <2> QED BY <2>1, <2>2, <2>3 DEF SameOuter, SameWish
<1>8. CASE Deliver
  <2> DEFINE e == Head(signals)
  <2>1. signals \in Seq(Signal) /\ signals # <<>>
    BY <1>8 DEF Sound, Working, Deliver
  <2>2. e \in Signal
    BY <2>1
  <2>3. hal' = CASE e.t = "state" -> OnTransportState(hal, e.v)
                 [] e.t = "error" -> OnTransportError(hal)
                 [] e.t = "reply" -> OnReply(hal, e)
    BY <1>8 DEF Deliver
  <2>4. CASE e.t = "state"
    <3>1. e.v \in Conn
      BY <2>2, <2>4 DEF Signal, Note, Fault, Reply
    <3>2. Working(RejectAll(hal)) /\ SameOuter(hal, RejectAll(hal))
      BY <1>0, RejectAllType, RejectAllOuter
    <3>3. hal.stale => SetState(RejectAll(hal), e.v).stale
      BY <3>1, <3>2, SetStateOuter DEF SameOuter, SameWish
    <3>4. hal.stale => SetState(hal, e.v).stale
      BY <1>0, <3>1, SetStateOuter DEF SameWish
    <3>5. hal' \in {SetState(RejectAll(hal), e.v), SetState(hal, e.v)}
      BY <2>3, <2>4 DEF OnTransportState
    <3> QED BY <3>3, <3>4, <3>5
  <2>5. CASE e.t = "error"
    <3>1. hal.stale => SetState(hal, "error").stale
      BY <1>0, SetStateOuter DEF Conn, SameWish
    <3>2. hal' \in {hal, SetState(hal, "error")}
      BY <2>3, <2>5 DEF OnTransportError
    <3> QED BY <3>1, <3>2
  <2>6. CASE e.t = "reply"
    <3>1. hal' = OnReply(hal, e)
      BY <2>3, <2>6
    <3>2. SameOuter(hal, OnReply(hal, e))
      BY <2>1, <2>6, OnReplyOuter
    <3> QED BY <3>1, <3>2 DEF SameOuter, SameWish
  <2> QED BY <2>2, <2>4, <2>5, <2>6 DEF Signal, Note, Fault, Reply
<1>9. CASE RetryMcp
  <2> DEFINE c == IF hal.conn = "connected" THEN Retrying(hal) ELSE Tired(hal)
  <2>1. hal' = IF hal.conn = "connected" THEN EnsureMcp(c) ELSE c
    BY <1>0, <1>9, RetryMcpIs DEF RetryMcp, Tired
  <2>2. Working(c) /\ SameOuter(hal, c)
    BY <1>0, RetryMcpIs
  <2> HIDE DEF c
  <2>3. SameOuter(c, EnsureMcp(c)) \/ EnsureMcp(c) = c
    BY <2>2, RequestMcpFrame DEF EnsureMcp, McpMethod, Stage
  <2> QED BY <2>1, <2>2, <2>3 DEF SameOuter, SameWish
<1>10. ASSUME NEW i \in DOMAIN hal.pend, Timeout(i) PROVE hal.stale => hal'.stale
  <2> DEFINE e == hal.pend[i]
             p == [hal EXCEPT !.pend = RemoveAt(@, i)]
  <2>1. Sound(p, {e}) /\ SameOuter(hal, p)
    BY TakenSound
  <2>2. hal' = OnRpcError(p, e.id, e.m)
    BY <1>10 DEF Timeout
  <2> HIDE DEF p, e
  <2>3. SameOuter(p, hal')
    BY <2>1, <2>2, OnRpcErrorOuter DEF Sound
  <2> QED BY <2>1, <2>3 DEF SameOuter, SameWish
<1> QED
  BY <1>1, <1>2, <1>3, <1>4, <1>5, <1>6, <1>7, <1>8, <1>9, <1>10 DEF Handles

\* With the first n notifications handled, the client takes itself for
\* connected: nothing but answers came after the worker's announcement, or
\* after now if the client is connected already.
Up(sig, conn, n) ==
  \E j \in 0..n : /\ IF j = 0 THEN conn = "connected" ELSE sig[j] = Note("connected")
                  /\ \A k \in (j + 1)..n : sig[k].t = "reply"

\* As long as no worker was stopped with notifications queued, the queue tells
\* what became of the current one.
Informed ==
  /\ late = "no"
  /\ sock = "open" <=> Up(signals, hal.conn, Len(signals))
  /\ sock = "none" <=> ~hal.link
  /\ sock = "none" => hal.conn # "connected" /\ \A i \in DOMAIN signals : signals[i] = Note("offline")
  /\ \A i \in DOMAIN signals : signals[i].t = "reply" => Up(signals, hal.conn, i - 1)

LEMMA UpPrefix ==
  ASSUME NEW s, NEW t, NEW c, NEW n \in Nat, \A i \in 1..n : s[i] = t[i]
  PROVE  Up(s, c, n) <=> Up(t, c, n)
<1>1. \A j \in 0..n : j # 0 => s[j] = t[j]
  OBVIOUS
<1>2. \A j \in 0..n : \A k \in (j + 1)..n : s[k] = t[k]
  OBVIOUS
<1> QED
  BY <1>1, <1>2 DEF Up

LEMMA UpLast ==
  ASSUME NEW s, NEW c, NEW n \in Nat, n # 0
  PROVE  /\ s[n] = Note("connected") => Up(s, c, n)
         /\ s[n].t = "reply" /\ Up(s, c, n - 1) => Up(s, c, n)
         /\ Up(s, c, n) => s[n] = Note("connected") \/ s[n].t = "reply"
<1>1. ASSUME s[n] = Note("connected") PROVE Up(s, c, n)
  <2>1. n \in 0..n /\ (n + 1)..n = {}
    OBVIOUS
  <2> QED BY <1>1, <2>1 DEF Up
<1>2. ASSUME s[n].t = "reply", Up(s, c, n - 1) PROVE Up(s, c, n)
  <2>1. PICK j \in 0..(n - 1) : /\ IF j = 0 THEN c = "connected" ELSE s[j] = Note("connected")
                                /\ \A k \in (j + 1)..(n - 1) : s[k].t = "reply"
    BY <1>2 DEF Up
  <2>2. j \in 0..n /\ \A k \in (j + 1)..n : k = n \/ k \in (j + 1)..(n - 1)
    OBVIOUS
  <2>3. \A k \in (j + 1)..n : s[k].t = "reply"
    BY <1>2, <2>1, <2>2
  <2> QED BY <2>1, <2>2, <2>3 DEF Up
<1>3. ASSUME Up(s, c, n) PROVE s[n] = Note("connected") \/ s[n].t = "reply"
  <2>1. PICK j \in 0..n : /\ IF j = 0 THEN c = "connected" ELSE s[j] = Note("connected")
                          /\ \A k \in (j + 1)..n : s[k].t = "reply"
    BY <1>3 DEF Up
  <2>2. j # n => n \in (j + 1)..n
    OBVIOUS
  <2> QED BY <2>1, <2>2
<1> QED
  BY <1>1, <1>2, <1>3

LEMMA UpNow ==
  ASSUME NEW s, NEW c
  PROVE  Up(s, c, 0) <=> c = "connected"
<1>1. 0..0 = {0} /\ (0 + 1)..0 = {}
  OBVIOUS
<1> QED
  BY <1>1 DEF Up

\* Handling the first notification moves the rest up.
LEMMA UpTail ==
  ASSUME NEW s \in Seq(Signal), s # <<>>, NEW n \in 1..Len(s), NEW c, NEW d,
         d = "connected" <=> s[1] = Note("connected") \/ (s[1].t = "reply" /\ c = "connected")
  PROVE  Up(s, c, n) <=> Up(Tail(s), d, n - 1)
<1> DEFINE t == Tail(s)
<1>1. \A i \in 1..(n - 1) : t[i] = s[i + 1]
  OBVIOUS
<1>2. ASSUME Up(s, c, n) PROVE Up(t, d, n - 1)
  <2>1. PICK j \in 0..n : /\ IF j = 0 THEN c = "connected" ELSE s[j] = Note("connected")
                          /\ \A k \in (j + 1)..n : s[k].t = "reply"
    BY <1>2 DEF Up
  <2>2. CASE j = 0
    <3>1. s[1].t = "reply" /\ d = "connected"
      BY <2>1, <2>2
    <3>2. 0 \in 0..(n - 1) /\ \A k \in (0 + 1)..(n - 1) : t[k].t = "reply"
      BY <1>1, <2>1, <2>2
    <3> QED BY <3>1, <3>2 DEF Up
  <2>3. CASE j # 0
    <3>1. j - 1 \in 0..(n - 1)
      BY <2>3
    <3>2. \A k \in ((j - 1) + 1)..(n - 1) : t[k].t = "reply"
      BY <1>1, <2>1, <2>3
    <3>3. IF j - 1 = 0 THEN d = "connected" ELSE t[j - 1] = Note("connected")
      BY <1>1, <2>1, <2>3
    <3> QED BY <3>1, <3>2, <3>3 DEF Up
  <2> QED BY <2>2, <2>3
<1>3. ASSUME Up(t, d, n - 1) PROVE Up(s, c, n)
  <2>1. PICK j \in 0..(n - 1) : /\ IF j = 0 THEN d = "connected" ELSE t[j] = Note("connected")
                                /\ \A k \in (j + 1)..(n - 1) : t[k].t = "reply"
    BY <1>3 DEF Up
  <2>2. \A k \in ((j + 1) + 1)..n : s[k].t = "reply"
    <3>1. ASSUME NEW k \in ((j + 1) + 1)..n PROVE s[k].t = "reply"
      <4>1. k - 1 \in (j + 1)..(n - 1) /\ (k - 1) + 1 = k /\ k - 1 \in 1..(n - 1)
        OBVIOUS
      <4> QED BY <1>1, <2>1, <4>1
    <3> QED BY <3>1
  <2>3. j + 1 \in 0..n /\ j + 1 # 0
    OBVIOUS
  <2>4. CASE s[j + 1] = Note("connected")
    BY <2>2, <2>3, <2>4 DEF Up
  <2>5. CASE s[j + 1] # Note("connected")
    <3>1. j = 0
      BY <1>1, <2>1, <2>5
    <3>2. s[1].t = "reply" /\ c = "connected"
      BY <2>1, <2>5, <3>1
    <3>3. \A k \in (0 + 1)..n : s[k].t = "reply"
      BY <2>2, <3>1, <3>2
    <3> QED BY <3>2, <3>3 DEF Up
  <2> QED BY <2>4, <2>5
<1> HIDE DEF t
<1> QED
  BY <1>2, <1>3 DEF t

\* Steps that leave the connection and the queue alone.
LEMMA QuietInformed ==
  ASSUME Informed, SameWire(hal, hal'), signals' = signals, sock' = sock, late' = late
  PROVE  Informed'
BY DEF Informed, SameWire

\* A queue without answers, whose last notification announces no connection.
LEMMA DownInformed ==
  ASSUME signals' \in Seq(Signal), signals' # <<>>, late' = "no",
         \A i \in DOMAIN signals' : signals'[i].t # "reply",
         signals'[Len(signals')] # Note("connected"), sock' # "open", sock' = "none" <=> ~hal'.link,
         sock' = "none" => /\ hal'.conn # "connected"
                           /\ \A i \in DOMAIN signals' : signals'[i] = Note("offline")
  PROVE  Informed'
<1> DEFINE n == Len(signals')
<1>1. n \in Nat /\ n # 0 /\ n \in DOMAIN signals'
  OBVIOUS
<1>2. ~Up(signals', hal'.conn, n)
  BY <1>1, UpLast
<1> QED
  BY <1>2 DEF Informed

LEMMA HeardInformed ==
  ASSUME Informed, signals \in Seq(Signal), signals # <<>>, signals' = Tail(signals),
         sock' = sock, late' = late, hal'.link = hal.link,
         hal'.conn = "connected" <=> signals[1] = Note("connected")
                                     \/ (signals[1].t = "reply" /\ hal.conn = "connected")
  PROVE  Informed'
<1> DEFINE n == Len(signals)
           t == Tail(signals)
<1>1. n \in Nat /\ n # 0 /\ Len(t) = n - 1 /\ \A i \in 1..(n - 1) : t[i] = signals[i + 1]
  OBVIOUS
<1>2. \A i \in 1..n : Up(signals, hal.conn, i) <=> Up(t, hal'.conn, i - 1)
  BY UpTail
<1>3. sock = "open" <=> Up(t, hal'.conn, n - 1)
  BY <1>1, <1>2 DEF Informed
<1>4. ASSUME NEW i \in 1..(n - 1), t[i].t = "reply" PROVE Up(t, hal'.conn, i - 1)
  <2>1. i + 1 \in 1..n /\ (i + 1) - 1 = i /\ i \in 1..n /\ i + 1 \in DOMAIN signals
    BY <1>1
  <2>2. Up(signals, hal.conn, i)
    BY <1>1, <1>4, <2>1 DEF Informed
  <2> QED BY <1>2, <2>1, <2>2
<1>5. ASSUME sock = "none"
      PROVE  hal'.conn # "connected" /\ \A i \in 1..(n - 1) : t[i] = Note("offline")
  <2>1. \A i \in DOMAIN signals : signals[i] = Note("offline")
    BY <1>5 DEF Informed
  <2>2. signals[1] = Note("offline")
    BY <1>1, <2>1
  <2>3. signals[1] # Note("connected") /\ signals[1].t # "reply"
    BY <2>2 DEF Note
  <2> QED BY <1>1, <2>1, <2>3
<1>6. DOMAIN t = 1..(n - 1)
  BY <1>1
<1> QED
  BY <1>1, <1>3, <1>4, <1>5, <1>6 DEF Informed

LEMMA DeliverAttends ==
  ASSUME Sound(hal, {}), Informed, Attends(hal, {}), Deliver
  PROVE  Informed' /\ Attends(hal', {})
<1> DEFINE e == Head(signals)
<1>1. /\ signals \in Seq(Signal) /\ signals # <<>> /\ signals' = Tail(signals)
      /\ sock' = sock /\ late' = late
  BY DEF Sound, Working, Deliver
<1>2. e \in Signal /\ e = signals[1] /\ 1 \in DOMAIN signals
  BY <1>1
<1>3. hal' = CASE e.t = "state" -> OnTransportState(hal, e.v)
               [] e.t = "error" -> OnTransportError(hal)
               [] e.t = "reply" -> OnReply(hal, e)
  BY DEF Deliver
<1>4. Alive(hal)
  BY DEF Informed, Alive
<1>5. CASE e.t = "state"
  <2>1. e.v \in Conn /\ (e.v = "connected" <=> e = Note("connected"))
    BY <1>2, <1>5 DEF Signal, Note, Fault, Reply
  <2>2. hal' = OnTransportState(hal, e.v)
    BY <1>3, <1>5
  <2>3. e.v = "connected" => hal.link
    <3>1. ~hal.link => e = Note("offline")
      BY <1>2 DEF Informed
    <3> QED BY <2>1, <3>1 DEF Note
  <2>4. Attends(hal', {}) /\ hal'.conn = e.v /\ hal'.link = hal.link
    BY <1>4, <2>1, <2>2, <2>3, OnTransportStateAttends
  <2>5. hal'.conn = "connected" <=> signals[1] = Note("connected")
                                    \/ (signals[1].t = "reply" /\ hal.conn = "connected")
    BY <1>2, <1>5, <2>1, <2>4
  <2> HIDE DEF e
  <2> QED BY <1>1, <2>4, <2>5, HeardInformed
<1>6. CASE e.t = "error"
  <2>1. e # Note("connected")
    BY <1>6 DEF Note
  <2>2. hal' = OnTransportError(hal)
    BY <1>3, <1>6
  <2>3. Attends(hal', {}) /\ hal'.conn \in {"reconnecting", "error"} /\ hal'.link = hal.link
    BY <1>4, <2>2, OnTransportErrorAttends
  <2>4. hal'.conn = "connected" <=> signals[1] = Note("connected")
                                    \/ (signals[1].t = "reply" /\ hal.conn = "connected")
    BY <1>2, <1>6, <2>1, <2>3
  <2> HIDE DEF e
  <2> QED BY <1>1, <2>3, <2>4, HeardInformed
<1>7. CASE e.t = "reply"
  <2>1. e # Note("connected")
    BY <1>7 DEF Note
  <2>2. hal.conn = "connected"
    <3>1. Up(signals, hal.conn, 1 - 1)
      BY <1>2, <1>7 DEF Informed
    <3> QED BY <3>1, UpNow
  <2>3. hal' = OnReply(hal, e) /\ Usable(hal)
    BY <1>3, <1>4, <1>7, <2>2 DEF Usable, Alive
  <2>4. Attends(hal', {}) /\ SameOuter(hal, hal')
    BY <1>1, <1>7, <2>3, OnReplyAttends
  <2>5. hal'.conn = "connected" <=> signals[1] = Note("connected")
                                    \/ (signals[1].t = "reply" /\ hal.conn = "connected")
    BY <1>2, <1>7, <2>2, <2>4 DEF SameOuter
  <2>6. hal'.link = hal.link
    BY <2>4 DEF SameOuter, SameWish
  <2> HIDE DEF e
  <2> QED BY <1>1, <2>4, <2>5, <2>6, HeardInformed
<1> QED
  BY <1>2, <1>5, <1>6, <1>7 DEF Signal, Note, Fault, Reply

\* A worker stopped while nothing is queued says that it is gone, and no more.
LEMMA StopWorkerIs ==
  ASSUME Sound(hal, {}), Informed, ~LeavesNotes, NEW tail, StopWorker(tail)
  PROVE  /\ late' = "no"
         /\ sock = "none" => signals' = signals \o tail
         /\ sock # "none" => signals' = <<Note("offline")>> \o tail
<1>1. late = "no"
  BY DEF Informed
<1>2. CASE sock = "none"
  BY <1>1, <1>2 DEF StopWorker
<1>3. CASE sock # "none"
  <2>1. signals = <<>> /\ ~(sock = "dialing" /\ SlowDial)
    BY <1>3 DEF LeavesNotes
  <2>2. late' = "no" /\ \E kept \in Kept : signals' = kept \o <<Note("offline")>> \o tail
    BY <1>1, <1>3, <2>1 DEF StopWorker
  <2>3. Kept \subseteq {<<>>}
    <3>1. Len(signals) = 0
      BY <2>1
    <3>2. \A k \in 0..Len(signals) : SubSeq(signals, 1, k) = <<>>
      BY <2>1, <3>1
    <3> QED BY <3>2 DEF Kept
  <2>4. <<>> \o <<Note("offline")>> = <<Note("offline")>>
    OBVIOUS
  <2> QED BY <1>3, <2>2, <2>3, <2>4
<1> QED
  BY <1>2, <1>3

LEMMA ConnectToInformed ==
  ASSUME Sound(hal, {}), Informed, Attends(hal, {}), ConnectTo, ~hal'.stale
  PROVE  Informed' /\ Attends(hal', {})
<1> DEFINE s == IF sock = "none" THEN signals ELSE <<Note("offline")>>
<1>1. Attends(hal', {}) /\ hal'.conn = "connecting" /\ hal'.link /\ ~LeavesNotes
  BY ConnectToAttends
<1>2. late' = "no" /\ signals' = s \o <<Note("connecting")>>
  BY <1>1, StopWorkerIs DEF ConnectTo
<1>3. sock' = "dialing"
  BY DEF ConnectTo
<1>4. signals \in Seq(Signal) /\ Note("offline") \in Signal /\ Note("connecting") \in Signal
  BY DEF Sound, Working, Signal, Conn
<1>5. s \in Seq(Signal) /\ \A i \in DOMAIN s : s[i] = Note("offline")
  <2>1. CASE sock = "none"
    BY <1>4, <2>1 DEF Informed
  <2>2. CASE sock # "none"
    BY <1>4, <2>2
  <2> QED BY <2>1, <2>2
<1> HIDE DEF s
<1>6. signals' = Append(s, Note("connecting"))
  BY <1>2, <1>4, <1>5
<1>7. /\ signals' \in Seq(Signal) /\ Len(signals') = Len(s) + 1 /\ signals' # <<>>
      /\ signals'[Len(s) + 1] = Note("connecting")
      /\ \A i \in DOMAIN signals' : signals'[i] \in {Note("offline"), Note("connecting")}
  BY <1>4, <1>5, <1>6
<1>8. /\ Note("connecting") # Note("connected") /\ Note("offline").t # "reply"
      /\ Note("connecting").t # "reply"
  BY DEF Note
<1>9. \A i \in DOMAIN signals' : signals'[i].t # "reply"
  BY <1>7, <1>8
<1>10. Informed'
  BY <1>1, <1>2, <1>3, <1>7, <1>8, <1>9, DownInformed
<1> QED
  BY <1>1, <1>10

LEMMA StopInformed ==
  ASSUME Sound(hal, {}), Informed, Stop, ~hal'.stale
  PROVE  Informed' /\ Attends(hal', {})
<1>1. Attends(hal', {}) /\ hal'.conn = "offline" /\ ~hal'.link /\ ~LeavesNotes
  BY StopAttends
<1>2. sock # "none" /\ sock' = "none"
  BY DEF Informed, Stop
<1>3. late' = "no" /\ signals' = <<Note("offline")>> \o <<>>
  BY <1>1, <1>2, StopWorkerIs DEF Stop
<1>4. signals' = <<Note("offline")>>
  BY <1>3
<1>5. Note("offline") \in Signal /\ Note("offline").t # "reply" /\ Note("offline") # Note("connected")
  BY DEF Signal, Conn, Note
<1>6. /\ signals' \in Seq(Signal) /\ signals' # <<>> /\ signals'[Len(signals')] = Note("offline")
      /\ \A i \in DOMAIN signals' : signals'[i] = Note("offline")
  BY <1>4, <1>5
<1>7. Informed'
  BY <1>1, <1>2, <1>3, <1>5, <1>6, DownInformed
<1> QED
  BY <1>1, <1>7

\* The worker ends a dial or a socket and says so.
LEMMA TellInformed ==
  ASSUME Informed, hal' = hal, late' = late, sock # "none", sock' # "none",
         NEW s \in Seq(Signal), \A i \in 1..Len(s) : i \in DOMAIN signals /\ s[i] = signals[i],
         NEW tail \in Seq(Notices), tail # <<>>, signals' = s \o tail,
         sock' = "open" <=> tail[Len(tail)] = Note("connected")
  PROVE  Informed'
<1> DEFINE m == Len(s)
           n == Len(tail)
<1>1. Notices \subseteq Signal /\ \A x \in Notices : x.t # "reply"
  BY DEF Notices, Signal, Note, Fault
<1>2. tail \in Seq(Signal) /\ n \in Nat /\ n # 0 /\ m \in Nat
  BY <1>1
<1>3. /\ signals' \in Seq(Signal) /\ Len(signals') = m + n
      /\ \A i \in 1..(m + n) : signals'[i] = IF i <= m THEN s[i] ELSE tail[i - m]
  BY <1>2, ConcatProperties
<1>4. signals'[m + n] = tail[n] /\ tail[n] \in Notices
  BY <1>2, <1>3
<1>5. sock' = "open" <=> Up(signals', hal.conn, m + n)
  <2> DEFINE q == m + n
  <2>1. q \in Nat /\ q # 0
    BY <1>2
  <2>2. signals'[q] = tail[n] /\ signals'[q].t # "reply"
    BY <1>1, <1>4
  <2>3. sock' = "open" <=> signals'[q] = Note("connected")
    BY <2>2
  <2> HIDE DEF q
  <2>4. Up(signals', hal.conn, q) <=> signals'[q] = Note("connected")
    BY <2>1, <2>2, UpLast
  <2>5. sock' = "open" <=> Up(signals', hal.conn, q)
    BY <2>3, <2>4
  <2> QED BY <2>5 DEF q
<1>6. ASSUME NEW i \in 1..(m + n), signals'[i].t = "reply"
      PROVE  Up(signals', hal.conn, i - 1)
  <2>1. CASE i <= m
    <3>1. i \in DOMAIN signals /\ signals[i].t = "reply"
      BY <1>2, <1>3, <1>6, <2>1
    <3>2. Up(signals, hal.conn, i - 1)
      BY <3>1 DEF Informed
    <3>3. \A j \in 1..(i - 1) : signals[j] = signals'[j]
      BY <1>2, <1>3, <2>1
    <3>4. i - 1 \in Nat
      BY <1>2
    <3> QED BY <3>2, <3>3, <3>4, UpPrefix
  <2>2. CASE ~(i <= m)
    <3>1. i - m \in 1..n /\ signals'[i] = tail[i - m]
      BY <1>2, <1>3, <2>2
    <3> QED BY <1>1, <1>6, <3>1
  <2> QED BY <2>1, <2>2
<1>7. DOMAIN signals' = 1..(m + n)
  BY <1>3
<1> HIDE DEF m, n
<1> QED
  BY <1>3, <1>5, <1>6, <1>7 DEF Informed

LEMMA CallsInformed ==
  ASSUME Sound(hal, {}), Informed, Calls
  PROVE  Informed' /\ hal' = hal
<1>0. signals \in Seq(Signal) /\ \A i \in 1..Len(signals) : i \in DOMAIN signals
  BY DEF Sound, Working
<1>1. hal' = hal
  BY DEF Calls, Dialed, DialFails, SocketDrops, LateDial, LateClose
<1>2. /\ \A v \in Conn : Note(v) \in Notices
      /\ Fault \in Notices /\ Note("reconnecting") # Note("connected")
  BY DEF Notices, Note
<1>3. CASE Dialed
  <2> DEFINE tail == <<Note("connected")>>
  <2>1. tail \in Seq(Notices) /\ tail # <<>> /\ tail[Len(tail)] = Note("connected")
    BY <1>2 DEF Conn
  <2>2. signals' = signals \o tail /\ sock = "dialing" /\ sock' = "open" /\ late' = late
    BY <1>0, <1>3 DEF Dialed
  <2> HIDE DEF tail
  <2> QED BY <1>0, <1>1, <2>1, <2>2, TellInformed
<1>4. CASE DialFails
  <2> DEFINE tail == <<Fault, Note("reconnecting")>>
  <2>1. tail \in Seq(Notices) /\ tail # <<>> /\ tail[Len(tail)] = Note("reconnecting")
    BY <1>2 DEF Conn
  <2>2. signals' = signals \o tail /\ sock = "dialing" /\ sock' = sock /\ late' = late
    BY <1>4 DEF DialFails
  <2> HIDE DEF tail
  <2> QED BY <1>0, <1>1, <1>2, <2>1, <2>2, TellInformed
<1>5. ASSUME NEW b \in BOOLEAN, SocketDrops(b) PROVE Informed'
  <2> DEFINE cry == IF b THEN <<Fault>> ELSE <<>>
             tail == cry \o <<Note("reconnecting")>>
  <2>1. PICK kept \in Kept : signals' = kept \o cry \o <<Note("reconnecting")>>
    BY <1>5 DEF SocketDrops
  <2>2. sock = "open" /\ sock' = "dialing" /\ late' = late
    BY <1>5 DEF SocketDrops
  <2>3. PICK k \in 0..Len(signals) : kept = SubSeq(signals, 1, k)
    BY DEF Kept
  <2>4. kept \in Seq(Signal) /\ Len(kept) = k /\ \A i \in 1..k : kept[i] = signals[i]
    <3>1. \A i \in 1..k : signals[i] \in Signal
      BY <1>0, <2>3
    <3>2. k \in Int /\ 0 <= k
      BY <1>0, <2>3
    <3> QED BY <2>3, <3>1, <3>2, SubSeqProperties
  <2>5. \A i \in 1..Len(kept) : i \in DOMAIN signals /\ kept[i] = signals[i]
    BY <1>0, <2>3, <2>4
  <2>6. cry \in Seq(Notices) /\ <<Note("reconnecting")>> \in Seq(Notices)
    BY <1>2 DEF Conn
  <2>7. tail \in Seq(Notices) /\ tail # <<>> /\ tail[Len(tail)] = Note("reconnecting")
    BY <1>2 DEF Conn
  <2>8. signals' = kept \o tail
    <3>1. Notices \subseteq Signal
      BY DEF Notices, Signal
    <3>2. cry \in Seq(Signal) /\ <<Note("reconnecting")>> \in Seq(Signal)
      BY <2>6, <3>1
    <3> HIDE DEF cry
    <3> QED BY <2>1, <2>4, <3>2, ConcatAssociative
  <2> HIDE DEF tail, cry
  <2> QED BY <1>1, <1>2, <2>2, <2>4, <2>5, <2>7, <2>8, TellInformed
<1>6. late = "no"
  BY DEF Informed
<1>7. ~(\E b \in BOOLEAN : LateDial(b)) /\ ~LateClose
  BY <1>6 DEF LateDial, LateClose
<1> QED
  BY <1>1, <1>3, <1>4, <1>5, <1>7 DEF Calls

LEMMA ServeInformed ==
  ASSUME Sound(hal, {}), Informed, Attends(hal, {}), NEW v \in Verdict, Serve(v)
  PROVE  Informed' /\ Attends(hal', {})
<1> DEFINE f == Head(hal.out)
           r == [t |-> "reply", v |-> v, id |-> f.id, s |-> SessionOf(f)]
           n == Len(signals)
<1>1. /\ hal' = [hal EXCEPT !.out = Tail(@)] /\ signals' = Append(signals, r)
      /\ sock = "open" /\ sock' = sock /\ late' = late
  BY DEF Serve
<1>2. /\ SameOuter(hal, hal') /\ SamePref(hal, hal') /\ SameMcp(hal, hal')
      /\ SameSession(hal, hal') /\ SameFlow(hal, hal') /\ hal'.pend = hal.pend
  BY <1>1 DEF Sound, Working, Hal, SameOuter, SameWish, SamePref, SameMcp, SameSession, SameFlow
<1>3. Entries(hal', {}) = Entries(hal, {})
  BY <1>2 DEF Entries
<1>4. Attends(hal', {})
  BY <1>2, <1>3, MovedAttends
<1>5. r.t = "reply"
  OBVIOUS
<1> HIDE DEF r
<1>6. signals \in Seq(Signal) /\ n \in Nat
  BY DEF Sound, Working
<1>7. /\ Len(signals') = n + 1 /\ signals'[n + 1] = r /\ DOMAIN signals' = 1..(n + 1)
      /\ \A i \in 1..n : signals'[i] = signals[i]
  BY <1>1, <1>6
<1>8. Up(signals', hal.conn, n)
  <2>1. Up(signals, hal.conn, n)
    BY <1>1 DEF Informed
  <2> QED BY <1>6, <1>7, <2>1, UpPrefix
<1>9. Up(signals', hal.conn, n + 1)
  BY <1>5, <1>6, <1>7, <1>8, UpLast
<1>10. ASSUME NEW i \in 1..(n + 1), signals'[i].t = "reply" PROVE Up(signals', hal.conn, i - 1)
  <2>1. CASE i = n + 1
    BY <1>6, <1>8, <2>1
  <2>2. CASE i # n + 1
    <3>1. i \in 1..n /\ i \in DOMAIN signals
      BY <1>6, <2>2
    <3>2. Up(signals, hal.conn, i - 1)
      BY <1>7, <1>10, <3>1 DEF Informed
    <3>3. \A j \in 1..(i - 1) : signals[j] = signals'[j]
      BY <1>6, <1>7, <3>1
    <3> QED BY <3>1, <3>2, <3>3, UpPrefix
  <2> QED BY <2>1, <2>2
<1>11. hal'.conn = hal.conn /\ hal'.link = hal.link
  BY <1>2 DEF SameOuter, SameWish
<1> HIDE DEF n
<1>12. Informed'
  BY <1>1, <1>7, <1>9, <1>10, <1>11 DEF Informed
<1> QED
  BY <1>4, <1>12

\* The inductive invariant of the waits.
Steady == Orderly /\ (~hal.stale => Informed /\ Attends(hal, {}))

LEMMA InitSteady ==
  ASSUME Unbounded, Init
  PROVE  Steady
<1>1. /\ hal.conn = "offline" /\ ~hal.link /\ ~hal.prefPending /\ hal.mcp = "idle"
      /\ hal.reloadReq = 0 /\ hal.sess = 0 /\ signals = <<>> /\ sock = "none" /\ late = "no"
  BY DEF Init
<1>2. Attends(hal, {})
  BY <1>1 DEF Attends, WaitsPref, WaitsMcp, Tidy, Opens, Registering
<1>3. Informed
  <2>1. Len(signals) = 0 /\ DOMAIN signals = {}
    BY <1>1
  <2>2. ~Up(signals, hal.conn, 0)
    BY <1>1, UpNow
  <2> QED BY <1>1, <2>1, <2>2 DEF Informed
<1> QED
  BY <1>2, <1>3, InitOrderly DEF Steady

\* A step of the Qt thread, while the queue is the current worker's.
LEMMA HandlesAttends ==
  ASSUME Sound(hal, {}), Informed, Attends(hal, {}), Handles, ~hal'.stale
  PROVE  Informed' /\ Attends(hal', {})
<1>0. Alive(hal)
  BY DEF Informed, Alive
<1>1. SameOuter(hal, hal') => SameWire(hal, hal')
  BY DEF SameOuter, SameWish, SameWire
<1>2. ASSUME Quiet, SameWire(hal, hal') PROVE Informed'
  BY <1>2, QuietInformed DEF Quiet
<1>3. CASE Start \/ Reconnect
  BY <1>3, ConnectToInformed DEF Start, Reconnect
<1>4. CASE Stop
  BY <1>4, StopInformed
<1>5. CASE Cancel
  <2>1. Quiet
    BY <1>5 DEF Cancel
  <2> QED BY <1>0, <1>1, <1>2, <1>5, <2>1, CancelAttends
<1>6. ASSUME NEW p \in Prompt, Submit(p) PROVE Informed' /\ Attends(hal', {})
  <2>1. Quiet
    BY <1>6 DEF Submit
  <2> QED BY <1>0, <1>1, <1>2, <1>6, <2>1, SubmitAttends
<1>7. ASSUME NEW m \in Model, SwitchModel(m) PROVE Informed' /\ Attends(hal', {})
  <2>1. Quiet
    BY <1>7 DEF SwitchModel
  <2> QED BY <1>0, <1>2, <1>7, <2>1, SwitchModelAttends
<1>8. ASSUME NEW m \in Model, NEW b \in BOOLEAN, EnsureRoute(m, b)
      PROVE  Informed' /\ Attends(hal', {})
  <2>1. Quiet
    BY <1>8 DEF EnsureRoute
  <2> QED BY <1>0, <1>2, <1>8, <2>1, EnsureRouteAttends
<1>9. ASSUME NEW b \in BOOLEAN, SetReasoning(b) PROVE Informed' /\ Attends(hal', {})
  <2>1. Quiet
    BY <1>9 DEF SetReasoning
  <2> QED BY <1>0, <1>2, <1>9, <2>1, SetReasoningAttends
<1>10. CASE Deliver
  BY <1>10, DeliverAttends
<1>11. CASE RetryMcp
  <2>1. Quiet
    BY <1>11 DEF RetryMcp
  <2> QED BY <1>0, <1>2, <1>11, <2>1, RetryMcpAttends
<1>12. ASSUME NEW i \in DOMAIN hal.pend, Timeout(i) PROVE Informed' /\ Attends(hal', {})
  <2>1. Quiet
    BY <1>12 DEF Timeout
  <2> QED BY <1>0, <1>1, <1>2, <1>12, <2>1, TimeoutAttends
<1> QED
  BY <1>3, <1>4, <1>5, <1>6, <1>7, <1>8, <1>9, <1>10, <1>11, <1>12 DEF Handles

LEMMA StepSteady ==
  ASSUME Steady, [Next]_vars
  PROVE  Steady'
<1>0. Orderly' /\ Sound(hal, {})
  BY StepOrderly DEF Steady, Orderly
<1> SUFFICES ASSUME ~hal'.stale PROVE Informed' /\ Attends(hal', {})
  BY <1>0 DEF Steady
<1>1. ~hal.stale => Informed /\ Attends(hal, {})
  BY DEF Steady
<1>2. CASE Handles
  <2>1. ~hal.stale
    BY <1>0, <1>2, StaleStays
  <2> QED BY <1>0, <1>1, <1>2, <2>1, HandlesAttends
<1>3. CASE Calls
  <2>1. hal' = hal
    BY <1>3 DEF Calls, Dialed, DialFails, SocketDrops, LateDial, LateClose
  <2> QED BY <1>0, <1>1, <1>3, <2>1, CallsInformed
<1>4. ASSUME NEW v \in Verdict, Serve(v) PROVE Informed' /\ Attends(hal', {})
  <2>1. hal'.stale = hal.stale
    BY <1>0, <1>4 DEF Serve, Sound, Working, Hal
  <2> QED BY <1>0, <1>1, <1>4, <2>1, ServeInformed
<1>5. CASE UNCHANGED vars
  <2>1. hal' = hal /\ signals' = signals /\ sock' = sock /\ late' = late
    BY <1>5 DEF vars
  <2>2. SameWire(hal, hal')
    BY <2>1 DEF SameWire
  <2> QED BY <1>1, <2>1, <2>2, QuietInformed
<1>6. Next => Handles \/ Calls \/ \E v \in Verdict : Serve(v)
  BY DEF Next, WorkerNext, Handles, Calls
<1> QED
  BY <1>2, <1>3, <1>4, <1>5, <1>6

LEMMA SteadyPromises ==
  ASSUME Steady
  PROVE  WaitsOnRequest /\ SessionOpens
<1>1. \A id : Pending(hal, {}, id) => id \in PendIds
  BY DEF Pending, Entries, PendIds
<1>2. WaitsOnRequest
  BY <1>1 DEF Steady, Attends, WaitsPref, WaitsMcp, Registering, WaitsOnRequest
<1>3. ASSUME Quiescent, hal.conn = "connected", ~hal.stale
      PROVE  hal.runtime # 0 \/ hal.opening = "failed" \/ hal.mcp = "approval"
  <2>1. Informed /\ Attends(hal, {}) /\ signals = <<>>
    BY <1>3 DEF Steady, Quiescent
  <2>2. sock = "open"
    <3>1. Up(signals, hal.conn, Len(signals))
      BY <1>3, <2>1, UpNow
    <3> QED BY <2>1, <3>1 DEF Informed
  <2>3. hal.out = <<>>
    BY <1>3, <2>2 DEF Quiescent
  <2>4. \A id : Unanswered(id)
    BY <2>1, <2>3 DEF Unanswered
  <2>5. DOMAIN hal.pend = {}
    BY <1>3, <2>4 DEF Quiescent
  <2>6. Entries(hal, {}) = {}
    BY <2>5 DEF Entries
  <2>7. hal.mcp \notin Registering
    BY <2>1, <2>6 DEF Attends, WaitsMcp, Pending
  <2> QED BY <1>3, <2>1, <2>6, <2>7 DEF Attends, Opens
<1> QED
  BY <1>2, <1>3 DEF SessionOpens

\* What the service waits for, and what the worker's queue tells of it, is in
\* step with the requests that are pending.
THEOREM SteadyCorrect == Unbounded => (Spec => []Steady)
<1>1. Unbounded /\ Init => Steady
  BY InitSteady
<1>2. Steady /\ [Next]_vars => Steady'
  BY StepSteady
<1> QED
  BY <1>1, <1>2, PTL DEF Spec

\* The preference workflow and each stage of the MCP registration wait for a
\* request that is pending, so its answer or its timeout ends the wait
\* (service.py: _request_model, _request_reasoning, _ensure_self_mcp,
\* _finish_self_mcp_setup; client.py: request, _reject_all).
THEOREM WaitsOnRequestCorrect == Unbounded => (Spec => []WaitsOnRequest)
<1>1. Steady => WaitsOnRequest
  BY SteadyPromises
<1> QED
  BY <1>1, SteadyCorrect, PTL

\* Trouble with the MCP server does not leave a connected service at rest
\* without a session (service.py: _on_connection, _fail_self_mcp,
\* _create_or_resume_session).
THEOREM SessionOpensCorrect == Unbounded => (Spec => []SessionOpens)
<1>1. Steady => SessionOpens
  BY SteadyPromises
<1> QED
  BY <1>1, SteadyCorrect, PTL
=============================================================================
