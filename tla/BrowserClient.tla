---------------------------- MODULE BrowserClient ---------------------------
(***************************************************************************)
(* The browser's session and its calls of the demo API: the cookie belongs *)
(* to the browser and changes with an answer's headers, the cached CSRF    *)
(* token and role belong to the page and change with the answer's body.    *)
(* Calls run at once and stop at every await.  Session 0 is none at all.   *)
(***************************************************************************)
EXTENDS Naturals, Sequences

CONSTANTS
  Calls,        \* calls of the page, each made once
  Keys,         \* what a session is started for: [role, workspace]
  AgentKey,     \* the one of getOrStartAgentSession
  MaxSessions,
  MaxFaults     \* requests refused, lost or timed out, and sessions that end

VARIABLES
  sessions,  \* the server's: sequence of [role, live], its index the session's token
  cookie,    \* a session, or 0
  token,     \* csrfToken: a session, or 0
  role,      \* cachedRole
  inFlight,  \* sessionStartInFlight: {} or {the call that runs it}
  calls,     \* [Calls -> [kind, key, stage, session, token, retried, on, got]]
  faults

vars == <<sessions, cookie, token, role, inFlight, calls, faults>>

Roles == {k.role : k \in Keys}
Sessions == 0..MaxSessions
Live(s) == s \in DOMAIN sessions /\ sessions[s].live

Idle == [kind |-> "none", key |-> AgentKey, stage |-> "idle", session |-> 0, token |-> 0,
         retried |-> FALSE, on |-> {}, got |-> "none"]

Init ==
  /\ sessions = <<>> /\ cookie = 0 /\ token = 0 /\ role = "none"
  /\ inFlight = {} /\ calls = [c \in Calls |-> Idle] /\ faults = 0

-----------------------------------------------------------------------------
\* sendDemoApi's request: the cookie and the token of this moment.
Sent(call) == [call EXCEPT !.stage = "sent", !.session = cookie, !.token = token]
Over(call) == [call EXCEPT !.stage = "over", !.on = {}]

Waiting(c) == {d \in Calls : calls[d].stage = "joined" /\ calls[d].on = {c}}

\* Mutant: the start caches the role it asks for.
StartMut(c, call) ==
  IF \E d \in inFlight : calls[d].key = call.key
  THEN /\ calls' = [calls EXCEPT ![c] = [call EXCEPT !.stage = "joined", !.on = inFlight]]
       /\ UNCHANGED <<inFlight, role>>
  ELSE /\ calls' = [calls EXCEPT ![c] = [call EXCEPT !.stage = "starting"]]
       /\ inFlight' = {c} /\ role' = call.key.role

\* startDemoSession: a start for the same key is shared.
Start(c, call) ==
  IF \E d \in inFlight : calls[d].key = call.key
  THEN /\ calls' = [calls EXCEPT ![c] = [call EXCEPT !.stage = "joined", !.on = inFlight]]
       /\ UNCHANGED <<inFlight, role>>
  ELSE /\ calls' = [calls EXCEPT ![c] = [call EXCEPT !.stage = "starting"]]
       /\ inFlight' = {c} /\ UNCHANGED role

\* The promise settles: the call and those that share it go on, to send what they
\* have to send or to throw.
Settled(c, Going(_)) ==
  /\ calls' = [d \in Calls |-> IF d = c \/ d \in Waiting(c) THEN Going(calls[d]) ELSE calls[d]]
  /\ inFlight' = inFlight \ {c}

\* startDemoSession, demoApi and demoApiAs: the check of the last is made in the
\* same step as it sends.
Begin(c, key) ==
  /\ calls[c].stage = "idle"
  /\ Start(c, [calls[c] EXCEPT !.kind = "START", !.key = key])
  /\ UNCHANGED <<sessions, cookie, token, faults>>

Look(call) == [call EXCEPT !.kind = "AGENT", !.key = AgentKey, !.stage = "looking", !.session = cookie]

DemoApi(c) ==
  /\ calls[c].stage = "idle"
  /\ calls' = [calls EXCEPT ![c] = IF token = 0 \/ role # "AGENT" THEN Look(@)
                                   ELSE Sent([@ EXCEPT !.kind = "AGENT"])]
  /\ UNCHANGED <<sessions, cookie, token, role, inFlight, faults>>

DemoApiAs(c, key) ==
  /\ calls[c].stage = "idle" /\ key.role # "AGENT" /\ token # 0 /\ role = key.role
  /\ calls' = [calls EXCEPT ![c] = Sent([@ EXCEPT !.kind = "AS", !.key = key])]
  /\ UNCHANGED <<sessions, cookie, token, role, inFlight, faults>>

\* The headers of a started session's answer, then its body.
Answer(c) ==
  /\ calls[c].stage = "starting" /\ Len(sessions) < MaxSessions
  /\ sessions' = Append(sessions, [role |-> calls[c].key.role, live |-> TRUE])
  /\ cookie' = Len(sessions) + 1
  /\ calls' = [calls EXCEPT ![c].stage = "started", ![c].session = Len(sessions) + 1]
  /\ UNCHANGED <<token, role, inFlight, faults>>

Remember(s) == token' = s /\ role' = sessions[s].role

GoOn(call) ==
  IF call.kind = "AGENT"
  THEN [call EXCEPT !.stage = "sent", !.session = cookie, !.token = token', !.on = {}]
  ELSE Over(call)

Started(c) ==
  /\ calls[c].stage = "started"
  /\ Remember(calls[c].session) /\ Settled(c, GoOn)
  /\ UNCHANGED <<sessions, cookie, faults>>

\* Refused, lost, or timed out: before the headers or after them.
StartFails(c) ==
  /\ faults < MaxFaults /\ faults' = faults + 1
  /\ calls[c].stage \in {"starting", "started"}
  /\ Settled(c, Over) /\ UNCHANGED <<sessions, cookie, token, role>>

\* currentSession: no session, the view of one, or a failure.
Looked(c) ==
  /\ calls[c].stage = "looking"
  /\ IF Live(calls[c].session)
     THEN calls' = [calls EXCEPT ![c].stage = "found"] /\ UNCHANGED <<inFlight, role>>
     ELSE Start(c, calls[c])
  /\ UNCHANGED <<sessions, cookie, token, faults>>

Found(c) ==
  /\ calls[c].stage = "found" /\ Remember(calls[c].session)
  /\ calls' = [calls EXCEPT ![c] =
       IF sessions[@.session].role = "AGENT" THEN GoOn(@) ELSE Over(@)]
  /\ UNCHANGED <<sessions, cookie, inFlight, faults>>

\* The server serves a POST of a live session with that session's token.
Handle(c) ==
  LET call == calls[c] IN
  /\ call.stage = "sent"
  /\ IF Live(call.session)
     THEN /\ calls' = [calls EXCEPT ![c] = Over([call EXCEPT
               !.got = IF call.got = "none" /\ call.token = call.session THEN sessions[call.session].role ELSE call.got])]
          /\ UNCHANGED <<token, role>>
     ELSE IF call.retried THEN calls' = [calls EXCEPT ![c] = Over(@)] /\ UNCHANGED <<token, role>>
     ELSE /\ token' = 0 /\ role' = "none"
          /\ calls' = [calls EXCEPT ![c] =
               IF call.kind = "AGENT" THEN [Look(@) EXCEPT !.retried = TRUE] ELSE Over(@)]
  /\ UNCHANGED <<sessions, cookie, inFlight, faults>>

RequestFails(c) ==
  /\ faults < MaxFaults /\ faults' = faults + 1
  /\ calls[c].stage \in {"looking", "found", "sent"}
  /\ calls' = [calls EXCEPT ![c] = Over(@)]
  /\ UNCHANGED <<sessions, cookie, token, role, inFlight>>

\* A session expires or is revoked.
End(s) ==
  /\ faults < MaxFaults /\ faults' = faults + 1
  /\ Live(s) /\ sessions' = [sessions EXCEPT ![s].live = FALSE]
  /\ UNCHANGED <<cookie, token, role, inFlight, calls>>

Next ==
  \/ \E c \in Calls :
       \/ \E key \in Keys : Begin(c, key) \/ DemoApiAs(c, key)
       \/ DemoApi(c) \/ Answer(c) \/ Started(c) \/ StartFails(c)
       \/ Looked(c) \/ Found(c) \/ Handle(c) \/ RequestFails(c)
  \/ \E s \in Sessions : End(s)

Spec == Init /\ [][Next]_vars

-----------------------------------------------------------------------------
TypeOK ==
  /\ cookie \in Sessions /\ token \in Sessions /\ role \in Roles \cup {"none"}
  /\ inFlight \subseteq Calls
  /\ \A c \in Calls : calls[c].stage \in {"idle", "joined", "starting", "started", "looking", "found", "sent", "over"}

\* Whatever cookies and bodies overtook one another, a command sent for a
\* privileged role is served, if at all, by a session of that role.
ActsInItsRole ==
  \A c \in Calls : calls[c].kind = "AS" => calls[c].got \in {"none", calls[c].key.role}
=============================================================================
