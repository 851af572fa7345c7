----------------------------- MODULE Connections -----------------------------
(***************************************************************************)
(* UserManager: at most one live connection per user, with time-outs of    *)
(* idle ones.                                                              *)
(*                                                                         *)
(* connect, disconnect and the time-out check call listeners in the middle *)
(* of their work, and a listener may call the manager.  frames is the      *)
(* stack of calls under way.  The clock does not move while one is:        *)
(* inactivity is counted per connection, up to just beyond the time-out.   *)
(*                                                                         *)
(* Not here: names and metadata, total_users and rejected_connections,     *)
(* which only count, and clear, which is for tests.                        *)
(***************************************************************************)
EXTENDS Integers, Sequences, SequencesExt, FiniteSets

CONSTANTS
    Users,
    ConnectionIds,     \* the ids randomUUID may return, each once
    NoConnection,      \* user.connection = undefined
    Timeout,           \* inactivity_timeout_ms, in ticks
    MaxDepth           \* bound on calls nested through listeners; a check disconnects one deeper

ASSUME ConnectionsAssumption ==
    NoConnection \notin ConnectionIds /\ Timeout \in Nat /\ MaxDepth \in Nat

VARIABLES
    config,            \* the two switches of UserManagerConfig
    users,             \* user -> status and connection
    connections,       \* the manager's second map: id -> user and ticks since last_activity
    stats,             \* the counters that go up and down
    log,               \* id -> what the audit logger was told of it, in order
    timer,             \* whether timeoutTimer is set
    frames

connVars == <<config, users, connections, stats, log, timer, frames>>

UserStatus == {"unregistered", "connected", "disconnected", "kicked"}

User == [status : UserStatus, connection : ConnectionIds \cup {NoConnection}]

\* A call under way: connect or disconnect that notifies its listeners, a rejected
\* connect that does, a connect that waits for the disconnect of the connection it
\* replaces, a time-out check with the users it has yet to look at.  A listener makes
\* at most one call before it returns.
Frame ==
    [call : {"connect", "disconnect"}, connection : ConnectionIds, called : BOOLEAN]
        \cup [call : {"reject"}, user : Users, called : BOOLEAN]
        \cup [call : {"replace"}, user : Users]
        \cup [call : {"check"}, queue : SUBSET Users]

None == [status |-> "unregistered", connection |-> NoConnection]

Init ==
    /\ config \in [allow_connection_replace : BOOLEAN, auto_disconnect_on_timeout : BOOLEAN]
    /\ users = [u \in Users |-> None]
    /\ connections = <<>>
    /\ stats = [connected_users |-> 0, total_connections |-> 0, total_disconnections |-> 0]
    /\ log = [c \in ConnectionIds |-> <<>>]
    /\ timer = FALSE
    /\ frames = <<>>
-----------------------------------------------------------------------------
Idle == frames = <<>>
TopIs(calls) == ~Idle /\ Last(frames).call \in calls

\* Listeners run, or the event loop is free: anybody may call the manager.
MayCall == Idle \/ (TopIs({"connect", "disconnect", "reject"}) /\ ~Last(frames).called)

\* The stack as the caller leaves it, and with the frames of its call on top.
CallMade == IF Idle THEN frames ELSE [frames EXCEPT ![Len(frames)].called = TRUE]

Calling(new) ==
    /\ MayCall /\ Len(frames) + Len(new) <= MaxDepth
    /\ frames' = CallMade \o new

Listening(call, c) == [call |-> call, connection |-> c, called |-> FALSE]

\* Mutant of IsConnected: a user who shows no activity does not count.
IsRecentlyActive(u) ==
    /\ users[u].status = "connected" /\ users[u].connection # NoConnection
    /\ connections[users[u].connection].idle <= Timeout

IsConnected(u) == users[u].status = "connected" /\ users[u].connection # NoConnection

FramesOf(call) == {i \in DOMAIN frames : frames[i].call = call}

Unused(c) == log[c] = <<>> /\ \A i \in FramesOf("connect") : frames[i].connection # c

\* The bound on ids: every connect that waits to replace one will still take one.
SpareId == Cardinality({c \in ConnectionIds : Unused(c)}) > Cardinality(FramesOf("replace"))

\* The second half of connect: the new connection in both maps and in the counters,
\* whatever the user's state is by now.
Establish(u, c) ==
    /\ Unused(c)
    /\ users' = [users EXCEPT ![u] = [status |-> "connected", connection |-> c]]
    /\ connections' = [x \in DOMAIN connections \cup {c} |->
                          IF x = c THEN [user |-> u, idle |-> 0] ELSE connections[x]]
    /\ stats' = [stats EXCEPT !.total_connections = @ + 1, !.connected_users = @ + 1]
    /\ UNCHANGED <<config, log, timer>>

\* Mutant of Drop: the connection stays in the connection map.
HalfDrop(u, status) ==
    /\ users' = [users EXCEPT ![u] = [status |-> status, connection |-> NoConnection]]
    /\ stats' = [stats EXCEPT !.total_disconnections = @ + 1, !.connected_users = @ - 1]
    /\ UNCHANGED <<config, connections, log, timer>>

\* The first half of disconnect, up to the listeners.
Drop(u, status) ==
    /\ users' = [users EXCEPT ![u] = [status |-> status, connection |-> NoConnection]]
    /\ connections' = [x \in DOMAIN connections \ {users[u].connection} |-> connections[x]]
    /\ stats' = [stats EXCEPT !.total_disconnections = @ + 1, !.connected_users = @ - 1]
    /\ UNCHANGED <<config, log, timer>>

DisconnectFrame(u) == Listening("disconnect", users[u].connection)
-----------------------------------------------------------------------------
RegisterUser(u) ==
    /\ MayCall
    /\ users[u] = None
    /\ users' = [users EXCEPT ![u].status = "disconnected"]
    /\ frames' = CallMade
    /\ UNCHANGED <<config, connections, stats, log, timer>>

Connect(u, c) ==
    /\ ~IsConnected(u) /\ SpareId
    /\ Calling(<<Listening("connect", c)>>)
    /\ Establish(u, c)

\* connect of a connected user, replacement allowed: first disconnect('replaced').
ConnectReplacing(u) ==
    /\ IsConnected(u) /\ config.allow_connection_replace /\ SpareId
    /\ Calling(<<[call |-> "replace", user |-> u], DisconnectFrame(u)>>)
    /\ Drop(u, "disconnected")

ConnectRejected(u) ==
    /\ IsConnected(u) /\ ~config.allow_connection_replace
    /\ Calling(<<[call |-> "reject", user |-> u, called |-> FALSE]>>)
    /\ UNCHANGED <<config, users, connections, stats, log, timer>>

\* connect goes on after the disconnect it called has returned.
Replace(c) ==
    /\ TopIs({"replace"})
    /\ frames' = Append(Front(frames), Listening("connect", c))
    /\ Establish(Last(frames).user, c)

\* disconnect('logout') and kickUser.
Disconnect(u, status) ==
    /\ IsConnected(u)
    /\ Calling(<<DisconnectFrame(u)>>)
    /\ Drop(u, status)

UpdateActivity(u) ==
    /\ MayCall
    /\ users[u].connection # NoConnection
    /\ connections' = [connections EXCEPT ![users[u].connection].idle = 0]
    /\ frames' = CallMade
    /\ UNCHANGED <<config, users, stats, log, timer>>

TimesOut(u) == IsConnected(u) /\ connections[users[u].connection].idle > Timeout

\* checkTimeouts visits the users of the map; in what order is left open.
CheckTimeouts ==
    /\ Calling(<<[call |-> "check", queue |-> {u \in Users : users[u] # None}]>>)
    /\ UNCHANGED <<config, users, connections, stats, log, timer>>

\* Mutant of CheckUser: timed-out users are only reported.
ReportUser(u) ==
    /\ TopIs({"check"}) /\ u \in Last(frames).queue
    /\ frames' = Append(Front(frames),
                        [call |-> "check", queue |-> Last(frames).queue \ {u}])
    /\ UNCHANGED <<config, users, connections, stats, log, timer>>

\* One round of its loop. A user who times out is disconnected on the spot, and
\* the disconnect listeners run before the next user is looked at.
CheckUser(u) ==
    /\ TopIs({"check"}) /\ u \in Last(frames).queue
    /\ LET rest == Append(Front(frames),
                          [call |-> "check", queue |-> Last(frames).queue \ {u}])
       IN IF TimesOut(u) /\ config.auto_disconnect_on_timeout
          THEN frames' = Append(rest, DisconnectFrame(u)) /\ Drop(u, "disconnected")
          ELSE /\ frames' = rest
               /\ UNCHANGED <<config, users, connections, stats, log, timer>>

\* Mutant of ReturnFromListeners: what replaces a connection does not log its end.
ReplacesSilently ==
    /\ TopIs({"connect", "disconnect", "reject"})
    /\ frames' = Front(frames)
    /\ LET top == Last(frames) IN
       log' = IF top.call = "reject" \/ (Len(frames) > 1 /\ frames[Len(frames) - 1].call = "replace")
              THEN log
              ELSE [log EXCEPT ![top.connection] = Append(@, top.call)]
    /\ UNCHANGED <<config, users, connections, stats, timer>>

\* The listeners have returned: the audit logger is told, and the call returns.
ReturnFromListeners ==
    /\ TopIs({"connect", "disconnect", "reject"})
    /\ frames' = Front(frames)
    /\ LET top == Last(frames) IN
       log' = IF top.call = "reject" THEN log
              ELSE [log EXCEPT ![top.connection] = Append(@, top.call)]
    /\ UNCHANGED <<config, users, connections, stats, timer>>

CheckReturns ==
    /\ TopIs({"check"}) /\ Last(frames).queue = {}
    /\ frames' = Front(frames)
    /\ UNCHANGED <<config, users, connections, stats, log, timer>>

StartTimeoutChecks ==
    /\ MayCall /\ frames' = CallMade
    /\ ~timer /\ timer' = TRUE
    /\ UNCHANGED <<config, users, connections, stats, log>>

StopTimeoutChecks ==
    /\ MayCall /\ frames' = CallMade
    /\ timer /\ timer' = FALSE
    /\ UNCHANGED <<config, users, connections, stats, log>>

TimerFires == Idle /\ timer /\ CheckTimeouts

Tick ==
    /\ Idle
    /\ connections' = [c \in DOMAIN connections |->
                          [connections[c] EXCEPT !.idle = IF @ <= Timeout THEN @ + 1 ELSE @]]
    /\ UNCHANGED <<config, users, stats, log, timer, frames>>

\* What the manager does by itself once it was called.
RunToCompletion ==
    \/ \E c \in ConnectionIds : Replace(c)
    \/ \E u \in Users : CheckUser(u)
    \/ ReturnFromListeners
    \/ CheckReturns

Next ==
    \/ \E u \in Users :
          \/ RegisterUser(u) \/ ConnectReplacing(u) \/ ConnectRejected(u) \/ UpdateActivity(u)
          \/ \E c \in ConnectionIds : Connect(u, c)
          \/ \E status \in {"disconnected", "kicked"} : Disconnect(u, status)
    \/ CheckTimeouts
    \/ StartTimeoutChecks \/ StopTimeoutChecks
    \/ TimerFires
    \/ RunToCompletion
    \/ Tick

Spec == Init /\ [][Next]_connVars

\* A started call runs to its end and listeners return; a timer that is set gets its
\* turn between calls; time passes.
FairSpec ==
    /\ Spec
    /\ WF_connVars(RunToCompletion) /\ SF_connVars(TimerFires) /\ SF_connVars(Tick)
-----------------------------------------------------------------------------
Owned(u) == {c \in DOMAIN connections : connections[c].user = u}

\* Types; and the two maps agree on who is connected through what.  A user's
\* connection is in the connection map and carries his id, a user has one exactly
\* while his status says connected, and the counters are those of that map.  Held
\* in the middle of every nested call too, which is what the listeners see.
ConnectionsAgree ==
    /\ users \in [Users -> User]
    /\ connections \in UNION {[S -> [user : Users, idle : 0..Timeout + 1]] : S \in SUBSET ConnectionIds}
    /\ frames \in Seq(Frame) /\ Len(frames) <= MaxDepth + 1
    /\ \A u \in Users :
          /\ (users[u].status = "connected") = (users[u].connection # NoConnection)
          /\ users[u].connection # NoConnection => users[u].connection \in Owned(u)
    /\ stats.connected_users = Cardinality(DOMAIN connections)
    /\ stats.total_connections - stats.total_disconnections = stats.connected_users

\* manager.ts, connect: one instance per user.  Without replacement a user never has
\* a second connection, whatever his listeners call while he comes and goes.
OneInstancePerUser ==
    ~config.allow_connection_replace => \A u \in Users : Cardinality(Owned(u)) <= 1

\* When no call is under way the audit trail accounts for every connection: it was
\* told once of each that was made, once of each that ended, and of no other.
AuditAccountsForConnections ==
    Idle => \A c \in ConnectionIds :
       /\ Len(log[c]) = Cardinality(Range(log[c]))
       /\ "disconnect" \in Range(log[c]) => "connect" \in Range(log[c])
       /\ c \in DOMAIN connections <=> Range(log[c]) = {"connect"}

\* With time-out checks running and auto-disconnect on, a user's connection that
\* stays idle ends.
IdleConnectionsEnd ==
    \A c \in ConnectionIds :
       LET Watched == /\ timer /\ config.auto_disconnect_on_timeout
                      /\ \E u \in Users : users[u].connection = c
       IN Watched ~> (~Watched \/ connections[c].idle = 0)
-----------------------------------------------------------------------------
(***************************************************************************)
(* What the documents say, and the code does not keep.                     *)
(***************************************************************************)

\* manager.ts and docs/internal/specs.md: one instance per user, replacement allowed
\* or not.  A disconnect listener that reconnects the user while connect replaces
\* his connection leaves two: the one it made is never dropped.
OneInstanceAlways == \A u \in Users : Cardinality(Owned(u)) <= 1

\* types.ts, ConnectionResult: a rejected connect names the existing connection.  A
\* rejection listener that disconnects the user takes it away before connect reads
\* it, and connect throws.
RejectionNamesHolder == TopIs({"reject"}) => users[Last(frames).user].connection # NoConnection
=============================================================================
