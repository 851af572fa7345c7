--------------------------- MODULE Connections_proofs ---------------------------
(***************************************************************************)
(* Proofs about Connections, for any number of users and connections, any  *)
(* time-out and any depth of calls nested through listeners.               *)
(*                                                                         *)
(* The stack matters only for the connections whose connect or disconnect  *)
(* has yet to be told to the audit logger (On): a push or a return changes *)
(* these sets by one connection or not at all.  Told or still on the       *)
(* stack, a connection is Made and Gone at most once each; it is in the    *)
(* connection map exactly between the two (AuditInv).  That makes an id    *)
(* that is not used yet new to the map, so the counters count, and with no *)
(* call under way it is what the trail says.                               *)
(***************************************************************************)
EXTENDS Connections, FiniteSetTheorems, SequenceTheorems, TLAPS

Listened == {"connect", "disconnect"}
-----------------------------------------------------------------------------
(***************************************************************************)
(* Stacks of frames.                                                       *)
(***************************************************************************)
\* The connections that frames of a kind on stack s are about.
On(s, call) == {s[i].connection : i \in {j \in DOMAIN s : s[j].call = call}}

Distinct(s) ==
    \A i, j \in DOMAIN s :
       s[i].call \in Listened /\ s[j].call = s[i].call /\ s[i].connection = s[j].connection => i = j

\* Only a check calls one deeper than the bound.
Shallow(s) ==
    /\ Len(s) <= MaxDepth + 1
    /\ \A i \in DOMAIN s : s[i].call = "check" => i <= MaxDepth

Replaces(s) == \E i \in DOMAIN s : s[i].call = "replace"

\* One frame on top.
LEMMA Pushed ==
    ASSUME NEW s \in Seq(Frame), NEW f \in Frame
    PROVE  /\ Append(s, f) \in Seq(Frame) /\ Len(Append(s, f)) = Len(s) + 1
           /\ \A call : On(Append(s, f), call)
                 = IF f.call = call THEN On(s, call) \cup {f.connection} ELSE On(s, call)
           /\ Distinct(Append(s, f)) <=>
                 Distinct(s) /\ (f.call \in Listened => f.connection \notin On(s, f.call))
           /\ Replaces(Append(s, f)) <=> Replaces(s) \/ f.call = "replace"
           /\ (\A i \in DOMAIN Append(s, f) : Append(s, f)[i].call = "check" => i <= MaxDepth) <=>
                 /\ \A i \in DOMAIN s : s[i].call = "check" => i <= MaxDepth
                 /\ f.call = "check" => Len(s) < MaxDepth
<1> DEFINE t == Append(s, f)
           n == Len(s) + 1
<1>1. /\ t \in Seq(Frame) /\ Len(t) = n /\ Len(s) \in Nat
      /\ DOMAIN t = 1..n /\ DOMAIN s = 1..Len(s) /\ DOMAIN t = DOMAIN s \cup {n} /\ n \notin DOMAIN s
      /\ t[n] = f /\ \A i \in DOMAIN s : t[i] = s[i]
  OBVIOUS
<1> HIDE DEF t
<1>2. ASSUME NEW call
      PROVE  On(t, call) = IF f.call = call THEN On(s, call) \cup {f.connection} ELSE On(s, call)
  BY <1>1 DEF On
<1>3. Distinct(t) <=> Distinct(s) /\ (f.call \in Listened => f.connection \notin On(s, f.call))
  <2>1. ASSUME Distinct(t)
        PROVE  Distinct(s) /\ (f.call \in Listened => f.connection \notin On(s, f.call))
    BY <1>1, <2>1 DEF Distinct, On
  <2>2. ASSUME Distinct(s), f.call \in Listened => f.connection \notin On(s, f.call)
        PROVE  Distinct(t)
    BY <1>1, <2>2 DEF Distinct, On
  <2> QED BY <2>1, <2>2
<1>4. Replaces(t) <=> Replaces(s) \/ f.call = "replace"
  BY <1>1 DEF Replaces
<1>5. (\A i \in DOMAIN t : t[i].call = "check" => i <= MaxDepth) <=>
         /\ \A i \in DOMAIN s : s[i].call = "check" => i <= MaxDepth
         /\ f.call = "check" => Len(s) < MaxDepth
  BY <1>1, ConnectionsAssumption
<1> QED BY <1>1, <1>2, <1>3, <1>4, <1>5 DEF t

\* A stack that is not empty is its front with its last frame pushed.
LEMMA Unpushed ==
    ASSUME NEW s \in Seq(Frame), s # <<>>
    PROVE  /\ Front(s) \in Seq(Frame) /\ Last(s) \in Frame
           /\ Len(Front(s)) = Len(s) - 1
           /\ s = Append(Front(s), Last(s))
<1> DEFINE r == Front(s)
           t == Append(r, Last(s))
<1>1. Len(s) \in Nat /\ Len(s) > 0 /\ Last(s) \in Frame /\ Last(s) = s[Len(s)]
  BY DEF Last
<1>2. r \in Seq(Frame) /\ Len(r) = Len(s) - 1 /\ \A i \in 1..Len(r) : r[i] = s[i]
  <2> DEFINE n == Len(s) - 1
  <2>1. n \in Nat /\ \A i \in 1..n : s[i] \in Frame
    BY <1>1
  <2> HIDE DEF n
  <2>2. /\ SubSeq(s, 1, n) \in Seq(Frame)
        /\ Len(SubSeq(s, 1, n)) = IF 1 <= n THEN n - 1 + 1 ELSE 0
        /\ \A i \in 1..n - 1 + 1 : SubSeq(s, 1, n)[i] = s[1 + i - 1]
    BY <2>1, SubSeqProperties, SMT
  <2>3. Len(SubSeq(s, 1, n)) = n /\ \A i \in 1..n : SubSeq(s, 1, n)[i] = s[i]
    BY <2>1, <2>2
  <2> QED BY <2>2, <2>3 DEF Front, n
<1> HIDE DEF r
<1>3. t \in Seq(Frame) /\ Len(t) = Len(s) /\ \A i \in 1..Len(s) : t[i] = s[i]
  BY <1>1, <1>2
<1> HIDE DEF t
<1>4. s = t
  BY <1>3
<1> QED BY <1>1, <1>2, <1>4 DEF r, t

\* The frames there are.
LEMMA Frames ==
    /\ \A call \in Listened, c \in ConnectionIds : Listening(call, c) \in Frame
    /\ \A u \in Users : [call |-> "reject", user |-> u, called |-> FALSE] \in Frame
    /\ \A u \in Users : [call |-> "replace", user |-> u] \in Frame
    /\ \A Q \in SUBSET Users : [call |-> "check", queue |-> Q] \in Frame
    /\ \A f \in Frame :
          /\ f.call \in Listened => f.connection \in ConnectionIds
          /\ f.call = "replace" => f.user \in Users
          /\ f.call = "check" => f.queue \in SUBSET Users
          /\ f.call \in {"connect", "disconnect", "reject"} =>
                /\ [f EXCEPT !.called = TRUE] \in Frame
                /\ [f EXCEPT !.called = TRUE].call = f.call
                /\ f.call \in Listened => [f EXCEPT !.called = TRUE].connection = f.connection
BY DEF Frame, Listening, Listened

LEMMA TopReplaced ==
    ASSUME NEW r \in Seq(Frame), NEW f \in Frame, NEW g \in Frame, NEW a, a = Append(r, f)
    PROVE  [a EXCEPT ![Len(a)] = g] = Append(r, g)
<1> DEFINE n == Len(r) + 1
           s == [a EXCEPT ![n] = g]
           t == Append(r, g)
<1>1. /\ a \in Seq(Frame) /\ Len(a) = n /\ n \in Nat /\ n > 0
      /\ \A i \in 1..Len(r) : a[i] = r[i]
  OBVIOUS
<1>2. /\ t \in Seq(Frame) /\ Len(t) = n /\ t[n] = g
      /\ \A i \in 1..Len(r) : t[i] = r[i]
  OBVIOUS
<1> HIDE DEF t
<1>3. /\ s \in Seq(Frame) /\ Len(s) = n /\ s[n] = g
      /\ \A i \in 1..Len(r) : s[i] = r[i]
  <2>1. \A b \in Seq(Frame) : Len(b) = n =>
           /\ [b EXCEPT ![n] = g] \in Seq(Frame) /\ Len([b EXCEPT ![n] = g]) = n
           /\ [b EXCEPT ![n] = g][n] = g
           /\ \A i \in 1..Len(r) : [b EXCEPT ![n] = g][i] = b[i]
    BY <1>1
  <2> QED BY <1>1, <2>1
<1> HIDE DEF s
<1>4. \A i \in 1..n : s[i] = t[i]
  BY <1>2, <1>3
<1>5. s = t
  BY <1>2, <1>3, <1>4
<1> QED BY <1>1, <1>5 DEF s, t

\* What is known of a stack.
SameStack(s, t) ==
    /\ s \in Seq(Frame) /\ Len(s) = Len(t)
    /\ \A call \in Listened : On(s, call) = On(t, call)
    /\ Distinct(s) <=> Distinct(t)
    /\ Replaces(s) <=> Replaces(t)
    /\ Shallow(s) <=> Shallow(t)

\* That the top has made its call changes nothing of it.
LEMMA Called ==
    ASSUME frames \in Seq(Frame), MayCall
    PROVE  SameStack(CallMade, frames)
<1>1. CASE Idle
  BY <1>1 DEF CallMade, SameStack
<1>2. CASE ~Idle
  <2> DEFINE r == Front(frames)
             f == Last(frames)
             g == [f EXCEPT !.called = TRUE]
  <2>1. r \in Seq(Frame) /\ f \in Frame /\ frames = Append(r, f) /\ Len(frames) = Len(r) + 1
    BY <1>2, Unpushed DEF Idle
  <2>2. f.call \in {"connect", "disconnect", "reject"}
    BY <1>2 DEF MayCall, TopIs
  <2>3. g \in Frame /\ g.call = f.call /\ (f.call \in Listened => g.connection = f.connection)
    BY <2>1, <2>2, Frames
  <2> HIDE DEF r, f
  <2>4. CallMade = [frames EXCEPT ![Len(frames)] = g]
    BY <1>2 DEF CallMade, Last, f
  <2> HIDE DEF g
  <2>5. [frames EXCEPT ![Len(frames)] = g] = Append(r, g)
    BY <2>1, <2>3, TopReplaced, Zenon
  <2>6. ASSUME NEW call \in Listened
        PROVE  On(Append(r, g), call) = On(Append(r, f), call)
    <3>1. /\ On(Append(r, f), call)
                = IF f.call = call THEN On(r, call) \cup {f.connection} ELSE On(r, call)
          /\ On(Append(r, g), call)
                = IF g.call = call THEN On(r, call) \cup {g.connection} ELSE On(r, call)
      BY <2>1, <2>3, Pushed
    <3> QED BY <2>3, <3>1
  <2>7. /\ Append(r, g) \in Seq(Frame) /\ Len(Append(r, g)) = Len(Append(r, f))
        /\ Distinct(Append(r, g)) <=> Distinct(Append(r, f))
        /\ Replaces(Append(r, g)) <=> Replaces(Append(r, f))
        /\ Shallow(Append(r, g)) <=> Shallow(Append(r, f))
    BY <2>1, <2>3, Pushed DEF Shallow
  <2> QED BY <2>1, <2>4, <2>5, <2>6, <2>7 DEF SameStack
<1> QED BY <1>1, <1>2

LEMMA Concatenated ==
    ASSUME NEW s \in Seq(Frame), NEW f \in Frame, NEW g \in Frame
    PROVE  s \o <<f>> = Append(s, f) /\ s \o <<f, g>> = Append(Append(s, f), g)
<1>1. s \o <<f>> = Append(s, f)
  <2> DEFINE a == s \o <<f>>
             b == Append(s, f)
             n == Len(s) + 1
  <2>1. /\ a \in Seq(Frame) /\ b \in Seq(Frame) /\ Len(a) = n /\ Len(b) = n
        /\ \A i \in 1..n : a[i] = b[i]
    OBVIOUS
  <2> HIDE DEF a, b
  <2>2. a = b
    BY <2>1
  <2> QED BY <2>2 DEF a, b
<1>2. s \o <<f, g>> = Append(Append(s, f), g)
  <2> DEFINE a == s \o <<f, g>>
             b == Append(Append(s, f), g)
             n == Len(s) + 2
  <2>1. /\ a \in Seq(Frame) /\ b \in Seq(Frame) /\ Len(a) = n /\ Len(b) = n
        /\ \A i \in 1..n : a[i] = b[i]
    OBVIOUS
  <2> HIDE DEF a, b
  <2>2. a = b
    BY <2>1
  <2> QED BY <2>2 DEF a, b
<1> QED BY <1>1, <1>2
-----------------------------------------------------------------------------
(***************************************************************************)
(* The invariant.                                                          *)
(***************************************************************************)
SoundStack(s) ==
    /\ s \in Seq(Frame) /\ Distinct(s) /\ Shallow(s)
    /\ ~config.allow_connection_replace => ~Replaces(s)

\* The two maps and the counters.
AgreeInv ==
    /\ users \in [Users -> User]
    /\ DOMAIN connections \in SUBSET ConnectionIds /\ IsFiniteSet(DOMAIN connections)
    /\ connections \in [DOMAIN connections -> [user : Users, idle : 0..Timeout + 1]]
    /\ \A u \in Users :
          /\ users[u].status = "connected" <=> users[u].connection # NoConnection
          /\ users[u].connection # NoConnection =>
                /\ users[u].connection \in DOMAIN connections
                /\ connections[users[u].connection].user = u
    /\ stats \in [connected_users : Int, total_connections : Int, total_disconnections : Int]
    /\ stats.connected_users = Cardinality(DOMAIN connections)
    /\ stats.total_connections - stats.total_disconnections = stats.connected_users

\* Without replacement no connection is left over.
SoleInv ==
    ~config.allow_connection_replace =>
       \A c \in DOMAIN connections : users[connections[c].user].connection = c

Logs ==
    {<<>>, <<"connect">>, <<"disconnect">>, <<"connect", "disconnect">>,
     <<"disconnect", "connect">>}

Told(c, call) == call \in Range(log[c])
Happened(c, call) == Told(c, call) \/ c \in On(frames, call)
Made(c) == Happened(c, "connect")
Gone(c) == Happened(c, "disconnect")

AuditInv ==
    /\ log \in [ConnectionIds -> Logs]
    /\ \A c \in ConnectionIds :
          /\ \A call \in Listened : ~(Told(c, call) /\ c \in On(frames, call))
          /\ Gone(c) => Made(c)
          /\ c \in DOMAIN connections <=> Made(c) /\ ~Gone(c)

ConnectionsInv == SoundStack(frames) /\ AgreeInv /\ SoleInv /\ AuditInv
-----------------------------------------------------------------------------
(***************************************************************************)
(* The maps: a connection enters, one leaves.                              *)
(***************************************************************************)
LEMMA Establishes ==
    ASSUME AgreeInv, NEW u \in Users, NEW c \in ConnectionIds, c \notin DOMAIN connections,
           Establish(u, c)
    PROVE  /\ AgreeInv'
           /\ DOMAIN connections' = DOMAIN connections \cup {c}
           /\ SoleInv /\ (~config.allow_connection_replace => ~IsConnected(u)) => SoleInv'
<1> DEFINE D == DOMAIN connections
           E == D \cup {c}
<1>1. /\ users' = [users EXCEPT ![u] = [status |-> "connected", connection |-> c]]
      /\ connections' = [x \in E |-> IF x = c THEN [user |-> u, idle |-> 0] ELSE connections[x]]
      /\ stats' = [stats EXCEPT !.total_connections = @ + 1, !.connected_users = @ + 1]
      /\ config' = config
  BY DEF Establish
<1>2. DOMAIN connections' = E /\ E \in SUBSET ConnectionIds
  BY <1>1 DEF AgreeInv
<1>3. IsFiniteSet(E) /\ Cardinality(E) = Cardinality(D) + 1 /\ Cardinality(D) \in Nat
  <2>1. IsFiniteSet(D)
    BY DEF AgreeInv
  <2> HIDE DEF D
  <2>2. c \notin D
    BY DEF D
  <2> QED BY <2>1, <2>2, FS_AddElement, FS_CardinalityType
<1>4. users' \in [Users -> User]
  BY <1>1 DEF AgreeInv, User, UserStatus
<1>5. connections' \in [E -> [user : Users, idle : 0..Timeout + 1]]
  BY <1>1, ConnectionsAssumption DEF AgreeInv
<1>6. ASSUME NEW v \in Users
      PROVE  /\ users'[v].status = "connected" <=> users'[v].connection # NoConnection
             /\ users'[v].connection # NoConnection =>
                   /\ users'[v].connection \in E
                   /\ connections'[users'[v].connection].user = v
  <2>1. CASE v = u
    BY <1>1, <2>1, ConnectionsAssumption DEF AgreeInv
  <2>2. CASE v # u
    BY <1>1, <2>2 DEF AgreeInv
  <2> QED BY <2>1, <2>2
<1>7. /\ stats' \in [connected_users : Int, total_connections : Int, total_disconnections : Int]
      /\ stats'.connected_users = Cardinality(E)
      /\ stats'.total_connections - stats'.total_disconnections = stats'.connected_users
  <2>1. stats \in [connected_users : Int, total_connections : Int, total_disconnections : Int]
    BY DEF AgreeInv
  <2>2. stats' = [connected_users |-> stats.connected_users + 1,
                  total_connections |-> stats.total_connections + 1,
                  total_disconnections |-> stats.total_disconnections]
    BY <1>1, <2>1
  <2> HIDE DEF E
  <2> QED BY <1>3, <2>1, <2>2 DEF AgreeInv
<1>8. ASSUME SoleInv, ~config.allow_connection_replace => ~IsConnected(u) PROVE SoleInv'
  <2> SUFFICES ASSUME ~config.allow_connection_replace, NEW d \in E
               PROVE  users'[connections'[d].user].connection = d
    BY <1>1, <1>2 DEF SoleInv
  <2>1. CASE d = c
    BY <1>1, <2>1 DEF AgreeInv
  <2>2. CASE d # c
    <3>1. d \in D /\ connections'[d].user = connections[d].user /\ connections[d].user \in Users
      BY <1>1, <2>2 DEF AgreeInv
    <3>2. users[connections[d].user].connection = d /\ d # NoConnection
      BY <1>8, <3>1, ConnectionsAssumption DEF SoleInv, AgreeInv
    <3>3. connections[d].user # u
      BY <1>8, <3>1, <3>2 DEF AgreeInv, IsConnected
    <3> QED BY <1>1, <3>1, <3>2, <3>3 DEF AgreeInv
  <2> QED BY <2>1, <2>2
<1> QED BY <1>2, <1>3, <1>4, <1>5, <1>6, <1>7, <1>8 DEF AgreeInv

LEMMA Drops ==
    ASSUME AgreeInv, SoleInv, NEW u \in Users, IsConnected(u),
           NEW status \in {"disconnected", "kicked"}, Drop(u, status)
    PROVE  /\ AgreeInv' /\ SoleInv'
           /\ users[u].connection \in DOMAIN connections
           /\ DOMAIN connections' = DOMAIN connections \ {users[u].connection}
<1> DEFINE D == DOMAIN connections
           c == users[u].connection
           E == D \ {c}
<1>1. /\ users' = [users EXCEPT ![u] = [status |-> status, connection |-> NoConnection]]
      /\ connections' = [x \in E |-> connections[x]]
      /\ stats' = [stats EXCEPT !.total_disconnections = @ + 1, !.connected_users = @ - 1]
      /\ config' = config
  BY DEF Drop
<1>2. c \in D /\ connections[c].user = u /\ DOMAIN connections' = E /\ E \in SUBSET ConnectionIds
  BY <1>1 DEF AgreeInv, IsConnected
<1>3. IsFiniteSet(E) /\ Cardinality(E) = Cardinality(D) - 1 /\ Cardinality(D) \in Nat
  <2>1. IsFiniteSet(D)
    BY DEF AgreeInv
  <2> HIDE DEF D
  <2> QED BY <1>2, <2>1, FS_RemoveElement, FS_CardinalityType
<1>4. users' \in [Users -> User]
  BY <1>1 DEF AgreeInv, User, UserStatus
<1>5. connections' \in [E -> [user : Users, idle : 0..Timeout + 1]]
  BY <1>1 DEF AgreeInv
<1>6. ASSUME NEW v \in Users
      PROVE  /\ users'[v].status = "connected" <=> users'[v].connection # NoConnection
             /\ users'[v].connection # NoConnection =>
                   /\ users'[v].connection \in E
                   /\ connections'[users'[v].connection].user = v
  <2>1. CASE v = u
    BY <1>1, <2>1 DEF AgreeInv
  <2>2. CASE v # u
    BY <1>1, <1>2, <2>2 DEF AgreeInv
  <2> QED BY <2>1, <2>2
<1>7. /\ stats' \in [connected_users : Int, total_connections : Int, total_disconnections : Int]
      /\ stats'.connected_users = Cardinality(E)
      /\ stats'.total_connections - stats'.total_disconnections = stats'.connected_users
  <2>1. stats \in [connected_users : Int, total_connections : Int, total_disconnections : Int]
    BY DEF AgreeInv
  <2>2. stats' = [connected_users |-> stats.connected_users - 1,
                  total_connections |-> stats.total_connections,
                  total_disconnections |-> stats.total_disconnections + 1]
    BY <1>1, <2>1
  <2> HIDE DEF E
  <2> QED BY <1>3, <2>1, <2>2 DEF AgreeInv
<1>8. SoleInv'
  BY <1>1, <1>2 DEF SoleInv, AgreeInv
<1> QED BY <1>2, <1>3, <1>4, <1>5, <1>6, <1>7, <1>8 DEF AgreeInv
-----------------------------------------------------------------------------
(***************************************************************************)
(* The trail: what was made is on the stack or told, and then what ended.  *)
(***************************************************************************)
LEMMA LogRanges ==
    /\ Range(<<>>) = {}
    /\ Range(<<"connect">>) = {"connect"} /\ Range(<<"disconnect">>) = {"disconnect"}
    /\ Range(<<"connect", "disconnect">>) = Listened
    /\ Range(<<"disconnect", "connect">>) = Listened
BY DEF Range, Listened

LEMMA Pairs ==
    ASSUME NEW a, NEW b
    PROVE  Append(<<a>>, b) = <<a, b>>
<1> DEFINE s == Append(<<a>>, b)
           t == <<a, b>>
<1>1. <<a>> \in Seq({a, b}) /\ b \in {a, b} /\ Len(<<a>>) = 1
  OBVIOUS
<1>2. s \in Seq({a, b}) /\ Len(s) = 2 /\ s[1] = a /\ s[2] = b
  BY <1>1
<1>3. t \in Seq({a, b}) /\ Len(t) = 2 /\ t[1] = a /\ t[2] = b
  OBVIOUS
<1> HIDE DEF s, t
<1>4. s = t
  BY <1>2, <1>3
<1> QED BY <1>4 DEF s, t

LEMMA LogGrows ==
    ASSUME NEW l \in Logs, NEW call \in Listened, call \notin Range(l)
    PROVE  Append(l, call) \in Logs /\ Range(Append(l, call)) = Range(l) \cup {call}
<1>1. CASE l = <<>>
  <2>1. Append(l, call) = <<call>>
    BY <1>1
  <2> QED BY <1>1, <2>1, LogRanges DEF Logs, Listened
<1>2. CASE l = <<"connect">>
  <2>1. call = "disconnect"
    BY <1>2, LogRanges DEF Listened
  <2>2. Append(l, call) = <<"connect", "disconnect">>
    <3>1. Append(<<"connect">>, "disconnect") = <<"connect", "disconnect">>
      BY Pairs
    <3> QED BY <1>2, <2>1, <3>1
  <2> QED BY <1>2, <2>1, <2>2, LogRanges DEF Logs, Listened
<1>3. CASE l = <<"disconnect">>
  <2>1. call = "connect"
    BY <1>3, LogRanges DEF Listened
  <2>2. Append(l, call) = <<"disconnect", "connect">>
    <3>1. Append(<<"disconnect">>, "connect") = <<"disconnect", "connect">>
      BY Pairs
    <3> QED BY <1>3, <2>1, <3>1
  <2> QED BY <1>3, <2>1, <2>2, LogRanges DEF Logs, Listened
<1>4. CASE l \in {<<"connect", "disconnect">>, <<"disconnect", "connect">>}
  BY <1>4, LogRanges
<1> QED BY <1>1, <1>2, <1>3, <1>4 DEF Logs

\* An id that randomUUID may still return names nothing yet.
LEMMA UnusedIsNew ==
    ASSUME AuditInv, NEW c \in ConnectionIds, Unused(c)
    PROVE  ~Made(c) /\ ~Gone(c) /\ c \notin DOMAIN connections
<1>1. ~Made(c)
  BY LogRanges DEF Unused, FramesOf, Made, Happened, Told, On
<1> QED BY <1>1 DEF AuditInv

LEMMA MadeStep ==
    ASSUME AuditInv, NEW c \in ConnectionIds, Unused(c), log' = log,
           DOMAIN connections' = DOMAIN connections \cup {c},
           On(frames', "connect") = On(frames, "connect") \cup {c},
           On(frames', "disconnect") = On(frames, "disconnect")
    PROVE  AuditInv'
<1>1. ~Made(c) /\ ~Gone(c)
  BY UnusedIsNew
<1>2. ASSUME NEW d \in ConnectionIds
      PROVE  /\ Made(d)' <=> Made(d) \/ d = c
             /\ Gone(d)' <=> Gone(d)
             /\ \A call \in Listened : Told(d, call)' <=> Told(d, call)
  BY DEF Made, Gone, Happened, Told
<1> QED BY <1>1, <1>2 DEF AuditInv, Listened, Made, Happened

LEMMA GoneStep ==
    ASSUME AuditInv, NEW c \in DOMAIN connections, c \in ConnectionIds, log' = log,
           DOMAIN connections' = DOMAIN connections \ {c},
           On(frames', "connect") = On(frames, "connect"),
           On(frames', "disconnect") = On(frames, "disconnect") \cup {c}
    PROVE  AuditInv'
<1>1. Made(c) /\ ~Gone(c)
  BY DEF AuditInv
<1>2. ASSUME NEW d \in ConnectionIds
      PROVE  /\ Made(d)' <=> Made(d)
             /\ Gone(d)' <=> Gone(d) \/ d = c
             /\ \A call \in Listened : Told(d, call)' <=> Told(d, call)
  BY DEF Made, Gone, Happened, Told
<1> QED BY <1>1, <1>2 DEF AuditInv, Listened, Gone, Happened

LEMMA ToldStep ==
    ASSUME AuditInv, NEW call \in Listened, NEW c \in ConnectionIds, c \in On(frames, call),
           log' = [log EXCEPT ![c] = Append(@, call)],
           DOMAIN connections' = DOMAIN connections,
           On(frames', call) = On(frames, call) \ {c},
           \A other \in Listened \ {call} : On(frames', other) = On(frames, other)
    PROVE  AuditInv'
<1>1. log[c] \in Logs /\ call \notin Range(log[c])
  BY DEF AuditInv, Told
<1>2. Append(log[c], call) \in Logs /\ Range(Append(log[c], call)) = Range(log[c]) \cup {call}
  BY <1>1, LogGrows
<1>3. log' \in [ConnectionIds -> Logs]
  BY <1>2 DEF AuditInv
<1>4. ASSUME NEW d \in ConnectionIds, NEW other \in Listened
      PROVE  /\ Told(d, other)' <=> Told(d, other) \/ (d = c /\ other = call)
             /\ Happened(d, other)' <=> Happened(d, other)
  <2>1. Told(d, other)' <=> Told(d, other) \/ (d = c /\ other = call)
    BY <1>2 DEF Told, AuditInv
  <2> QED BY <2>1 DEF Happened
<1>5. ASSUME NEW d \in ConnectionIds
      PROVE  (Made(d)' <=> Made(d)) /\ (Gone(d)' <=> Gone(d))
  BY <1>4 DEF Made, Gone, Listened
<1> QED BY <1>3, <1>4, <1>5 DEF AuditInv

LEMMA QuietStep ==
    ASSUME AuditInv, log' = log, DOMAIN connections' = DOMAIN connections,
           \A call \in Listened : On(frames', call) = On(frames, call)
    PROVE  AuditInv'
<1>1. ASSUME NEW d \in ConnectionIds
      PROVE  /\ (Made(d)' <=> Made(d)) /\ (Gone(d)' <=> Gone(d))
             /\ \A call \in Listened : Told(d, call)' <=> Told(d, call)
  BY DEF Made, Gone, Happened, Told, Listened
<1> QED BY <1>1 DEF AuditInv
-----------------------------------------------------------------------------
(***************************************************************************)
(* The stack in each kind of step.                                         *)
(***************************************************************************)
\* f may go on top of s.
Fits(s, f) ==
    /\ f \in Frame /\ Len(s) <= MaxDepth
    /\ f.call = "check" => Len(s) < MaxDepth
    /\ f.call \in Listened => f.connection \notin On(s, f.call)
    /\ ~config.allow_connection_replace => f.call # "replace"

\* t is s with f on top, as far as anybody asks.
Topped(t, s, f) ==
    \A call \in Listened :
       On(t, call) = IF f.call = call THEN On(s, call) \cup {f.connection} ELSE On(s, call)

LEMMA Grown ==
    ASSUME NEW s, SoundStack(s), NEW f, Fits(s, f)
    PROVE  /\ SoundStack(Append(s, f)) /\ Topped(Append(s, f), s, f)
           /\ Len(Append(s, f)) = Len(s) + 1
<1>1. s \in Seq(Frame) /\ f \in Frame /\ Len(s) \in Nat
  BY DEF SoundStack, Fits
<1>2. Topped(Append(s, f), s, f)
  BY <1>1, Pushed DEF Topped
<1> QED BY <1>1, <1>2, Pushed, ConnectionsAssumption DEF SoundStack, Fits, Shallow

\* Below its top a stack is sound, and the top fits there.
LEMMA Shrunk ==
    ASSUME NEW s, SoundStack(s), s # <<>>
    PROVE  /\ SoundStack(Front(s)) /\ Fits(Front(s), Last(s))
           /\ Topped(s, Front(s), Last(s))
           /\ Len(s) = Len(Front(s)) + 1
<1> DEFINE r == Front(s)
           f == Last(s)
<1>1. r \in Seq(Frame) /\ f \in Frame /\ Len(r) = Len(s) - 1 /\ s = Append(r, f) /\ Len(r) \in Nat
  BY Unpushed DEF SoundStack
<1> HIDE DEF r, f
<1>2. Topped(Append(r, f), r, f)
  BY <1>1, Pushed DEF Topped
<1>3. SoundStack(Append(r, f))
  BY <1>1
<1>4. SoundStack(r) /\ Fits(r, f)
  <2>1. Distinct(r) /\ (f.call \in Listened => f.connection \notin On(r, f.call))
    BY <1>1, <1>3, Pushed DEF SoundStack
  <2>2. Replaces(Append(r, f)) <=> Replaces(r) \/ f.call = "replace"
    BY <1>1, Pushed
  <2>3. ~config.allow_connection_replace => ~Replaces(r) /\ f.call # "replace"
    BY <1>3, <2>2 DEF SoundStack
  <2>4. \A i \in DOMAIN Append(r, f) : Append(r, f)[i].call = "check" => i <= MaxDepth
    BY <1>3 DEF SoundStack, Shallow
  <2>5. /\ \A i \in DOMAIN r : r[i].call = "check" => i <= MaxDepth
        /\ f.call = "check" => Len(r) < MaxDepth
    BY <1>1, <2>4, Pushed
  <2>6. Len(r) <= MaxDepth
    BY <1>1, <1>3, ConnectionsAssumption DEF SoundStack, Shallow
  <2>7. Shallow(r)
    BY <1>1, <2>5, <2>6, ConnectionsAssumption DEF Shallow
  <2>8. SoundStack(r)
    BY <1>1, <2>1, <2>3, <2>7 DEF SoundStack
  <2> QED BY <1>1, <2>1, <2>3, <2>5, <2>6, <2>8 DEF Fits
<1>5. Topped(s, r, f) /\ Len(s) = Len(r) + 1
  BY <1>1, <1>2
<1> QED BY <1>4, <1>5 DEF r, f

LEMMA MadeCall ==
    ASSUME SoundStack(frames), MayCall
    PROVE  /\ SoundStack(CallMade) /\ Len(CallMade) = Len(frames)
           /\ \A call \in Listened : On(CallMade, call) = On(frames, call)
BY Called DEF SoundStack, SameStack

LEMMA CallsOne ==
    ASSUME SoundStack(frames), NEW f \in Frame, Calling(<<f>>), f.call # "replace",
           f.call \in Listened => f.connection \notin On(frames, f.call)
    PROVE  SoundStack(frames') /\ Topped(frames', frames, f)
<1>1. MayCall /\ Len(frames) + 1 <= MaxDepth /\ frames' = CallMade \o <<f>>
  BY DEF Calling
<1>2. SoundStack(CallMade) /\ Len(CallMade) = Len(frames) /\ Len(frames) \in Nat
      /\ \A call \in Listened : On(CallMade, call) = On(frames, call)
  BY <1>1, MadeCall DEF SoundStack
<1>3. Fits(CallMade, f)
  BY <1>1, <1>2, ConnectionsAssumption DEF Fits
<1>4. frames' = Append(CallMade, f)
  BY <1>1, <1>2, Concatenated DEF SoundStack
<1> QED BY <1>2, <1>3, <1>4, Grown DEF Topped

LEMMA CallsTwo ==
    ASSUME SoundStack(frames), config.allow_connection_replace, NEW u \in Users, NEW f \in Frame,
           Calling(<<[call |-> "replace", user |-> u], f>>), f.call = "disconnect",
           f.connection \notin On(frames, "disconnect")
    PROVE  SoundStack(frames') /\ Topped(frames', frames, f)
<1> DEFINE g == [call |-> "replace", user |-> u]
<1>0. g \in Frame /\ g.call = "replace"
  BY Frames
<1>1. MayCall /\ Len(frames) + 2 <= MaxDepth /\ frames' = CallMade \o <<g, f>>
  BY DEF Calling
<1> HIDE DEF g
<1>2. SoundStack(CallMade) /\ Len(CallMade) = Len(frames) /\ Len(frames) \in Nat
      /\ \A call \in Listened : On(CallMade, call) = On(frames, call)
  BY <1>1, MadeCall DEF SoundStack
<1>3. Fits(CallMade, g)
  BY <1>0, <1>1, <1>2, ConnectionsAssumption DEF Fits, Listened
<1>4. SoundStack(Append(CallMade, g)) /\ Len(Append(CallMade, g)) = Len(frames) + 1
      /\ \A call \in Listened : On(Append(CallMade, g), call) = On(frames, call)
  BY <1>0, <1>2, <1>3, Grown DEF Topped, Listened
<1>5. Fits(Append(CallMade, g), f)
  BY <1>1, <1>2, <1>4, ConnectionsAssumption DEF Fits, Listened
<1>6. frames' = Append(Append(CallMade, g), f)
  BY <1>0, <1>1, <1>2, Concatenated DEF SoundStack
<1> QED BY <1>4, <1>5, <1>6, Grown DEF Topped
-----------------------------------------------------------------------------
(***************************************************************************)
(* Every step keeps the invariant.                                         *)
(***************************************************************************)
LEMMA Keeps ==
    ASSUME config' = config, SoundStack(frames'), AgreeInv', SoleInv', AuditInv'
    PROVE  ConnectionsInv'
BY DEF ConnectionsInv, SoundStack

\* The connections that are about to be told of, when no listened frame comes or goes.
LEMMA KeepsQuietly ==
    ASSUME ConnectionsInv, config' = config, SoundStack(frames'), AgreeInv', SoleInv',
           log' = log, DOMAIN connections' = DOMAIN connections,
           \A call \in Listened : On(frames', call) = On(frames, call)
    PROVE  ConnectionsInv'
BY QuietStep, Keeps DEF ConnectionsInv

LEMMA MapsKept ==
    ASSUME AgreeInv, SoleInv, UNCHANGED <<config, users, connections, stats>>
    PROVE  AgreeInv' /\ SoleInv'
BY DEF AgreeInv, SoleInv

\* The connection of a user who has one is neither gone nor about to be told gone.
LEMMA Connected ==
    ASSUME ConnectionsInv, NEW u \in Users, IsConnected(u)
    PROVE  /\ DisconnectFrame(u) \in Frame
           /\ DisconnectFrame(u).call = "disconnect"
           /\ DisconnectFrame(u).connection = users[u].connection
           /\ users[u].connection \in DOMAIN connections
           /\ users[u].connection \in ConnectionIds
           /\ users[u].connection \notin On(frames, "disconnect")
<1>1. users[u].connection \in DOMAIN connections /\ users[u].connection \in ConnectionIds
  BY DEF ConnectionsInv, AgreeInv, IsConnected
<1>2. users[u].connection \notin On(frames, "disconnect")
  BY <1>1 DEF ConnectionsInv, AuditInv, Gone, Happened
<1> QED BY <1>1, <1>2, Frames DEF DisconnectFrame, Listening, Listened

LEMMA ConnectStep ==
    ASSUME ConnectionsInv, NEW u \in Users, NEW c \in ConnectionIds, Connect(u, c)
    PROVE  ConnectionsInv'
<1> DEFINE f == Listening("connect", c)
<1>0. f \in Frame /\ f.call = "connect" /\ f.connection = c
  BY Frames DEF Listening, Listened
<1>1. ~IsConnected(u) /\ Calling(<<f>>) /\ Establish(u, c)
  BY DEF Connect
<1> HIDE DEF f
<1>2. Unused(c) /\ log' = log /\ config' = config
  BY <1>1 DEF Establish
<1>3. c \notin DOMAIN connections /\ c \notin On(frames, "connect")
  BY <1>2, UnusedIsNew DEF ConnectionsInv, Made, Happened
<1>4. SoundStack(frames') /\ Topped(frames', frames, f)
  BY <1>0, <1>1, <1>3, CallsOne DEF ConnectionsInv
<1>5. AgreeInv' /\ SoleInv' /\ DOMAIN connections' = DOMAIN connections \cup {c}
  BY <1>1, <1>3, Establishes DEF ConnectionsInv
<1>6. AuditInv'
  BY <1>0, <1>2, <1>4, <1>5, MadeStep DEF ConnectionsInv, Topped, Listened
<1> QED BY <1>2, <1>4, <1>5, <1>6, Keeps

LEMMA ReplaceStep ==
    ASSUME ConnectionsInv, NEW c \in ConnectionIds, Replace(c)
    PROVE  ConnectionsInv'
<1> DEFINE g == Listening("connect", c)
           r == Front(frames)
           f == Last(frames)
<1>0. g \in Frame /\ g.call = "connect" /\ g.connection = c
  BY Frames DEF Listening, Listened
<1>1. frames # <<>> /\ f.call = "replace" /\ frames' = Append(r, g) /\ Establish(f.user, c)
  BY DEF Replace, TopIs, Idle
<1>2. SoundStack(r) /\ Fits(r, f) /\ Topped(frames, r, f)
  BY <1>1, Shrunk DEF ConnectionsInv
<1> HIDE DEF g, r, f
<1>3. f.user \in Users /\ (~config.allow_connection_replace => FALSE)
  BY <1>1, <1>2, Frames DEF Fits
<1>4. Unused(c) /\ log' = log /\ config' = config
  BY <1>1 DEF Establish
<1>5. c \notin DOMAIN connections /\ c \notin On(frames, "connect")
  BY <1>4, UnusedIsNew DEF ConnectionsInv, Made, Happened
<1>6. \A call \in Listened : On(frames, call) = On(r, call)
  BY <1>1, <1>2 DEF Topped, Listened
<1>7. SoundStack(frames') /\ Topped(frames', r, g)
  <2>1. Fits(r, g)
    BY <1>0, <1>2, <1>5, <1>6 DEF Fits, Listened
  <2> QED BY <1>1, <1>2, <2>1, Grown
<1>8. AgreeInv' /\ SoleInv' /\ DOMAIN connections' = DOMAIN connections \cup {c}
  BY <1>1, <1>3, <1>5, Establishes DEF ConnectionsInv
<1>9. AuditInv'
  BY <1>0, <1>4, <1>6, <1>7, <1>8, MadeStep DEF ConnectionsInv, Topped, Listened
<1> QED BY <1>4, <1>7, <1>8, <1>9, Keeps

\* A connection leaves the map while its disconnect goes on the stack.
LEMMA DropStep ==
    ASSUME ConnectionsInv, NEW u \in Users, IsConnected(u),
           NEW status \in {"disconnected", "kicked"}, Drop(u, status),
           SoundStack(frames'), NEW s, Topped(frames', s, DisconnectFrame(u)),
           \A call \in Listened : On(s, call) = On(frames, call)
    PROVE  ConnectionsInv'
<1>1. log' = log /\ config' = config
  BY DEF Drop
<1>2. AgreeInv' /\ SoleInv' /\ DOMAIN connections' = DOMAIN connections \ {users[u].connection}
  BY Drops DEF ConnectionsInv
<1>3. /\ On(frames', "connect") = On(frames, "connect")
      /\ On(frames', "disconnect") = On(frames, "disconnect") \cup {users[u].connection}
  BY Connected DEF Topped, Listened
<1>4. AuditInv'
  BY <1>1, <1>2, <1>3, Connected, GoneStep DEF ConnectionsInv
<1> QED BY <1>1, <1>2, <1>4, Keeps

LEMMA DisconnectStep ==
    ASSUME ConnectionsInv, NEW u \in Users, NEW status \in {"disconnected", "kicked"},
           Disconnect(u, status)
    PROVE  ConnectionsInv'
<1>1. IsConnected(u) /\ Calling(<<DisconnectFrame(u)>>) /\ Drop(u, status)
  BY DEF Disconnect
<1>2. SoundStack(frames') /\ Topped(frames', frames, DisconnectFrame(u))
  BY <1>1, Connected, CallsOne DEF ConnectionsInv
<1> QED BY <1>1, <1>2, DropStep

LEMMA ReplacingStep ==
    ASSUME ConnectionsInv, NEW u \in Users, ConnectReplacing(u)
    PROVE  ConnectionsInv'
<1>1. /\ IsConnected(u) /\ config.allow_connection_replace
      /\ Calling(<<[call |-> "replace", user |-> u], DisconnectFrame(u)>>)
      /\ Drop(u, "disconnected")
  BY DEF ConnectReplacing
<1>2. SoundStack(frames') /\ Topped(frames', frames, DisconnectFrame(u))
  BY <1>1, Connected, CallsTwo DEF ConnectionsInv
<1> QED BY <1>1, <1>2, DropStep

LEMMA CheckUserStep ==
    ASSUME ConnectionsInv, NEW u \in Users, CheckUser(u)
    PROVE  ConnectionsInv'
<1> DEFINE r == Front(frames)
           f == Last(frames)
           g == [call |-> "check", queue |-> f.queue \ {u}]
           rest == Append(r, g)
<1>1. frames # <<>> /\ f.call = "check"
  BY DEF CheckUser, TopIs, Idle
<1>2. SoundStack(r) /\ Fits(r, f) /\ Topped(frames, r, f)
  BY <1>1, Shrunk DEF ConnectionsInv
<1>3. \/ TimesOut(u) /\ frames' = Append(rest, DisconnectFrame(u)) /\ Drop(u, "disconnected")
      \/ frames' = rest /\ UNCHANGED <<config, users, connections, stats, log, timer>>
  BY DEF CheckUser
<1> HIDE DEF r, f
<1>4. g \in Frame /\ g.call = "check"
  BY <1>1, <1>2, Frames DEF Fits
<1> HIDE DEF g
<1>5. Fits(r, g) /\ Len(r) < MaxDepth /\ Len(r) \in Nat
  BY <1>1, <1>2, <1>4 DEF Fits, Listened, SoundStack
<1>6. SoundStack(rest) /\ Len(rest) = Len(r) + 1 /\ Topped(rest, r, g)
  BY <1>2, <1>5, Grown
<1> HIDE DEF rest
<1>7. \A call \in Listened : On(rest, call) = On(frames, call)
  BY <1>1, <1>2, <1>4, <1>6 DEF Topped, Listened
<1>8. CASE TimesOut(u) /\ frames' = Append(rest, DisconnectFrame(u)) /\ Drop(u, "disconnected")
  <2>1. IsConnected(u)
    BY <1>8 DEF TimesOut
  <2>2. Fits(rest, DisconnectFrame(u))
    BY <1>5, <1>6, <1>7, <2>1, Connected, ConnectionsAssumption DEF Fits, Listened
  <2>3. SoundStack(frames') /\ Topped(frames', rest, DisconnectFrame(u))
    BY <1>6, <1>8, <2>2, Grown
  <2> QED BY <1>7, <1>8, <2>1, <2>3, DropStep
<1>9. CASE frames' = rest /\ UNCHANGED <<config, users, connections, stats, log, timer>>
  BY <1>6, <1>7, <1>9, MapsKept, KeepsQuietly DEF ConnectionsInv
<1> QED BY <1>3, <1>8, <1>9

LEMMA ReturnStep ==
    ASSUME ConnectionsInv, ReturnFromListeners
    PROVE  ConnectionsInv'
<1> DEFINE r == Front(frames)
           f == Last(frames)
<1>1. /\ frames # <<>> /\ f.call \in {"connect", "disconnect", "reject"} /\ frames' = r
      /\ log' = IF f.call = "reject" THEN log
                ELSE [log EXCEPT ![f.connection] = Append(@, f.call)]
      /\ UNCHANGED <<config, users, connections, stats, timer>>
  BY DEF ReturnFromListeners, TopIs, Idle
<1>2. SoundStack(r) /\ Fits(r, f) /\ Topped(frames, r, f)
  BY <1>1, Shrunk DEF ConnectionsInv
<1> HIDE DEF r, f
<1>3. AgreeInv' /\ SoleInv'
  BY <1>1, MapsKept DEF ConnectionsInv
<1>4. CASE f.call = "reject"
  <2>1. \A call \in Listened : On(frames', call) = On(frames, call)
    BY <1>1, <1>2, <1>4 DEF Topped, Listened
  <2> QED BY <1>1, <1>2, <1>3, <1>4, <2>1, KeepsQuietly
<1>5. CASE f.call \in Listened
  <2>1. f.connection \in ConnectionIds /\ f.connection \notin On(r, f.call)
    BY <1>2, <1>5, Frames DEF Fits
  <2>2. /\ On(frames, f.call) = On(r, f.call) \cup {f.connection}
        /\ \A other \in Listened \ {f.call} : On(frames, other) = On(r, other)
    BY <1>2, <1>5 DEF Topped
  <2>3. log' = [log EXCEPT ![f.connection] = Append(@, f.call)]
    BY <1>1, <1>5 DEF Listened
  <2>4. /\ f.connection \in On(frames, f.call)
        /\ On(frames', f.call) = On(frames, f.call) \ {f.connection}
        /\ \A other \in Listened \ {f.call} : On(frames', other) = On(frames, other)
    BY <1>1, <2>1, <2>2
  <2>5. AuditInv'
    BY <1>1, <1>5, <2>1, <2>3, <2>4, ToldStep DEF ConnectionsInv
  <2> QED BY <1>1, <1>2, <1>3, <2>5, Keeps
<1> QED BY <1>1, <1>4, <1>5 DEF Listened

\* A call that leaves no frame behind.
LEMMA CallMadeQuietly ==
    ASSUME ConnectionsInv, MayCall, frames' = CallMade, config' = config, log' = log,
           AgreeInv', SoleInv', DOMAIN connections' = DOMAIN connections
    PROVE  ConnectionsInv'
<1>1. SoundStack(frames') /\ \A call \in Listened : On(frames', call) = On(frames, call)
  BY MadeCall DEF ConnectionsInv
<1> QED BY <1>1, KeepsQuietly

LEMMA RegisterStep ==
    ASSUME ConnectionsInv, NEW u \in Users, RegisterUser(u)
    PROVE  ConnectionsInv'
<1>1. /\ MayCall /\ users[u] = None /\ frames' = CallMade
      /\ users' = [users EXCEPT ![u].status = "disconnected"]
      /\ UNCHANGED <<config, connections, stats, log>>
  BY DEF RegisterUser
<1>2. users[u].status # "connected" /\ users[u].connection = NoConnection
  BY <1>1 DEF None
<1>3. users \in [Users -> User]
  BY DEF ConnectionsInv, AgreeInv
<1>4. /\ users' \in [Users -> User]
      /\ users'[u].status = "disconnected" /\ users'[u].connection = NoConnection
      /\ \A v \in Users : v # u => users'[v] = users[v]
  <2>1. [users[u] EXCEPT !.status = "disconnected"]
           = [status |-> "disconnected", connection |-> NoConnection]
    BY <1>1 DEF None
  <2>2. users' = [users EXCEPT ![u] = [users[u] EXCEPT !.status = "disconnected"]]
    BY <1>1
  <2> QED BY <1>3, <2>1, <2>2 DEF User, UserStatus
<1>5. \A v \in Users :
         /\ users'[v].connection = users[v].connection
         /\ users'[v].status = "connected" <=> users[v].status = "connected"
  BY <1>2, <1>4
<1>6. AgreeInv'
  BY <1>1, <1>4, <1>5 DEF ConnectionsInv, AgreeInv
<1>7. SoleInv'
  <2>1. \A c \in DOMAIN connections : connections[c].user \in Users
    BY DEF ConnectionsInv, AgreeInv
  <2> QED BY <1>1, <1>5, <2>1 DEF ConnectionsInv, SoleInv
<1> QED BY <1>1, <1>6, <1>7, CallMadeQuietly

\* Only inactivity changes in the connection map.
LEMMA IdleKept ==
    ASSUME AgreeInv, SoleInv, UNCHANGED <<config, users, stats>>,
           connections' \in [DOMAIN connections -> [user : Users, idle : 0..Timeout + 1]],
           \A c \in DOMAIN connections : connections'[c].user = connections[c].user
    PROVE  AgreeInv' /\ SoleInv' /\ DOMAIN connections' = DOMAIN connections
<1>1. DOMAIN connections' = DOMAIN connections
  OBVIOUS
<1>2. AgreeInv'
  BY <1>1 DEF AgreeInv
<1> QED BY <1>1, <1>2 DEF SoleInv

LEMMA ActivityStep ==
    ASSUME ConnectionsInv, NEW u \in Users, UpdateActivity(u)
    PROVE  ConnectionsInv'
<1> DEFINE c == users[u].connection
           D == DOMAIN connections
<1>1. /\ MayCall /\ frames' = CallMade /\ c # NoConnection
      /\ connections' = [connections EXCEPT ![c].idle = 0]
      /\ UNCHANGED <<config, users, stats, log>>
  BY DEF UpdateActivity
<1>2. c \in D /\ connections \in [D -> [user : Users, idle : 0..Timeout + 1]]
  BY <1>1 DEF ConnectionsInv, AgreeInv
<1>3. connections' = [connections EXCEPT ![c] = [connections[c] EXCEPT !.idle = 0]]
  BY <1>1
<1>4. /\ [connections[c] EXCEPT !.idle = 0] \in [user : Users, idle : 0..Timeout + 1]
      /\ [connections[c] EXCEPT !.idle = 0].user = connections[c].user
  BY <1>2, ConnectionsAssumption
<1>5. /\ connections' \in [D -> [user : Users, idle : 0..Timeout + 1]]
      /\ \A d \in D : connections'[d].user = connections[d].user
  BY <1>2, <1>3, <1>4
<1>6. AgreeInv' /\ SoleInv' /\ DOMAIN connections' = DOMAIN connections
  BY <1>1, <1>5, IdleKept DEF ConnectionsInv
<1> QED BY <1>1, <1>6, CallMadeQuietly

LEMMA TickStep ==
    ASSUME ConnectionsInv, Tick
    PROVE  ConnectionsInv'
<1> DEFINE D == DOMAIN connections
           Aged(x) == [x EXCEPT !.idle = IF @ <= Timeout THEN @ + 1 ELSE @]
<1>1. /\ connections' = [c \in D |-> Aged(connections[c])]
      /\ UNCHANGED <<config, users, stats, log, frames>>
  BY DEF Tick
<1>2. connections \in [D -> [user : Users, idle : 0..Timeout + 1]]
  BY DEF ConnectionsInv, AgreeInv
<1>3. \A x \in [user : Users, idle : 0..Timeout + 1] :
         Aged(x) \in [user : Users, idle : 0..Timeout + 1] /\ Aged(x).user = x.user
  BY ConnectionsAssumption
<1> HIDE DEF Aged
<1>4. /\ connections' \in [D -> [user : Users, idle : 0..Timeout + 1]]
      /\ \A d \in D : connections'[d].user = connections[d].user
  BY <1>1, <1>2, <1>3
<1>5. AgreeInv' /\ SoleInv' /\ DOMAIN connections' = DOMAIN connections
  BY <1>1, <1>4, IdleKept DEF ConnectionsInv
<1> QED BY <1>1, <1>5, KeepsQuietly DEF ConnectionsInv

LEMMA QuietCallStep ==
    ASSUME ConnectionsInv, NEW f \in Frame, Calling(<<f>>), f.call \in {"reject", "check"},
           UNCHANGED <<config, users, connections, stats, log>>
    PROVE  ConnectionsInv'
<1>1. SoundStack(frames') /\ \A call \in Listened : On(frames', call) = On(frames, call)
  BY CallsOne DEF ConnectionsInv, Topped, Listened
<1> QED BY <1>1, MapsKept, KeepsQuietly DEF ConnectionsInv

LEMMA CheckReturnsStep ==
    ASSUME ConnectionsInv, CheckReturns
    PROVE  ConnectionsInv'
<1>1. /\ frames # <<>> /\ Last(frames).call = "check" /\ frames' = Front(frames)
      /\ UNCHANGED <<config, users, connections, stats, log>>
  BY DEF CheckReturns, TopIs, Idle
<1>2. SoundStack(frames') /\ \A call \in Listened : On(frames', call) = On(frames, call)
  BY <1>1, Shrunk DEF ConnectionsInv, Topped, Listened
<1> QED BY <1>1, <1>2, MapsKept, KeepsQuietly DEF ConnectionsInv

LEMMA ConnectionsStep ==
    ASSUME ConnectionsInv, [Next]_connVars
    PROVE  ConnectionsInv'
<1>1. ASSUME NEW u \in Users, ConnectRejected(u) PROVE ConnectionsInv'
  BY <1>1, QuietCallStep, Frames DEF ConnectRejected
<1>2. ASSUME CheckTimeouts PROVE ConnectionsInv'
  <2> DEFINE f == [call |-> "check", queue |-> {u \in Users : users[u] # None}]
  <2>1. f \in Frame /\ f.call = "check"
    BY Frames
  <2>2. Calling(<<f>>) /\ UNCHANGED <<config, users, connections, stats, log>>
    BY <1>2 DEF CheckTimeouts
  <2> HIDE DEF f
  <2> QED BY <2>1, <2>2, QuietCallStep
<1>3. ASSUME StartTimeoutChecks \/ StopTimeoutChecks PROVE ConnectionsInv'
  BY <1>3, MapsKept, CallMadeQuietly DEF StartTimeoutChecks, StopTimeoutChecks, ConnectionsInv
<1>4. ASSUME UNCHANGED connVars PROVE ConnectionsInv'
  BY <1>4, MapsKept, KeepsQuietly DEF connVars, ConnectionsInv
<1> QED BY <1>1, <1>2, <1>3, <1>4, ConnectStep, ReplaceStep, DisconnectStep, ReplacingStep,
           CheckUserStep, ReturnStep, RegisterStep, ActivityStep, TickStep, CheckReturnsStep
        DEF Next, TimerFires, RunToCompletion

LEMMA ConnectionsInvariant == Spec => []ConnectionsInv
<1>1. Init => ConnectionsInv
  <2> SUFFICES ASSUME Init PROVE ConnectionsInv
    OBVIOUS
  <2>1. DOMAIN connections = {} /\ IsFiniteSet({}) /\ Cardinality({}) = 0
    BY FS_EmptySet DEF Init
  <2>2. SoundStack(frames) /\ \A call : On(frames, call) = {}
    BY ConnectionsAssumption DEF Init, SoundStack, Distinct, Shallow, Replaces, On
  <2>3. connections \in [DOMAIN connections -> [user : Users, idle : 0..Timeout + 1]]
    BY DEF Init
  <2>4. AgreeInv
    BY <2>1, <2>3 DEF Init, AgreeInv, None, User, UserStatus
  <2>5. SoleInv
    BY <2>1 DEF SoleInv
  <2>6. AuditInv
    BY <2>1, <2>2, LogRanges DEF Init, AuditInv, Logs, Made, Gone, Happened, Told
  <2> QED BY <2>2, <2>4, <2>5, <2>6 DEF ConnectionsInv
<1>2. ConnectionsInv /\ [Next]_connVars => ConnectionsInv'
  BY ConnectionsStep
<1> QED BY <1>1, <1>2, PTL DEF Spec
-----------------------------------------------------------------------------
(***************************************************************************)
(* What follows.                                                           *)
(***************************************************************************)
\* UserManager keeps its two maps and its counters in step: a user is connected exactly
\* while the connection map has his connection under his id, also in the middle of calls
\* nested through listeners.
THEOREM MapsAndCountersAgree == Spec => []ConnectionsAgree
<1>1. ConnectionsInv => ConnectionsAgree
  <2> SUFFICES ASSUME ConnectionsInv PROVE ConnectionsAgree
    OBVIOUS
  <2> DEFINE R == [user : Users, idle : 0..Timeout + 1]
  <2>1. connections \in UNION {[S -> R] : S \in SUBSET ConnectionIds}
    <3>1. connections \in [DOMAIN connections -> R] /\ DOMAIN connections \in SUBSET ConnectionIds
      BY DEF ConnectionsInv, AgreeInv
    <3> QED BY <3>1
  <2>2. frames \in Seq(Frame) /\ Len(frames) <= MaxDepth + 1
    BY DEF ConnectionsInv, SoundStack, Shallow
  <2>3. ASSUME NEW u \in Users
        PROVE  /\ (users[u].status = "connected") = (users[u].connection # NoConnection)
               /\ users[u].connection # NoConnection => users[u].connection \in Owned(u)
    BY DEF ConnectionsInv, AgreeInv, Owned
  <2>4. /\ users \in [Users -> User]
        /\ stats.connected_users = Cardinality(DOMAIN connections)
        /\ stats.total_connections - stats.total_disconnections = stats.connected_users
    BY DEF ConnectionsInv, AgreeInv
  <2> HIDE DEF R
  <2> QED BY <2>1, <2>2, <2>3, <2>4 DEF ConnectionsAgree, R
<1> QED BY <1>1, ConnectionsInvariant, PTL

\* UserManager.connect without allow_connection_replace: one instance per user, whatever
\* listeners call between the rejection or the disconnect and what follows.
THEOREM OneInstance == Spec => []OneInstancePerUser
<1>1. ConnectionsInv => OneInstancePerUser
  <2> SUFFICES ASSUME ConnectionsInv, ~config.allow_connection_replace, NEW u \in Users
               PROVE  Cardinality(Owned(u)) <= 1
    BY DEF OneInstancePerUser
  <2> DEFINE c == users[u].connection
  <2>1. Owned(u) \subseteq {c}
    BY DEF ConnectionsInv, SoleInv, Owned
  <2>2. IsFiniteSet({c}) /\ Cardinality({c}) = 1
    BY FS_Singleton
  <2> HIDE DEF c
  <2> QED BY <2>1, <2>2, FS_Subset, FS_CardinalityType
<1> QED BY <1>1, ConnectionsInvariant, PTL

\* The audit logger is told once of every connection made and once of every one that
\* ended, though each is told only after the listeners, which may end the connection first.
THEOREM AuditAccounts == Spec => []AuditAccountsForConnections
<1>1. ConnectionsInv => AuditAccountsForConnections
  <2> SUFFICES ASSUME ConnectionsInv, Idle, NEW c \in ConnectionIds
               PROVE  /\ Len(log[c]) = Cardinality(Range(log[c]))
                      /\ "disconnect" \in Range(log[c]) => "connect" \in Range(log[c])
                      /\ c \in DOMAIN connections <=> Range(log[c]) = {"connect"}
    BY DEF AuditAccountsForConnections
  <2>1. On(frames, "connect") = {} /\ On(frames, "disconnect") = {}
    BY DEF Idle, On
  <2>2. /\ Made(c) <=> "connect" \in Range(log[c])
        /\ Gone(c) <=> "disconnect" \in Range(log[c])
    BY <2>1 DEF Made, Gone, Happened, Told
  <2>3. log[c] \in Logs /\ Range(log[c]) \subseteq Listened
    BY LogRanges DEF ConnectionsInv, AuditInv, Logs, Listened
  <2>4. /\ "disconnect" \in Range(log[c]) => "connect" \in Range(log[c])
        /\ c \in DOMAIN connections <=>
              "connect" \in Range(log[c]) /\ "disconnect" \notin Range(log[c])
    BY <2>2 DEF ConnectionsInv, AuditInv
  <2>5. Range(log[c]) = {"connect"} <=>
           "connect" \in Range(log[c]) /\ "disconnect" \notin Range(log[c])
    BY <2>3 DEF Listened
  <2>6. Len(log[c]) = Cardinality(Range(log[c]))
    <3>1. /\ Cardinality({}) = 0 /\ Cardinality({"connect"}) = 1
          /\ Cardinality({"disconnect"}) = 1 /\ Cardinality(Listened) = 2
      <4>1. Listened = {"connect"} \cup {"disconnect"} /\ "disconnect" \notin {"connect"}
        BY DEF Listened
      <4>2. Cardinality({}) = 0 /\ IsFiniteSet({"connect"}) /\ Cardinality({"connect"}) = 1
            /\ Cardinality({"disconnect"}) = 1
        BY FS_EmptySet, FS_Singleton
      <4>3. Cardinality({"connect"} \cup {"disconnect"}) = Cardinality({"connect"}) + 1
        BY <4>1, <4>2, FS_AddElement
      <4> QED BY <4>1, <4>2, <4>3
    <3>2. /\ Len(<<>>) = 0 /\ Len(<<"connect">>) = 1 /\ Len(<<"disconnect">>) = 1
          /\ Len(<<"connect", "disconnect">>) = 2 /\ Len(<<"disconnect", "connect">>) = 2
      OBVIOUS
    <3>3. \A l \in Logs : Len(l) = Cardinality(Range(l))
      BY <3>1, <3>2, LogRanges, Zenon DEF Logs
    <3> QED BY <2>3, <3>3
  <2> QED BY <2>4, <2>5, <2>6
<1> QED BY <1>1, ConnectionsInvariant, PTL
=============================================================================
