--------------------------- MODULE SessionProofs ---------------------------
(***************************************************************************)
(* Proofs about Exec: a kernel process is always within reach of the front *)
(* end, and a session is always the buffer's or that of a call under way.  *)
(* Both follow from what the calls under way may be for: one invariant,    *)
(* SInv, about the buffer's session, the calls that open, launch in and    *)
(* close sessions, and the process whose backend holds them.  KInv adds    *)
(* the answers that are not read: a kernel that the front end takes for    *)
(* started is there, or the news of its exit is on its way.                *)
(***************************************************************************)
EXTENDS ExecProofs

-----------------------------------------------------------------------------
(* The buffer and the calls under way.                                     *)

(* A launch in the buffer's session is the one that it waits for; the      *)
(* session to be closed is not the buffer's.                               *)
SessionGood(x, b, ls) ==
    /\ x.kind = "start_kernel" =>
        /\ x.session \in 1..ls
        /\ x.session = b.session <=> x.start = b.starting.id
        /\ x.session = b.session => b.starting.launching
    /\ x.kind = "close" => x.session \in 1..ls /\ x.session # b.session

(* Two calls under way: a session is launched in by one start only, and    *)
(* is being opened, launched in or closed.                                 *)
Clear(x, y) ==
    /\ x.kind = "close" /\ y.kind = "start_kernel" => x.session # y.session
    /\ x.kind \in {"close", "start_kernel"} /\ y.kind = "open_py" => x.session # y.start
    /\ x.kind = "start_kernel" /\ y.kind = "start_kernel" /\ x.session = y.session =>
        x.start = y.start

Sessions(b, T, ls) ==
    /\ \A x \in T : SessionGood(x, b, ls)
    /\ \A x, y \in T : Clear(x, y)

(* The pending calls whose replies make session s the buffer's or close it.*)
Owns(x, s) ==
    \/ x.kind = "open_py" /\ x.start = s
    \/ x.kind \in {"start_kernel", "close"} /\ x.session = s

Launches(x, s) == x.kind = "start_kernel" /\ x.session = s

CallsOf(cs, c) == {cs[c][i] : i \in 1..Len(cs[c])}

(* A session held by a backend is owned, and one that is to be launched in *)
(* is: but for those that call z, which has just been answered, owned.     *)
Claims(z, s) == Owns(z, s) /\ live[s] = z.client

Kept(b, cs, z) ==
    \A s \in Starts : live[s] # 0 /\ ~Claims(z, s) =>
        /\ b.session = s \/ \E y \in CallsOf(cs, live[s]) : Owns(y, s)
        /\ b.session = s /\ b.starting.launching =>
            \E y \in CallsOf(cs, live[s]) : Launches(y, s)

LanesOwned(cs) == \A c \in Clients : \A x \in CallsOf(cs, c) : x.client = c

-----------------------------------------------------------------------------
(* The processes.                                                          *)

OnExit(l, j) == l[j].type = "on_exit"

(* One callback tells the front end of the exit of its client's backend.   *)
Told(l, c) ==
    /\ \A j \in 1..Len(l) : OnExit(l, j) => c # 0 /\ l[j].call.client = c /\ exited[c]
    /\ \A i, j \in 1..Len(l) : OnExit(l, i) /\ OnExit(l, j) => i = j

(* One backend at a time has not exited for the front end.                 *)
Processes ==
    /\ client # 0 => backend[client] # "unborn"
    /\ \A c \in Clients : exited[c] \/ closed[c] => backend[c] = "dead"
    /\ \A c \in Clients : backend[c] # "unborn" /\ c # client => exited[c]
    /\ Told(loop, client)

(* A session is held by a backend that runs.                               *)
HeldGood == \A s \in Starts : live[s] # 0 => live[s] \in Clients /\ backend[live[s]] = "up"

(* What a call knows of its session: it is held while the launch is under  *)
(* way, and not once it is closed.                                         *)
LaunchGood(x) ==
    x.kind = "start_kernel" /\ x.stage = "begun" =>
        x.client \in Clients /\ (live[x.session] = x.client \/ backend[x.client] = "dead")
CloseGood(x) ==
    x.kind = "close" /\ x.stage = "answered" =>
        x.client \in Clients /\ live[x.session] # x.client

(* The frames not read.                                                    *)
FrameGood(f) ==
    /\ f.type # "on_exit"
    /\ f.type = "reply" =>
        f.call.stage = "answered" /\ (f.call.kind = "open_py" => f.err = "ok")

KernelGood(k) ==
    kernel[k].st \in {"running", "dead"} =>
        /\ kernel[k].session \in Starts /\ kernel[k].client \in Clients
        /\ slot[kernel[k].session] = k
        /\ live[kernel[k].session] = kernel[k].client

SInv ==
    /\ Processes
    /\ LanesOwned(calls)
    /\ Sessions(buf, Within(Lanes(calls, loop)), lastStart)
    /\ Kept(buf, calls, NoCall)
    /\ HeldGood
    /\ \A x \in Within(Lanes(calls, loop)) : LaunchGood(x) /\ CloseGood(x)
    /\ \A f \in Frames(pipe) : FrameGood(f)
    /\ \A k \in Starts : KernelGood(k)

-----------------------------------------------------------------------------
(* What a change of the buffer state, and a new call, leave good.          *)

LEMMA SessionsGrow ==
    ASSUME NEW b, NEW e, NEW T, NEW U, NEW y, NEW ls, NEW m, Sessions(b, T, ls),
           \A x \in U : x = y \/ x \in T,
           \A x \in T : SessionGood(x, e, m) /\ Clear(x, y) /\ Clear(y, x),
           SessionGood(y, e, m), Clear(y, y)
    PROVE  Sessions(e, U, m)
BY DEF Sessions

(* What only the runs or the callbacks of a start see changes.             *)
Same(b, e) ==
    /\ e.session = b.session
    /\ e.starting.id = b.starting.id
    /\ e.starting.launching = b.starting.launching

OfSession(x) == x.kind \in {"open_py", "start_kernel", "close"}

LEMMA SameSessions ==
    ASSUME NEW b, NEW e, NEW T, NEW ls, Sessions(b, T, ls), Same(b, e)
    PROVE  Sessions(e, T, ls)
BY DEF Sessions, SessionGood, Same

LEMMA OtherSessions ==
    ASSUME NEW b, NEW e, NEW T, NEW U, NEW y, NEW ls, Sessions(b, T, ls), Same(b, e),
           \A x \in U : x = y \/ x \in T, ~OfSession(y)
    PROVE  Sessions(e, U, ls)
<1>1. SessionGood(y, e, ls) /\ \A x \in T : Clear(x, y) /\ Clear(y, x)
  BY DEF SessionGood, Clear, OfSession
<1>2. Clear(y, y)
  BY DEF Clear, OfSession
<1>3. \A x \in T : SessionGood(x, e, ls)
  BY SameSessions DEF Sessions
<1> QED
  BY <1>1, <1>2, <1>3, SessionsGrow

(* The starts of the calls under way have begun, and a session is opened   *)
(* for the buffer only if it has none.                                     *)
StartsGood(b, T, ls) ==
    /\ ls \in Nat /\ b.session \in 0..ls
    /\ \A x \in T : /\ OfStart(x) => x.start \in 1..ls
                    /\ x.kind = "open_py" => x.start # b.session

(* A start or a stop begins.                                               *)
LEMMA SessionsBegun ==
    ASSUME NEW b, NEW T, NEW ls, Sessions(b, T, ls), StartsGood(b, T, ls), b.starting = NoStart,
           NEW e, e.session = b.session, e.starting.id = ls + 1,
           NEW kind \in {"open_py", "start_kernel", "stop_kernel"}, NEW c,
           e.starting.launching <=> kind = "start_kernel",
           kind = "start_kernel" => b.session # 0,
           NEW U, \A x \in U : x = StartCall(kind, c, ls + 1, b.session) \/ x \in T
    PROVE  Sessions(e, U, ls + 1)
<1> DEFINE y == StartCall(kind, c, ls + 1, b.session)
<1>1. y.kind = kind /\ y.start = ls + 1 /\ y.session = b.session
  BY StartCallFields
<1>2. ls \in Nat /\ b.session \in 0..ls /\ b.starting.id = 0
  BY NoStartFields DEF StartsGood
<1>3. \A x \in T : x \in U \/ x \in T
  OBVIOUS
<1> HIDE DEF y
<1>4. ASSUME NEW x \in T, x.kind = "start_kernel"
      PROVE  x.start \in 1..ls /\ x.session \in 1..ls /\ x.session # b.session
  <2>1. SessionGood(x, b, ls)
    BY DEF Sessions
  <2>2. x.start \in 1..ls
    BY <1>4 DEF StartsGood, OfStart, StartKinds
  <2> QED
    BY <1>2, <1>4, <2>1, <2>2 DEF SessionGood
<1>5. ASSUME NEW x \in T, x.kind = "close"
      PROVE  x.session \in 1..ls /\ x.session # b.session
  BY <1>5 DEF Sessions, SessionGood
<1>6. ASSUME NEW x \in T, x.kind = "open_py"
      PROVE  x.start \in 1..ls /\ x.start # b.session
  BY <1>6 DEF StartsGood, OfStart, StartKinds
<1>7. ASSUME NEW x \in T PROVE SessionGood(x, e, ls + 1)
  <2>1. CASE x.kind = "start_kernel"
    <3>1. x.session \in 1..(ls + 1) /\ x.session # e.session /\ x.start # e.starting.id
      BY <1>2, <1>4, <2>1
    <3> QED
      BY <2>1, <3>1 DEF SessionGood
  <2>2. CASE x.kind = "close"
    <3>1. x.session \in 1..(ls + 1) /\ x.session # e.session
      BY <1>2, <1>5, <2>2
    <3> QED
      BY <2>2, <3>1 DEF SessionGood
  <2> QED
    BY <2>1, <2>2 DEF SessionGood
<1>8. ASSUME NEW x \in T PROVE Clear(x, y) /\ Clear(y, x)
  <2>1. CASE x.kind = "start_kernel"
    BY <1>1, <1>2, <1>4, <2>1 DEF Clear
  <2>2. CASE x.kind = "close"
    BY <1>1, <1>2, <1>5, <2>2 DEF Clear
  <2>3. CASE x.kind = "open_py"
    BY <1>1, <1>2, <1>6, <2>3 DEF Clear
  <2> QED
    BY <1>1, <2>1, <2>2, <2>3 DEF Clear
<1>9. SessionGood(y, e, ls + 1)
  BY <1>1, <1>2 DEF SessionGood
<1>10. Clear(y, y)
  BY <1>1 DEF Clear
<1> QED
  BY <1>7, <1>8, <1>9, <1>10, SessionsGrow DEF y

(* The start in flight ends, and none of its calls is under way.           *)
LEMMA SessionsEnded ==
    ASSUME NEW b, NEW T, NEW ls, Sessions(b, T, ls), StartsGood(b, T, ls),
           \A x \in T : OfStart(x) => x.start # b.starting.id,
           NEW e, e.session = b.session, e.starting = NoStart
    PROVE  Sessions(e, T, ls)
<1>1. e.starting.id = 0
  BY NoStartFields
<1>2. ASSUME NEW x \in T PROVE SessionGood(x, e, ls)
  <2>1. SessionGood(x, b, ls)
    BY DEF Sessions
  <2>2. x.kind = "start_kernel" => x.start # b.starting.id /\ x.start \in 1..ls /\ x.start # 0
    BY DEF StartsGood, OfStart, StartKinds
  <2> QED
    BY <1>1, <2>1, <2>2 DEF SessionGood
<1> QED
  BY <1>2 DEF Sessions

(* The buffer's session is forgotten.                                      *)
LEMMA SessionsReset ==
    ASSUME NEW b, NEW T, NEW ls, Sessions(b, T, ls), StartsGood(b, T, ls),
           NEW e, e.session = 0, e.starting = NoStart
    PROVE  Sessions(e, T, ls)
<1>1. e.starting.id = 0
  BY NoStartFields
<1>2. ASSUME NEW x \in T PROVE SessionGood(x, e, ls)
  <2>1. SessionGood(x, b, ls)
    BY DEF Sessions
  <2>2. x.kind = "start_kernel" => x.start # 0
    BY DEF StartsGood, OfStart, StartKinds
  <2>3. x.kind \in {"start_kernel", "close"} => x.session \in 1..ls /\ x.session # 0
    BY <2>1 DEF SessionGood, StartsGood
  <2> QED
    BY <1>1, <2>1, <2>2, <2>3 DEF SessionGood
<1> QED
  BY <1>2 DEF Sessions

(* A session that is neither the buffer's nor used by a call is closed.    *)
LEMMA SessionsClosed ==
    ASSUME NEW b, NEW T, NEW ls, Sessions(b, T, ls), NEW c, NEW s \in 1..ls, b.session # s,
           \A x \in T : /\ x.kind = "start_kernel" => x.session # s
                        /\ x.kind = "open_py" => x.start # s,
           NEW U, \A x \in U : x = CloseCall(c, s) \/ x \in T
    PROVE  Sessions(b, U, ls)
<1> DEFINE y == CloseCall(c, s)
<1>1. y.kind = "close" /\ y.session = s
  BY DEF CloseCall, NoCall
<1> HIDE DEF y
<1>2. SessionGood(y, b, ls) /\ Clear(y, y)
  BY <1>1 DEF SessionGood, Clear
<1>3. \A x \in T : SessionGood(x, b, ls) /\ Clear(x, y) /\ Clear(y, x)
  BY <1>1 DEF Sessions, Clear
<1> QED
  BY <1>2, <1>3, SessionsGrow DEF y

(* The session that start n has opened becomes the buffer's, and its       *)
(* kernel is to be launched.                                               *)
LEMMA SessionsOpened ==
    ASSUME NEW b, NEW T, NEW ls, Sessions(b, T, ls), NEW n \in 1..ls, NEW c,
           \A x \in T : /\ OfStart(x) => x.start # n
                        /\ x.kind \in {"start_kernel", "close"} => x.session # n,
           NEW e, e.session = n, e.starting.id = n, e.starting.launching,
           NEW U, \A x \in U : x = StartCall("start_kernel", c, n, n) \/ x \in T
    PROVE  Sessions(e, U, ls)
<1> DEFINE y == StartCall("start_kernel", c, n, n)
<1>1. y.kind = "start_kernel" /\ y.start = n /\ y.session = n
  BY StartCallFields
<1> HIDE DEF y
<1>2. SessionGood(y, e, ls) /\ Clear(y, y)
  BY <1>1 DEF SessionGood, Clear
<1>3. ASSUME NEW x \in T PROVE SessionGood(x, e, ls) /\ Clear(x, y) /\ Clear(y, x)
  <2>1. SessionGood(x, b, ls)
    BY DEF Sessions
  <2>2. x.kind \in {"start_kernel", "open_py"} => x.start # n
    BY DEF OfStart, StartKinds
  <2>3. SessionGood(x, e, ls)
    BY <2>1, <2>2 DEF SessionGood
  <2>4. Clear(x, y) /\ Clear(y, x)
    BY <1>1, <2>2 DEF Clear
  <2> QED
    BY <2>3, <2>4
<1> QED
  BY <1>2, <1>3, SessionsGrow DEF y

(* The launch of the buffer's kernel has been answered.                    *)
LEMMA SessionsLaunched ==
    ASSUME NEW b, NEW T, NEW ls, Sessions(b, T, ls),
           \A x \in T : OfStart(x) => x.start # b.starting.id,
           NEW e, e.session = b.session, e.starting.id = b.starting.id,
           NEW y, ~OfSession(y), NEW U, \A x \in U : x = y \/ x \in T
    PROVE  Sessions(e, U, ls)
<1>1. \A x \in T : SessionGood(x, e, ls)
  BY DEF Sessions, SessionGood, OfStart, StartKinds
<1>2. \A x \in T : Clear(x, y) /\ Clear(y, x)
  BY DEF Clear, OfSession
<1>3. SessionGood(y, e, ls) /\ Clear(y, y)
  BY DEF SessionGood, Clear, OfSession
<1> QED
  BY <1>1, <1>2, <1>3, SessionsGrow

-----------------------------------------------------------------------------
(* What a handler finds, and what it leaves.                               *)

(* The sessions that are held are held by the present client's backend,    *)
(* which has not exited.                                                   *)
Settled ==
    \A s \in Starts : live[s] # 0 =>
        /\ live[s] \in Clients /\ live[s] = client
        /\ ~exited[live[s]] /\ ~closed[live[s]]

Spawned ==
    \/ client' = client /\ backend' = backend
    \/ /\ client = 0
       /\ \E c \in Clients : /\ backend[c] = "unborn"
                             /\ client' = c
                             /\ backend' = [backend EXCEPT ![c] = "up"]

Scheduled(w) ==
    \/ loop' = w.loop
    \/ \E x \in Call : /\ exited[x.client] \/ closed[x.client]
                      /\ loop' = Append(w.loop, Reply(x, "gone"))

(* The buffer state b and the calls and callbacks w found by a handler, z  *)
(* being the call that it answers.                                         *)
Finds(b, w, z) ==
    /\ Sessions(b, Within(Lanes(w.calls, w.loop)), lastStart)
    /\ Kept(b, w.calls, z)
    /\ LanesOwned(w.calls)

Leaves(w, z) ==
    /\ Sessions(buf', Within(Lanes(calls', loop')), lastStart')
    /\ Kept(buf', calls', z)
    /\ LanesOwned(calls')
    /\ \A y \in Within(Lanes(calls', loop')) :
          y.stage = "sent" \/ y \in Within(Lanes(w.calls, w.loop))
    /\ Spawned
    /\ Scheduled(w)

LEMMA SendCalls ==
    ASSUME NEW x \in Call, NEW w \in Waits, Send(x, w)
    PROVE  \A y \in Within(Lanes(calls', loop')) : y = x \/ y \in Within(Lanes(w.calls, w.loop))
<1> DEFINE L == Lanes(w.calls, w.loop)
           M == Lanes(calls', loop')
<1>1. L \in AllLanes
  BY LanesTyped
<1>2. M = L \/ \E c \in 0..MaxClients : M = [L EXCEPT ![c] = Append(L[c], x)]
  BY SendLanes
<1> HIDE DEF L, M
<1>3. ASSUME NEW c \in 0..MaxClients, M = [L EXCEPT ![c] = Append(L[c], x)],
             NEW d \in 0..MaxClients, NEW i \in 1..Len(M[d])
      PROVE  M[d][i] = x \/ M[d][i] \in Within(L)
  <2>1. CASE d # c
    <3>1. M[d] = L[d]
      BY <1>1, <1>3, <2>1 DEF AllLanes
    <3> QED
      BY <3>1, InLanes
  <2>2. CASE d = c
    <3>1. L[c] \in Seq(Call)
      BY <1>1 DEF AllLanes
    <3>2. M[c] = Append(L[c], x)
      BY <1>1, <1>3 DEF AllLanes
    <3>3. M[c][i] = x \/ (i \in 1..Len(L[c]) /\ M[c][i] = L[c][i])
      BY <2>2, <3>1, <3>2
    <3> QED
      BY <2>2, <3>3, InLanes
  <2> QED
    BY <2>1, <2>2
<1>4. CASE M = L
  BY <1>4 DEF L, M
<1>5. CASE \E c \in 0..MaxClients : M = [L EXCEPT ![c] = Append(L[c], x)]
  <2>1. PICK c \in 0..MaxClients : M = [L EXCEPT ![c] = Append(L[c], x)]
    BY <1>5
  <2> SUFFICES ASSUME NEW y \in Within(M) PROVE y = x \/ y \in Within(L)
    BY DEF L, M
  <2>2. PICK d \in 0..MaxClients : \E i \in 1..Len(M[d]) : y = M[d][i]
    BY InLanes
  <2> QED
    BY <1>3, <2>1, <2>2
<1> QED
  BY <1>2, <1>4, <1>5

LEMMA SendLane ==
    ASSUME NEW x \in Call, NEW w \in Waits, Send(x, w), LanesOwned(w.calls)
    PROVE  /\ LanesOwned(calls')
           /\ \A c \in Clients : CallsOf(w.calls, c) \subseteq CallsOf(calls', c)
           /\ x.client \in Clients /\ ~exited[x.client] /\ ~closed[x.client] =>
                x \in CallsOf(calls', x.client)
           /\ Scheduled(w)
<1>1. w.loop \in Seq(Frame) /\ w.calls \in [Clients -> Seq(Call)]
  BY DEF Waits
<1>2. Scheduled(w)
  BY DEF Send, Scheduled
<1>3. CASE calls' = w.calls /\ (x.client \in Clients => exited[x.client] \/ closed[x.client])
  BY <1>2, <1>3
<1>4. CASE /\ x.client \in Clients
           /\ calls' = [w.calls EXCEPT ![x.client] = Append(w.calls[x.client], x)]
  <2> DEFINE s == Append(w.calls[x.client], x)
             n == Len(w.calls[x.client])
  <2>1. /\ s \in Seq(Call) /\ Len(s) = n + 1 /\ s[n + 1] = x /\ n \in Nat
        /\ \A i \in 1..n : s[i] = w.calls[x.client][i]
    BY <1>1, <1>4
  <2>2. calls' = [w.calls EXCEPT ![x.client] = s]
    BY <1>4
  <2> HIDE DEF s
  <2>3. calls'[x.client] = s /\ \A c \in Clients : c # x.client => calls'[c] = w.calls[c]
    BY <1>1, <1>4, <2>2
  <2>4. /\ CallsOf(w.calls, x.client) \subseteq CallsOf(calls', x.client)
        /\ x \in CallsOf(calls', x.client)
        /\ \A y \in CallsOf(calls', x.client) : y = x \/ y \in CallsOf(w.calls, x.client)
    <3>1. \A i \in 1..(n + 1) : i = n + 1 \/ i \in 1..n
      BY <2>1
    <3>2. n + 1 \in 1..(n + 1) /\ \A i \in 1..n : i \in 1..(n + 1)
      BY <2>1
    <3> QED
      BY <2>1, <2>3, <3>1, <3>2 DEF CallsOf, n
  <2>5. \A c \in Clients : c # x.client => CallsOf(calls', c) = CallsOf(w.calls, c)
    BY <2>3 DEF CallsOf
  <2> QED
    BY <1>2, <2>4, <2>5 DEF LanesOwned
<1>5. x.client \notin Clients => [w.calls EXCEPT ![x.client] = Append(w.calls[x.client], x)] = w.calls
  BY <1>1
<1> QED
  BY <1>3, <1>4, <1>5 DEF Send

(* What was owned is, when nothing but calls are added.                    *)
LEMMA KeptSent ==
    ASSUME Settled, NEW b, NEW e, NEW cs, NEW ds, NEW z, Kept(b, cs, z),
           e.session = b.session, e.starting.launching => b.starting.launching,
           \A c \in Clients : CallsOf(cs, c) \subseteq CallsOf(ds, c)
    PROVE  Kept(e, ds, z)
BY DEF Kept, Settled

LEMMA SameFinds ==
    ASSUME NEW b, NEW e, NEW w, NEW z, Finds(b, w, z), Same(b, e)
    PROVE  Finds(e, w, z)
BY SameSessions DEF Finds, Kept, Same

LEMMA LeavesAlone ==
    ASSUME NEW b, NEW w, NEW z, Finds(b, w, z), Leave(b, w)
    PROVE  Leaves(w, z)
BY DEF Finds, Leaves, Leave, Spawned, Scheduled

LEMMA LeavesSent ==
    ASSUME NEW w \in Waits, NEW z, NEW x \in Call, x.stage = "sent", Send(x, w), LanesOwned(w.calls),
           Sessions(buf', Within(Lanes(calls', loop')), lastStart'),
           Kept(buf', calls', z), Spawned
    PROVE  Leaves(w, z)
BY SendCalls, SendLane DEF Leaves

(* A call is made that is not about a session.                             *)
LEMMA LeavesOther ==
    ASSUME Settled, NEW b, NEW w \in Waits, NEW z, Finds(b, w, z), Same(b, buf'),
           NEW x \in Call, x.stage = "sent", ~OfSession(x), Send(x, w), lastStart' = lastStart, Spawned
    PROVE  Leaves(w, z)
<1> DEFINE T == Within(Lanes(w.calls, w.loop))
           U == Within(Lanes(calls', loop'))
<1>1. \A y \in U : y = x \/ y \in T
  BY SendCalls
<1>2. Sessions(b, T, lastStart) /\ Kept(b, w.calls, z) /\ LanesOwned(w.calls)
  BY DEF Finds
<1> HIDE DEF T, U
<1>3. Sessions(buf', U, lastStart')
  BY <1>1, <1>2, OtherSessions
<1>4. Kept(buf', calls', z)
  <2>1. \A c \in Clients : CallsOf(w.calls, c) \subseteq CallsOf(calls', c)
    BY <1>2, SendLane
  <2> QED
    BY <1>2, <2>1, KeptSent DEF Same
<1> QED
  BY <1>2, <1>3, <1>4, LeavesSent DEF U

-----------------------------------------------------------------------------
(* The steps the handlers are made of.                                     *)

LEMMA EnsureSpawned ==
    ASSUME NEW c \in Clients, EnsureClient(c)
    PROVE  Spawned /\ (client # 0 => c = client)
<1>1. CASE client # 0 /\ c = client /\ UNCHANGED <<client, backend>>
  BY <1>1 DEF Spawned
<1>2. CASE /\ client = 0 /\ \A d \in Clients : backend[d] = "unborn" <=> d >= c
           /\ backend' = [backend EXCEPT ![c] = "up"] /\ client' = c
  <2>1. backend[c] = "unborn"
    BY <1>2, BoundsAssumption DEF Clients
  <2> QED
    BY <1>2, <2>1 DEF Spawned
<1> QED
  BY <1>1, <1>2 DEF EnsureClient

LEMMA SameFields ==
    ASSUME NEW b \in BufferState
    PROVE  /\ Same(b, Discard(b)) /\ Discard(b).starting = b.starting
           /\ Same(b, TakeRun(b))
           /\ Same(b, [b EXCEPT !.inFlight = 0])
           /\ \A n : Same(b, Enqueue(b, n)) /\ Enqueue(b, n).starting = b.starting
<1>1. Same(b, Discard(b)) /\ Discard(b).starting = b.starting
  BY DiscardFields DEF Same
<1>2. Same(b, TakeRun(b))
  BY DEF TakeRun, BufferState, Same
<1>3. Same(b, [b EXCEPT !.inFlight = 0])
  BY DEF BufferState, Same
<1>4. ASSUME NEW n PROVE Same(b, Enqueue(b, n)) /\ Enqueue(b, n).starting = b.starting
  BY DEF Enqueue, BufferState, Same
<1> QED
  BY <1>1, <1>2, <1>3, <1>4

LEMMA PumpLeaves ==
    ASSUME Settled, NEW b \in BufferState, NEW w \in Waits, NEW z, Finds(b, w, z), PumpFrom(b, w)
    PROVE  Leaves(w, z)
<1>1. CASE ~Ready(b)
  BY <1>1, LeavesAlone DEF PumpFrom
<1>2. CASE Leave(Discard(b), w)
  BY <1>2, SameFields, SameFinds, LeavesAlone
<1>3. ASSUME Ready(b), NEW c \in Clients, EnsureClient(c), buf' = TakeRun(b),
             Send(UpdateCall(c, b), w), lastStart' = lastStart
      PROVE  Leaves(w, z)
  <2> DEFINE x == UpdateCall(c, b)
  <2>1. x \in Call
    BY <1>3, UpdateCallTyped DEF Ready
  <2>2. x.kind = "update_cell_source" /\ x.stage = "sent"
    BY DEF UpdateCall, NoCall
  <2>3. Send(x, w) /\ Spawned /\ Same(b, buf')
    BY <1>3, EnsureSpawned, SameFields
  <2> HIDE DEF x
  <2>4. ~OfSession(x)
    BY <2>2 DEF OfSession
  <2> QED
    BY <1>3, <2>1, <2>2, <2>3, <2>4, LeavesOther
<1> QED
  BY <1>1, <1>2, <1>3 DEF PumpFrom

LEMMA WaitingSame ==
    ASSUME NEW b \in BufferState, NEW v \in BOOLEAN
    PROVE  Same(b, [b EXCEPT !.starting.waiting = v])
<1>1. b.starting \in Starting
  BY BufferFields
<1> DEFINE h == [b.starting EXCEPT !.waiting = v]
<1>2. h.id = b.starting.id /\ h.launching = b.starting.launching
  BY <1>1 DEF Starting
<1>3. [b EXCEPT !.starting.waiting = v] = [b EXCEPT !.starting = h]
  OBVIOUS
<1> HIDE DEF h
<1> QED
  BY <1>2, <1>3 DEF BufferState, Same

(* The calls that a handler finds have been made by starts that have begun.*)
At(b, w) == StartsGood(b, Within(Lanes(w.calls, w.loop)), lastStart)

LEMMA SameAt ==
    ASSUME NEW b, NEW e, NEW w, At(b, w), e.session = b.session
    PROVE  At(e, w)
BY DEF At, StartsGood

LEMMA StartLeaves ==
    ASSUME Settled, NEW b \in BufferState, NEW callback \in BOOLEAN, NEW w \in Waits, NEW z,
           Finds(b, w, z), At(b, w), StartFrom(b, callback, w)
    PROVE  Leaves(w, z)
<1>1. CASE b.starting # NoStart
  <2>1. Leave([b EXCEPT !.starting.waiting = TRUE], w)
    BY <1>1 DEF StartFrom
  <2>2. Same(b, [b EXCEPT !.starting.waiting = TRUE])
    BY WaitingSame
  <2> QED
    BY <2>1, <2>2, SameFinds, LeavesAlone
<1>2. CASE b.starting = NoStart /\ b.started /\ b.session # 0
  <2>1. PumpFrom(b, w) \/ Leave(b, w)
    BY <1>2 DEF StartFrom
  <2> QED
    BY <2>1, PumpLeaves, LeavesAlone
<1>3. CASE b.starting = NoStart /\ ~(b.started /\ b.session # 0)
  <2> DEFINE id == lastStart + 1
             kind == IF b.session # 0 THEN "start_kernel" ELSE "open_py"
             start(c) == [id |-> id, kind |-> "start", client |-> c,
                          launching |-> b.session # 0,
                          held |-> FALSE, waiting |-> callback, since |-> lastRun]
  <2>1. CASE Leave(Discard(b), w)
    BY <2>1, SameFields, SameFinds, LeavesAlone
  <2>2. ASSUME NEW c \in Clients, id <= MaxStarts, EnsureClient(c),
               buf' = [b EXCEPT !.starting = start(c)],
               Send(StartCall(kind, c, id, b.session), w), lastStart' = id
        PROVE  Leaves(w, z)
    <3> DEFINE h == start(c)
               x == StartCall(kind, c, id, b.session)
               T == Within(Lanes(w.calls, w.loop))
               U == Within(Lanes(calls', loop'))
    <3>1. /\ id \in 0..MaxStarts /\ id # 0 /\ c \in 0..MaxClients
          /\ b.session \in 0..MaxStarts /\ lastStart \in Nat
      <4>1. lastStart \in Nat
        BY DEF At, StartsGood
      <4> QED
        BY <2>2, <4>1, BoundsAssumption, BufferFields DEF Clients
    <3>2. h.id = id /\ h.launching = (b.session # 0)
      OBVIOUS
    <3>3. kind \in {"open_py", "start_kernel"} /\ (kind = "start_kernel" <=> b.session # 0)
      OBVIOUS
    <3> HIDE DEF kind, id, start, h, T, U
    <3>4. x \in Call
      <4>1. kind \in StartKinds
        BY <3>3 DEF StartKinds
      <4> QED
        BY <3>1, <4>1, StartCallTyped
    <3>5. x.kind = kind /\ x.client = c /\ x.session = b.session /\ x.stage = "sent"
      BY StartCallFields
    <3>6. buf' = [b EXCEPT !.starting = h]
      BY <2>2 DEF h
    <3> DEFINE e == [b EXCEPT !.starting = h]
    <3>7. e.session = b.session /\ e.starting = h
      BY DEF BufferState
    <3>8. buf' = e
      BY <3>6
    <3> HIDE DEF e
    <3>9. Sessions(b, T, lastStart) /\ Kept(b, w.calls, z) /\ LanesOwned(w.calls)
      BY DEF Finds, T
    <3>10. Send(x, w) /\ \A y \in U : y = x \/ y \in T
      BY <2>2, <3>4, SendCalls DEF T, U
    <3>11. Sessions(e, U, id)
      BY <1>3, <3>2, <3>3, <3>7, <3>9, <3>10, SessionsBegun DEF id, x, At, T
    <3>12. Kept(e, calls', z)
      <4>1. \A d \in Clients : CallsOf(w.calls, d) \subseteq CallsOf(calls', d)
        BY <3>4, <3>9, <3>10, SendLane
      <4>2. Kept([b EXCEPT !.starting = NoStart], calls', z)
        <5> DEFINE g == [b EXCEPT !.starting = NoStart]
        <5>1. g.session = b.session /\ ~g.starting.launching
          BY DEF BufferState, NoStart
        <5> HIDE DEF g, x
        <5>2. Kept(g, calls', z)
          BY <3>9, <4>1, <5>1, KeptSent
        <5> QED
          BY <5>2 DEF g
      <4>3. ASSUME NEW s \in Starts, live[s] # 0, e.session = s, e.starting.launching
            PROVE  \E y \in CallsOf(calls', live[s]) : Launches(y, s)
        <5>1. live[s] \in Clients /\ live[s] = client /\ ~exited[live[s]] /\ ~closed[live[s]]
          BY <4>3 DEF Settled
        <5>2. c = live[s]
          BY <2>2, <4>3, <5>1, EnsureSpawned
        <5>3. x \in CallsOf(calls', x.client)
          BY <3>4, <3>5, <3>9, <3>10, <5>1, <5>2, SendLane
        <5>4. Launches(x, s)
          BY <3>2, <3>3, <3>5, <3>7, <4>3 DEF Launches
        <5> QED
          BY <3>5, <5>2, <5>3, <5>4
      <4>4. [b EXCEPT !.starting = NoStart].session = e.session
        BY <3>7 DEF BufferState
      <4> QED
        BY <4>2, <4>3, <4>4 DEF Kept
    <3>13. Spawned
      BY <2>2, EnsureSpawned
    <3>14. lastStart' = id
      BY <2>2
    <3> QED
      BY <3>4, <3>5, <3>8, <3>9, <3>10, <3>11, <3>12, <3>13, <3>14, LeavesSent DEF U
  <2> QED
    BY <1>3, <2>1, <2>2 DEF StartFrom
<1> QED
  BY <1>1, <1>2, <1>3

(* The start in flight ends.                                               *)
LEMMA EndFinds ==
    ASSUME Settled, NEW b \in BufferState, NEW w, NEW z, Finds(b, w, z), At(b, w),
           \A y \in Within(Lanes(w.calls, w.loop)) : OfStart(y) => y.start # b.starting.id,
           NEW e, e.session = b.session, e.starting = NoStart
    PROVE  Finds(e, w, z)
<1>1. ~e.starting.launching
  BY DEF NoStart
<1>2. Kept(e, w.calls, z)
  BY <1>1, KeptSent DEF Finds
<1> QED
  BY <1>2, SessionsEnded DEF Finds, At

LEMMA FinishStartLeaves ==
    ASSUME Settled, Sound(buf), NEW ok \in BOOLEAN, NEW w \in Waits, NEW z,
           Finds(buf, w, z), At(buf, w), NEW x, OfStart(x),
           \A y \in Within(Lanes(w.calls, w.loop)) : Apart(x, y),
           FinishStart(x.start, ok, w)
    PROVE  Leaves(w, z)
<1> DEFINE b == [buf EXCEPT !.starting = NoStart]
<1>0. /\ buf \in BufferState /\ b \in BufferState
      /\ b.starting = NoStart /\ b.session = buf.session
  BY NoStartFieldsOf DEF Sound
<1>1. CASE buf.starting.id # x.start
  BY <1>1, LeavesAlone DEF FinishStart
<1>2. CASE buf.starting.id = x.start
  <2>1. \A y \in Within(Lanes(w.calls, w.loop)) : OfStart(y) => y.start # buf.starting.id
    BY <1>2 DEF Apart
  <2>2. PumpFrom(b, w) \/ Leave(Discard(b), w)
    BY <1>2 DEF FinishStart
  <2> HIDE DEF b
  <2>3. Finds(b, w, z)
    BY <1>0, <2>1, EndFinds
  <2>4. Finds(Discard(b), w, z)
    BY <1>0, <2>3, SameFields, SameFinds
  <2> QED
    BY <1>0, <2>2, <2>3, <2>4, PumpLeaves, LeavesAlone
<1> QED
  BY <1>1, <1>2

LEMMA StopHeldLeaves ==
    ASSUME Settled, NEW b \in BufferState, b.starting = NoStart, NEW w \in Waits, NEW z,
           Finds(b, w, z), At(b, w), client \in 0..MaxClients, NEW kind, StopHeld(b, kind, w)
    PROVE  Leaves(w, z)
<1> DEFINE T == Within(Lanes(w.calls, w.loop))
           U == Within(Lanes(calls', loop'))
           id == lastStart + 1
           h == [id |-> id, kind |-> kind, client |-> client, launching |-> FALSE,
                 held |-> Held(b), waiting |-> FALSE, since |-> lastRun]
           x == StartCall("stop_kernel", client, id, b.session)
           e == [b EXCEPT !.starting = h]
<1>1. lastStart \in Nat /\ id \in 0..MaxStarts /\ b.session \in 0..MaxStarts
  <2>1. lastStart \in Nat /\ id < MaxStarts
    BY DEF At, StartsGood, StopHeld
  <2> QED
    BY <2>1, BoundsAssumption, BufferFields
<1>2. /\ lastStart' = id /\ buf' = e /\ UNCHANGED <<client, backend>>
      /\ \/ calls' = w.calls /\ loop' = w.loop
         \/ Send(x, w)
  BY DEF StopHeld
<1>3. x \in Call
  BY <1>1, StartCallTyped DEF StartKinds
<1>4. x.kind = "stop_kernel" /\ x.stage = "sent"
  BY StartCallFields
<1>5. h.id = id /\ h.launching = FALSE
  OBVIOUS
<1> HIDE DEF h
<1>6. e.session = b.session /\ e.starting = h
  BY DEF BufferState
<1>7. Sessions(b, T, lastStart) /\ Kept(b, w.calls, z) /\ LanesOwned(w.calls)
  BY DEF Finds
<1> HIDE DEF e, T, U
<1>8. \A y \in U : y = x \/ y \in T
  BY <1>2, <1>3, SendCalls DEF T, U
<1>9. Sessions(e, U, id)
  BY <1>5, <1>6, <1>7, <1>8, SessionsBegun DEF At, T
<1>10. \A d \in Clients : CallsOf(w.calls, d) \subseteq CallsOf(calls', d)
  BY <1>2, <1>3, <1>7, SendLane
<1>11. Kept(e, calls', z)
  BY <1>5, <1>6, <1>7, <1>10, KeptSent
<1>12. Spawned
  BY <1>2 DEF Spawned
<1> HIDE DEF x, id
<1>13. CASE calls' = w.calls /\ loop' = w.loop
  BY <1>2, <1>7, <1>9, <1>11, <1>12, <1>13 DEF Leaves, Scheduled, U
<1>14. CASE Send(x, w)
  BY <1>2, <1>3, <1>4, <1>7, <1>9, <1>11, <1>12, <1>14, LeavesSent DEF U
<1> QED
  BY <1>2, <1>13, <1>14

LEMMA DoneLeaves ==
    ASSUME Settled, Sound(buf), NEW failed \in BOOLEAN, NEW w \in Waits, NEW z,
           Finds(buf, w, z), NEW x \in Call, Done(x, failed, w)
    PROVE  Leaves(w, z)
<1> DEFINE mine == buf.inFlight = x.run
           b1 == IF mine THEN [buf EXCEPT !.inFlight = 0] ELSE buf
           b2 == IF failed /\ ~Discarded(x) THEN Discard(b1) ELSE b1
           h == b2.starting
<1>1. Sound(b1) /\ b1 \in BufferState
  <2>1. Sound(b1)
    BY FlightDoneSound
  <2> QED
    BY <2>1 DEF Sound
<1>2. Finds(b1, w, z)
  BY SameFields, SameFinds DEF Sound
<1>3. Sound(b2) /\ b2 \in BufferState /\ Finds(b2, w, z)
  BY <1>1, <1>2, SameFields, SameFinds, DiscardSound DEF Sound
<1>4. \/ Emit([b2 EXCEPT !.starting.held = FALSE],
              StartCall("stop_kernel", h.client, h.id, b2.session), w)
      \/ PumpFrom(b2, w)
      \/ Leave(b2, w)
  BY DEF Done
<1> HIDE DEF b1, b2, mine
<1>5. CASE Emit([b2 EXCEPT !.starting.held = FALSE],
                StartCall("stop_kernel", h.client, h.id, b2.session), w)
  <2> DEFINE e == [b2 EXCEPT !.starting.held = FALSE]
             g == [h EXCEPT !.held = FALSE]
             y == StartCall("stop_kernel", h.client, h.id, b2.session)
  <2>1. h \in Starting /\ b2.session \in 0..MaxStarts /\ h.id \in 0..MaxStarts
    BY <1>3, BufferFields
  <2>2. y \in Call
    <3>1. h.client \in 0..MaxClients /\ "stop_kernel" \in StartKinds
      BY <2>1 DEF Starting, StartKinds
    <3> HIDE DEF h
    <3> QED
      BY <2>1, <3>1, StartCallTyped
  <2>3. y.kind = "stop_kernel" /\ y.stage = "sent"
    BY StartCallFields
  <2>4. g.id = h.id /\ g.launching = h.launching
    BY <2>1 DEF Starting
  <2>5. e = [b2 EXCEPT !.starting = g]
    OBVIOUS
  <2> HIDE DEF g
  <2>6. Same(b2, e)
    BY <1>3, <2>4, <2>5 DEF BufferState, Same
  <2>7. Send(y, w) /\ buf' = e /\ lastStart' = lastStart /\ Spawned
    BY <1>5 DEF Emit, Spawned
  <2> HIDE DEF e, y, h
  <2>8. ~OfSession(y)
    BY <2>3 DEF OfSession
  <2> QED
    BY <1>3, <2>2, <2>3, <2>6, <2>7, <2>8, LeavesOther
<1> QED
  BY <1>3, <1>4, <1>5, PumpLeaves, LeavesAlone

-----------------------------------------------------------------------------
(* The callbacks.                                                          *)

(* What is known of the call that f answers: z, if it was pending, and     *)
(* NoCall if its callback was scheduled.                                   *)
Answering(f, w, z) ==
    /\ SessionGood(f.call, buf, lastStart)
    /\ StartGood(f.call, buf, lastStart)
    /\ \A y \in Within(Lanes(w.calls, w.loop)) :
          Apart(f.call, y) /\ Clear(f.call, y) /\ Clear(y, f.call)
    /\ z \in {NoCall, f.call}
    /\ z = f.call => CloseGood(z) /\ z.stage = "answered" /\ (z.kind = "open_py" => f.err = "ok")

LEMMA NoneClaimed == \A s : ~Claims(NoCall, s)
BY DEF Claims, Owns, NoCall

LEMMA Unclaimed ==
    ASSUME NEW b, NEW w, NEW z, Finds(b, w, z), \A s \in Starts : live[s] # 0 => ~Claims(z, s)
    PROVE  Finds(b, w, NoCall)
BY DEF Finds, Kept

(* The call of a client that is not the present one claims no session; nor *)
(* does one that is not about a session, or that has closed it.            *)
LEMMA UnclaimedCall ==
    ASSUME Settled, NEW b, NEW f, NEW w, NEW z, Finds(b, w, z), Answering(f, w, z),
           \/ client # f.call.client
           \/ ~OfSession(f.call)
           \/ f.call.kind = "close"
           \/ f.call.kind = "open_py" /\ f.err # "ok"
    PROVE  Finds(b, w, NoCall)
<1>1. CASE z = NoCall
  BY <1>1
<1>2. CASE z = f.call /\ client # f.call.client
  BY <1>2, Unclaimed DEF Claims, Settled
<1>3. CASE z = f.call /\ ~OfSession(f.call)
  BY <1>3, Unclaimed DEF Claims, Owns, OfSession
<1>4. CASE z = f.call /\ f.call.kind = "close"
  BY <1>4, Unclaimed DEF Claims, Owns, Answering, CloseGood
<1>5. CASE z = f.call /\ f.call.kind = "open_py" /\ f.err # "ok"
  BY <1>5 DEF Answering
<1> QED
  BY <1>1, <1>2, <1>3, <1>4, <1>5 DEF Answering

(* The session of a call that was superseded is closed.                    *)
LEMMA CloseSent ==
    ASSUME Settled, NEW w \in Waits, NEW z, Finds(buf, w, z), NEW c \in 0..MaxClients,
           NEW s \in 1..lastStart, lastStart \in 0..MaxStarts, buf.session # s,
           \A y \in Within(Lanes(w.calls, w.loop)) :
               /\ y.kind = "start_kernel" => y.session # s
               /\ y.kind = "open_py" => y.start # s,
           \A r : Claims(z, r) => r = s /\ live[r] = c,
           Emit(buf, CloseCall(c, s), w)
    PROVE  Leaves(w, NoCall)
<1> DEFINE x == CloseCall(c, s)
           T == Within(Lanes(w.calls, w.loop))
           U == Within(Lanes(calls', loop'))
<1>1. x.kind = "close" /\ x.client = c /\ x.session = s /\ x.stage = "sent"
  BY DEF CloseCall, NoCall
<1>2. x \in Call
  BY BoundsAssumption, CloseCallTyped
<1>3. Send(x, w) /\ buf' = buf /\ lastStart' = lastStart /\ Spawned
  BY DEF Emit, Spawned
<1>4. \A y \in U : y = x \/ y \in T
  BY <1>2, <1>3, SendCalls
<1>5. Sessions(buf, T, lastStart) /\ Kept(buf, w.calls, z) /\ LanesOwned(w.calls)
  BY DEF Finds
<1> HIDE DEF T, U
<1>6. Sessions(buf, U, lastStart)
  BY <1>4, <1>5, SessionsClosed DEF T
<1> HIDE DEF x
<1>7. Kept(buf, calls', NoCall)
  <2>1. \A d \in Clients : CallsOf(w.calls, d) \subseteq CallsOf(calls', d)
    BY <1>2, <1>3, <1>5, SendLane
  <2>2. Kept(buf, calls', z)
    BY <1>5, <2>1, KeptSent
  <2>3. ASSUME NEW r \in Starts, live[r] # 0, Claims(z, r)
        PROVE  buf.session # r /\ \E y \in CallsOf(calls', live[r]) : Owns(y, r)
    <3>1. r = s /\ live[r] = c /\ c \in Clients /\ ~exited[c] /\ ~closed[c]
      BY <2>3 DEF Settled
    <3>2. x \in CallsOf(calls', c)
      BY <1>1, <1>2, <1>3, <1>5, <3>1, SendLane
    <3>3. Owns(x, r)
      BY <1>1, <3>1 DEF Owns
    <3> QED
      BY <3>1, <3>2, <3>3
  <2> QED
    BY <2>2, <2>3 DEF Kept
<1>8. Sessions(buf', Within(Lanes(calls', loop')), lastStart')
  BY <1>3, <1>6 DEF U
<1> QED
  BY <1>1, <1>2, <1>3, <1>5, <1>7, <1>8, LeavesSent

LEMMA OpenPyReplyLeaves ==
    ASSUME Settled, Sound(buf), NEW w \in Waits, NEW z, Finds(buf, w, z), At(buf, w),
           lastStart \in 0..MaxStarts, NEW f \in Frame, Answering(f, w, z),
           f.call.kind = "open_py", OpenPyReply(f, w)
    PROVE  Leaves(w, NoCall)
<1> DEFINE x == f.call
           T == Within(Lanes(w.calls, w.loop))
<1>1. /\ x \in Call /\ x.client \in 0..MaxClients /\ x.start \in 0..MaxStarts
      /\ OfStart(x) /\ \A y \in T : Apart(x, y) /\ Clear(x, y) /\ Clear(y, x)
      /\ x.start \in 1..lastStart /\ x.start # buf.session
      /\ (x.start = buf.starting.id => buf.session = 0)
      /\ buf \in BufferState
  BY CallFields DEF Frame, Answering, StartGood, OfStart, StartKinds, Sound
<1>2. \A s : Claims(z, s) => s = x.start /\ live[s] = x.client
  BY DEF Answering, Claims, Owns, NoCall
<1>3. ASSUME NEW n \in BOOLEAN, FinishStart(x.start, n, w), Finds(buf, w, NoCall)
      PROVE  Leaves(w, NoCall)
  BY <1>1, <1>3, FinishStartLeaves
<1>4. CASE client # x.client
  <2>1. FinishStart(x.start, FALSE, w)
    BY <1>4 DEF OpenPyReply
  <2>2. Finds(buf, w, NoCall)
    BY <1>4, UnclaimedCall
  <2> QED
    BY <1>3, <2>1, <2>2
<1>5. CASE client = x.client /\ f.err # "ok"
  <2>1. Leave(buf, w) \/ FinishStart(x.start, FALSE, w)
    BY <1>5 DEF OpenPyReply
  <2>2. Finds(buf, w, NoCall)
    BY <1>5, UnclaimedCall
  <2> QED
    BY <1>3, <2>1, <2>2, LeavesAlone
<1>6. CASE client = x.client /\ f.err = "ok" /\ buf.starting.id # x.start
  <2>1. Emit(buf, CloseCall(x.client, x.start), w)
    BY <1>6 DEF OpenPyReply
  <2>2. \A y \in T : /\ y.kind = "start_kernel" => y.session # x.start
                     /\ y.kind = "open_py" => y.start # x.start
    BY <1>1 DEF Clear, Apart, OfStart, StartKinds
  <2> HIDE DEF x
  <2> QED
    BY <1>1, <1>2, <2>1, <2>2, CloseSent
<1>7. CASE client = x.client /\ f.err = "ok" /\ buf.starting.id = x.start
  <2> DEFINE e == [buf EXCEPT !.session = x.start, !.starting.launching = TRUE]
             h == [buf.starting EXCEPT !.launching = TRUE]
             y == StartCall("start_kernel", x.client, x.start, x.start)
             U == Within(Lanes(calls', loop'))
  <2>1. Emit(e, y, w)
    BY <1>7 DEF OpenPyReply
  <2>2. Send(y, w) /\ buf' = e /\ lastStart' = lastStart /\ Spawned
    BY <2>1 DEF Emit, Spawned
  <2>3. y \in Call
    BY <1>1, StartCallTyped DEF StartKinds
  <2>4. /\ y.kind = "start_kernel" /\ y.client = x.client /\ y.session = x.start
        /\ y.stage = "sent"
    BY StartCallFields
  <2>5. h.id = x.start /\ h.launching = TRUE
    BY <1>1, <1>7, BufferFields DEF Starting
  <2>6. e = [[buf EXCEPT !.session = x.start] EXCEPT !.starting = h]
    BY <1>1 DEF BufferState
  <2> HIDE DEF h
  <2>7. e.session = x.start /\ e.starting = h
    BY <1>1, <2>6 DEF BufferState
  <2>8. Sessions(buf, T, lastStart) /\ Kept(buf, w.calls, z) /\ LanesOwned(w.calls)
    BY DEF Finds
  <2>9. \A v \in U : v = y \/ v \in T
    BY <2>2, <2>3, SendCalls
  <2>10. \A v \in T : /\ OfStart(v) => v.start # x.start
                      /\ v.kind \in {"start_kernel", "close"} => v.session # x.start
    BY <1>1 DEF Clear, Apart
  <2> HIDE DEF e, T, U, x
  <2>11. Sessions(e, U, lastStart)
    BY <1>1, <2>5, <2>7, <2>8, <2>9, <2>10, SessionsOpened
  <2> HIDE DEF y
  <2>12. Kept(e, calls', NoCall)
    <3>1. \A d \in Clients : CallsOf(w.calls, d) \subseteq CallsOf(calls', d)
      BY <2>2, <2>3, <2>8, SendLane
    <3>2. ASSUME NEW s \in Starts, live[s] # 0, s # x.start
          PROVE  \E v \in CallsOf(calls', live[s]) : Owns(v, s)
      <4>1. ~Claims(z, s) /\ buf.session # s
        BY <1>1, <1>2, <1>7, <3>2 DEF Starts
      <4>2. \E v \in CallsOf(w.calls, live[s]) : Owns(v, s)
        BY <2>8, <3>2, <4>1 DEF Kept
      <4> QED
        BY <3>1, <3>2, <4>2 DEF Settled
    <3>3. ASSUME NEW s \in Starts, live[s] # 0, s = x.start
          PROVE  \E v \in CallsOf(calls', live[s]) : Launches(v, s)
      <4>1. live[s] \in Clients /\ live[s] = x.client /\ ~exited[live[s]] /\ ~closed[live[s]]
        BY <1>7, <3>3 DEF Settled
      <4>2. y \in CallsOf(calls', x.client)
        BY <2>2, <2>3, <2>4, <2>8, <4>1, SendLane
      <4> QED
        BY <2>4, <3>3, <4>1, <4>2 DEF Launches
    <3> QED
      BY <2>7, <3>2, <3>3 DEF Kept
  <2>13. Sessions(buf', Within(Lanes(calls', loop')), lastStart') /\ Kept(buf', calls', NoCall)
    BY <2>2, <2>11, <2>12 DEF U
  <2> QED
    BY <2>2, <2>3, <2>4, <2>8, <2>13, LeavesSent
<1> QED
  BY <1>4, <1>5, <1>6, <1>7

LEMMA StartKernelReplyLeaves ==
    ASSUME Settled, Sound(buf), NEW w \in Waits, NEW z, Finds(buf, w, z), At(buf, w),
           lastStart \in 0..MaxStarts, NEW f \in Frame, Answering(f, w, z),
           f.call.kind = "start_kernel", StartKernelReply(f, w)
    PROVE  Leaves(w, NoCall)
<1> DEFINE x == f.call
           T == Within(Lanes(w.calls, w.loop))
<1>1. /\ x \in Call /\ x.client \in 0..MaxClients /\ x.session \in 0..MaxStarts
      /\ x.start \in 0..MaxStarts
      /\ OfStart(x) /\ \A y \in T : Apart(x, y) /\ Clear(x, y) /\ Clear(y, x)
      /\ x.session \in 1..lastStart
      /\ (x.session = buf.session <=> x.start = buf.starting.id)
      /\ buf \in BufferState
  BY CallFields DEF Frame, Answering, SessionGood, OfStart, StartKinds, Sound
<1>2. \A s : Claims(z, s) => s = x.session /\ live[s] = x.client
  BY DEF Answering, Claims, Owns, NoCall
<1>3. CASE client # x.client
  <2>1. FinishStart(x.start, FALSE, w)
    BY <1>3 DEF StartKernelReply
  <2>2. Finds(buf, w, NoCall)
    BY <1>3, UnclaimedCall
  <2> QED
    BY <1>1, <2>1, <2>2, FinishStartLeaves
<1>4. CASE client = x.client /\ buf.starting.id # x.start
  <2>1. Emit(buf, CloseCall(x.client, x.session), w)
    BY <1>4 DEF StartKernelReply
  <2>2. \A y \in T : /\ y.kind = "start_kernel" => y.session # x.session
                     /\ y.kind = "open_py" => y.start # x.session
    BY <1>1 DEF Clear, Apart, OfStart, StartKinds
  <2>3. buf.session # x.session
    BY <1>1, <1>4
  <2> HIDE DEF x
  <2> QED
    BY <1>1, <1>2, <2>1, <2>2, <2>3, CloseSent
<1>5. CASE client = x.client /\ buf.starting.id = x.start
  <2>1. \A y \in T : OfStart(y) => y.start # buf.starting.id
    BY <1>1, <1>5 DEF Apart
  <2>2. ASSUME NEW e, e.session = buf.session, ~e.starting.launching, NEW cs, Kept(e, cs, z)
        PROVE  Kept(e, cs, NoCall)
    BY <1>1, <1>2, <1>5, <2>2 DEF Kept
  <2>3. CASE f.err # "ok"
    <3> DEFINE b == [buf EXCEPT !.starting = NoStart]
    <3>1. b \in BufferState /\ b.starting = NoStart /\ b.session = buf.session
      BY NoStartFieldsOf
    <3>2. Leave(Discard(b), w)
      BY <1>5, <2>3 DEF StartKernelReply, FinishStart
    <3> HIDE DEF b
    <3>3. Finds(b, w, z)
      BY <1>1, <2>1, <3>1, EndFinds
    <3>4. Finds(b, w, NoCall)
      BY <2>2, <3>1, <3>3 DEF Finds, NoStart
    <3>5. Finds(Discard(b), w, NoCall)
      BY <3>1, <3>4, SameFields, SameFinds
    <3> QED
      BY <3>2, <3>5, LeavesAlone
  <2>4. CASE f.err = "ok"
    <3> DEFINE e == [buf EXCEPT !.started = TRUE, !.starting.launching = FALSE]
               h == [buf.starting EXCEPT !.launching = FALSE]
               y == StartCall("execute_silent", x.client, x.start, x.session)
               U == Within(Lanes(calls', loop'))
    <3>1. Emit(e, y, w)
      BY <1>5, <2>4 DEF StartKernelReply
    <3>2. Send(y, w) /\ buf' = e /\ lastStart' = lastStart /\ Spawned
      BY <3>1 DEF Emit, Spawned
    <3>3. y \in Call
      BY <1>1, StartCallTyped DEF StartKinds
    <3>4. y.kind = "execute_silent" /\ y.stage = "sent"
      BY StartCallFields
    <3>5. h.id = buf.starting.id /\ h.launching = FALSE
      BY <1>1, BufferFields DEF Starting
    <3>6. e = [[buf EXCEPT !.started = TRUE] EXCEPT !.starting = h]
      BY <1>1 DEF BufferState
    <3> HIDE DEF h
    <3>7. e.session = buf.session /\ e.starting = h
      BY <1>1, <3>6 DEF BufferState
    <3>8. Sessions(buf, T, lastStart) /\ Kept(buf, w.calls, z) /\ LanesOwned(w.calls)
      BY DEF Finds
    <3>9. \A v \in U : v = y \/ v \in T
      BY <3>2, <3>3, SendCalls
    <3> HIDE DEF e, y, T, U, x
    <3>10. ~OfSession(y)
      BY <3>4 DEF OfSession
    <3>11. Sessions(e, U, lastStart)
      BY <2>1, <3>5, <3>7, <3>8, <3>9, <3>10, SessionsLaunched
    <3>12. Kept(e, calls', NoCall)
      <4>1. \A d \in Clients : CallsOf(w.calls, d) \subseteq CallsOf(calls', d)
        BY <3>2, <3>3, <3>8, SendLane
      <4>2. Kept(e, calls', z)
        BY <3>5, <3>7, <3>8, <4>1, KeptSent
      <4> QED
        BY <2>2, <3>5, <3>7, <4>2
    <3>13. Sessions(buf', Within(Lanes(calls', loop')), lastStart') /\ Kept(buf', calls', NoCall)
      BY <3>2, <3>11, <3>12 DEF U
    <3> QED
      BY <3>2, <3>3, <3>4, <3>8, <3>13, LeavesSent
  <2> QED
    BY <2>3, <2>4
<1> QED
  BY <1>3, <1>4, <1>5

LEMMA UpdateCellSourceReplyLeaves ==
    ASSUME Settled, Sound(buf), NEW w \in Waits, Finds(buf, w, NoCall),
           NEW f \in Frame, f.call.kind = "update_cell_source", UpdateCellSourceReply(f, w)
    PROVE  Leaves(w, NoCall)
<1> DEFINE x == f.call
           y == [x EXCEPT !.kind = "execute", !.session = buf.session, !.stage = "sent"]
<1>1. x \in Request /\ x \in Call /\ x.run # 0 /\ buf.session \in 0..MaxStarts
  BY DEF Frame, Call, Sound, BufferState
<1>2. y \in Request /\ y.kind = "execute" /\ y.run = x.run /\ y.stage = "sent"
  BY <1>1 DEF Request, Kinds
<1>3. y \in Call
  BY <1>1, <1>2 DEF Call
<1>4. (\E failed \in BOOLEAN : Done(x, failed, w)) \/ Emit(buf, y, w)
  BY DEF UpdateCellSourceReply
<1> HIDE DEF y
<1>5. CASE Emit(buf, y, w)
  <2>1. Send(y, w) /\ buf' = buf /\ lastStart' = lastStart /\ Spawned
    BY <1>5 DEF Emit, Spawned
  <2>2. ~OfSession(y)
    BY <1>2 DEF OfSession
  <2>3. Same(buf, buf')
    BY <2>1 DEF Same
  <2> QED
    BY <1>2, <1>3, <2>1, <2>2, <2>3, LeavesOther
<1> QED
  BY <1>1, <1>4, <1>5, DoneLeaves

LEMMA StopKernelReplyLeaves ==
    ASSUME Settled, Sound(buf), NEW w \in Waits, Finds(buf, w, NoCall), At(buf, w), NEW f,
           OfStart(f.call), \A y \in Within(Lanes(w.calls, w.loop)) : Apart(f.call, y),
           StopKernelReply(f, w)
    PROVE  Leaves(w, NoCall)
<1> DEFINE x == f.call
           b == [buf EXCEPT !.starting = NoStart]
           s == Stopped(buf)
<1>1. CASE buf.starting.id # x.start
  BY <1>1, LeavesAlone DEF StopKernelReply
<1>2. CASE buf.starting.id = x.start
  <2>1. Leave(Discard(b), w) \/ PumpFrom(b, w) \/ StartFrom(s, TRUE, w) \/ PumpFrom(s, w)
    BY <1>2 DEF StopKernelReply
  <2>2. \A y \in Within(Lanes(w.calls, w.loop)) : OfStart(y) => y.start # buf.starting.id
    BY <1>2 DEF Apart
  <2>3. /\ buf \in BufferState
        /\ b \in BufferState /\ b.starting = NoStart /\ b.session = buf.session
        /\ s \in BufferState /\ s.starting = NoStart /\ s.session = buf.session
    BY NoStartFieldsOf, StoppedFields DEF Sound
  <2> HIDE DEF b, s
  <2>4. Finds(b, w, NoCall) /\ Finds(s, w, NoCall) /\ At(s, w)
    BY <2>2, <2>3, EndFinds, SameAt
  <2>5. Finds(Discard(b), w, NoCall)
    BY <2>3, <2>4, SameFields, SameFinds
  <2>6. StartFrom(s, TRUE, w) => \E callback \in BOOLEAN : StartFrom(s, callback, w)
    OBVIOUS
  <2> QED
    BY <2>1, <2>3, <2>4, <2>5, <2>6, LeavesAlone, PumpLeaves, StartLeaves
<1> QED
  BY <1>1, <1>2

LEMMA KernelExitedLeaves ==
    ASSUME Sound(buf), NEW w, NEW f, Finds(buf, w, NoCall), KernelExited(f, w)
    PROVE  Leaves(w, NoCall)
<1> DEFINE d == Discard(buf)
           e == [d EXCEPT !.started = FALSE]
<1>1. Leave(e, w) \/ Leave(buf, w)
  BY DEF KernelExited
<1>2. d \in BufferState /\ Same(buf, d)
  BY DiscardFields, SameFields DEF Sound
<1> HIDE DEF d
<1>3. Same(buf, e)
  BY <1>2 DEF BufferState, Same
<1> HIDE DEF e
<1> QED
  BY <1>1, <1>3, SameFinds, LeavesAlone

(* The exit of the backend, which held every session there was.            *)
Forgets(w) ==
    /\ Sessions(buf', Within(Lanes(calls', loop')), lastStart')
    /\ Kept(buf', calls', NoCall)
    /\ calls' = w.calls /\ loop' = w.loop /\ client' = 0 /\ backend' = backend

LEMMA BackendExitedForgets ==
    ASSUME Settled, Sound(buf), NEW w \in Waits, Finds(buf, w, NoCall), At(buf, w), NEW f,
           f.call.client = client, client # 0, exited[client], BackendExited(f, w)
    PROVE  Forgets(w)
<1>1. /\ calls' = w.calls /\ loop' = w.loop /\ client' = 0 /\ backend' = backend
      /\ lastStart' = lastStart /\ buf' \in {DefaultBufferState, buf}
  BY DEF BackendExited
<1>2. Kept(buf', calls', NoCall)
  BY DEF Kept, Settled
<1>3. DefaultBufferState.session = 0 /\ DefaultBufferState.starting = NoStart
  BY DEF DefaultBufferState
<1>4. Sessions(DefaultBufferState, Within(Lanes(w.calls, w.loop)), lastStart)
  BY <1>3, SessionsReset DEF Finds, At
<1> QED
  BY <1>1, <1>2, <1>4 DEF Forgets, Finds

LEMMA HandleLeaves ==
    ASSUME Settled, Sound(buf), NEW w \in Waits, NEW z, Finds(buf, w, z), At(buf, w),
           lastStart \in 0..MaxStarts, NEW f \in Frame,
           IF f.type = "reply" THEN Answering(f, w, z) ELSE z = NoCall,
           f.type = "on_exit" => f.call.client = client /\ client # 0 /\ exited[client],
           Handle(f, w)
    PROVE  Leaves(w, NoCall) \/ (f.type = "on_exit" /\ Forgets(w))
<1>1. CASE f.type = "reply" /\ f.call.kind = "open_py" /\ OpenPyReply(f, w)
  BY <1>1, OpenPyReplyLeaves
<1>2. CASE f.type = "reply" /\ f.call.kind = "start_kernel" /\ StartKernelReply(f, w)
  BY <1>2, StartKernelReplyLeaves
<1>3. CASE f.type = "reply" /\ f.call.kind \notin {"open_py", "start_kernel"}
  <2>1. Finds(buf, w, NoCall)
    BY <1>3, UnclaimedCall DEF OfSession
  <2>2. f.call \in Call /\ \A y \in Within(Lanes(w.calls, w.loop)) : Apart(f.call, y)
    BY <1>3 DEF Frame, Answering
  <2>3. CASE f.call.kind = "execute_silent" /\ ExecuteSilentReply(f, w)
    <3>1. OfStart(f.call) /\ \E ok \in BOOLEAN : FinishStart(f.call.start, ok, w)
      BY <2>3 DEF ExecuteSilentReply, OfStart, StartKinds
    <3> QED
      BY <2>1, <2>2, <3>1, FinishStartLeaves
  <2>4. CASE f.call.kind = "update_cell_source" /\ UpdateCellSourceReply(f, w)
    BY <2>1, <2>4, UpdateCellSourceReplyLeaves
  <2>5. CASE f.call.kind = "execute" /\ ExecuteReply(f, w)
    <3>1. \E failed \in BOOLEAN : Done(f.call, failed, w)
      BY <2>5 DEF ExecuteReply
    <3> QED
      BY <2>1, <2>2, <3>1, DoneLeaves
  <2>6. CASE f.call.kind = "stop_kernel" /\ StopKernelReply(f, w)
    <3>1. OfStart(f.call)
      BY <2>6 DEF OfStart, StartKinds
    <3> QED
      BY <2>1, <2>2, <2>6, <3>1, StopKernelReplyLeaves
  <2>7. CASE f.call.kind = "close" /\ CloseReply(w)
    BY <2>1, <2>7, LeavesAlone DEF CloseReply
  <2> QED
    BY <1>3, <2>3, <2>4, <2>5, <2>6, <2>7 DEF Handle
<1>4. CASE f.type = "kernel_exited" /\ KernelExited(f, w)
  BY <1>4, KernelExitedLeaves
<1>5. CASE f.type = "on_exit" /\ BackendExited(f, w)
  BY <1>5, BackendExitedForgets
<1> QED
  BY <1>1, <1>2, <1>3, <1>4, <1>5 DEF Handle

-----------------------------------------------------------------------------
(* The user's commands.                                                    *)

LEMMA ShutdownLeaves ==
    ASSUME Settled, Sound(buf), NEW w \in Waits, Finds(buf, w, NoCall), At(buf, w),
           lastStart \in 0..MaxStarts, client \in 0..MaxClients, Shutdown(w)
    PROVE  Leaves(w, NoCall)
<1> DEFINE e == DefaultBufferState
           x == CloseCall(client, buf.session)
           T == Within(Lanes(w.calls, w.loop))
           U == Within(Lanes(calls', loop'))
<1>1. \/ /\ buf.session # 0 /\ ~buf.starting.launching /\ client # 0
         /\ Emit(e, x, w)
      \/ ~(buf.session # 0 /\ ~buf.starting.launching /\ client # 0) /\ Leave(e, w)
  BY DEF Shutdown
<1>2. e.session = 0 /\ e.starting = NoStart /\ ~e.starting.launching
  BY DEF DefaultBufferState, NoStart
<1>3. Sessions(buf, T, lastStart) /\ Kept(buf, w.calls, NoCall) /\ LanesOwned(w.calls)
  BY DEF Finds
<1>4. x.kind = "close" /\ x.client = client /\ x.session = buf.session /\ x.stage = "sent"
  BY DEF CloseCall, NoCall
<1>5. buf.session \in 0..lastStart /\ lastStart \in Nat
  BY DEF At, StartsGood
<1>6. Sessions(e, T, lastStart)
  BY <1>2, <1>3, SessionsReset DEF At
<1> HIDE DEF e
<1>7. CASE ~(buf.session # 0 /\ ~buf.starting.launching /\ client # 0) /\ Leave(e, w)
  <2>1. Kept(e, w.calls, NoCall)
    <3> SUFFICES ASSUME NEW s \in Starts, live[s] # 0
                 PROVE  \E y \in CallsOf(w.calls, live[s]) : Owns(y, s)
      BY <1>2 DEF Kept
    <3>1. live[s] = client /\ live[s] \in Clients /\ client # 0 /\ s # 0
      BY DEF Settled, Starts, Clients
    <3>2. buf.session = s \/ \E y \in CallsOf(w.calls, live[s]) : Owns(y, s)
      BY <1>3, NoneClaimed DEF Kept
    <3>3. CASE buf.session = s
      <4>1. buf.starting.launching
        BY <1>7, <3>1, <3>3
      <4> QED
        BY <1>3, <3>3, <4>1, NoneClaimed DEF Kept, Launches, Owns
    <3> QED
      BY <3>2, <3>3
  <2>2. Finds(e, w, NoCall)
    BY <1>3, <1>6, <2>1 DEF Finds
  <2> QED
    BY <1>7, <2>2, LeavesAlone
<1>8. CASE /\ buf.session # 0 /\ ~buf.starting.launching /\ client # 0
           /\ Emit(e, x, w)
  <2>1. Send(x, w) /\ buf' = e /\ lastStart' = lastStart /\ Spawned
    BY <1>8 DEF Emit, Spawned
  <2>2. x \in Call
    BY <1>5, BoundsAssumption, BufferFields, CloseCallTyped DEF Sound
  <2>3. \A y \in U : y = x \/ y \in T
    BY <2>1, <2>2, SendCalls
  <2>4. buf.session \in 1..lastStart /\ e.session # buf.session
    BY <1>2, <1>5, <1>8
  <2>5. \A y \in T : /\ y.kind = "start_kernel" => y.session # buf.session
                     /\ y.kind = "open_py" => y.start # buf.session
    BY <1>3, <1>8 DEF Sessions, SessionGood, At, StartsGood
  <2> HIDE DEF T, U
  <2>6. Sessions(e, U, lastStart)
    BY <1>6, <2>3, <2>4, <2>5, SessionsClosed
  <2> HIDE DEF x
  <2>7. Kept(e, calls', NoCall)
    <3> SUFFICES ASSUME NEW s \in Starts, live[s] # 0
                 PROVE  \E y \in CallsOf(calls', live[s]) : Owns(y, s)
      BY <1>2 DEF Kept
    <3>1. live[s] = client /\ live[s] \in Clients /\ ~exited[live[s]] /\ ~closed[live[s]]
      BY DEF Settled
    <3>2. CASE buf.session = s
      <4>1. x \in CallsOf(calls', live[s])
        BY <1>3, <1>4, <2>1, <2>2, <3>1, SendLane
      <4> QED
        BY <1>4, <3>2, <4>1 DEF Owns
    <3>3. CASE buf.session # s
      <4>1. \E y \in CallsOf(w.calls, live[s]) : Owns(y, s)
        BY <1>3, <3>3, NoneClaimed DEF Kept
      <4> QED
        BY <1>3, <2>1, <2>2, <3>1, <4>1, SendLane
    <3> QED
      BY <3>2, <3>3
  <2>8. Sessions(buf', Within(Lanes(calls', loop')), lastStart') /\ Kept(buf', calls', NoCall)
    BY <2>1, <2>6, <2>7 DEF U
  <2> QED
    BY <1>3, <1>4, <2>1, <2>2, <2>8, LeavesSent
<1> QED
  BY <1>1, <1>7, <1>8

LEMMA CommandLeaves ==
    ASSUME Settled, Sound(buf), NEW w \in Waits, w = Waiting(calls, loop),
           Finds(buf, w, NoCall), At(buf, w),
           lastStart \in 0..MaxStarts, client \in 0..MaxClients, lastRun \in 0..MaxRuns, Command
    PROVE  Leaves(w, NoCall)
<1>1. buf \in BufferState
  BY DEF Sound
<1>2. ASSUME NEW n \in Runs, Run(n, w) PROVE Leaves(w, NoCall)
  <2> DEFINE b == Enqueue(buf, n)
  <2>1. PumpFrom(b, w) \/ \E callback \in BOOLEAN : StartFrom(b, callback, w)
    BY <1>2 DEF Run
  <2>2. b \in BufferState
    <3>1. lastRun + n <= MaxRuns
      BY <1>2 DEF Run
    <3> QED
      BY <3>1, EnqueueSound DEF Sound
  <2>3. Same(buf, b)
    BY <1>1, SameFields
  <2> HIDE DEF b
  <2>4. Finds(b, w, NoCall) /\ At(b, w)
    BY <2>3, SameFinds, SameAt DEF Same
  <2> QED
    BY <2>1, <2>2, <2>4, PumpLeaves, StartLeaves
<1>3. ASSUME \E callback \in BOOLEAN : StartFrom(buf, callback, w) PROVE Leaves(w, NoCall)
  BY <1>1, <1>3, StartLeaves
<1>4. CASE StartKernel(w)
  BY <1>3, <1>4 DEF StartKernel
<1>5. CASE StopKernelCommand(w)
  <2> DEFINE b == Discard(buf)
             e == [b EXCEPT !.starting.waiting = FALSE]
  <2>1. Leave(e, w) \/ Leave(b, w) \/ (b.starting = NoStart /\ StopHeld(b, "stop", w))
    BY <1>5 DEF StopKernelCommand
  <2>2. b \in BufferState /\ Same(buf, b)
    BY <1>1, DiscardFields, SameFields
  <2> HIDE DEF b
  <2>3. Same(b, e)
    BY <2>2, WaitingSame
  <2> HIDE DEF e
  <2>4. Finds(b, w, NoCall) /\ At(b, w) /\ Finds(e, w, NoCall)
    BY <2>2, <2>3, SameFinds, SameAt DEF Same
  <2> QED
    BY <2>1, <2>2, <2>4, LeavesAlone, StopHeldLeaves
<1>6. CASE RestartKernel(w)
  <2>1. \/ \E callback \in BOOLEAN : StartFrom(buf, callback, w)
        \/ buf.starting = NoStart /\ StopHeld(buf, "restart", w)
    BY <1>6 DEF RestartKernel
  <2> QED
    BY <1>1, <1>3, <2>1, StopHeldLeaves
<1>7. CASE Shutdown(w)
  BY <1>7, ShutdownLeaves
<1> QED
  BY <1>2, <1>4, <1>5, <1>6, <1>7 DEF Command

-----------------------------------------------------------------------------
(* What a command or a callback finds.                                     *)

LEMMA SInvSettled ==
    ASSUME SInv
    PROVE  Settled
<1> SUFFICES ASSUME NEW s \in Starts, live[s] # 0
             PROVE  /\ live[s] \in Clients /\ live[s] = client
                    /\ ~exited[live[s]] /\ ~closed[live[s]]
  BY DEF Settled
<1>1. live[s] \in Clients /\ backend[live[s]] = "up"
  BY DEF SInv, HeldGood
<1>2. ~exited[live[s]] /\ ~closed[live[s]]
  BY <1>1 DEF SInv, Processes
<1> QED
  BY <1>1, <1>2 DEF SInv, Processes

LEMMA AtNow ==
    ASSUME IInv, DInv, NEW w, Within(Lanes(w.calls, w.loop)) \subseteq Within(Lanes(calls, loop))
    PROVE  At(buf, w)
<1>1. Good(buf, Within(Lanes(calls, loop)), Now, lastStart)
  BY DEF DInv, Now
<1>2. lastStart \in Nat /\ buf.session \in 0..lastStart
  <2>1. buf \in BufferState /\ lastStart \in Nat
    BY BoundsAssumption DEF IInv, TypeOK
  <2>2. buf.session \in Nat /\ buf.session <= lastStart
    BY <1>1, <2>1, BoundsAssumption DEF BufferState, Good, BufferGood, QueueGood
  <2> QED
    BY <2>1, <2>2
<1>3. ASSUME NEW x \in Within(Lanes(w.calls, w.loop))
      PROVE  /\ OfStart(x) => x.start \in 1..lastStart
             /\ x.kind = "open_py" => x.start # buf.session
  <2>1. StartGood(x, buf, lastStart)
    BY <1>1 DEF Good, CallGood
  <2>2. x.kind = "open_py" => OfStart(x)
    BY DEF OfStart, StartKinds
  <2> QED
    BY <2>1, <2>2 DEF StartGood
<1> QED
  BY <1>2, <1>3 DEF At, StartsGood

(* The pending calls without the i-th of client c, which is answered.      *)
LEMMA KeptTaken ==
    ASSUME calls \in [Clients -> Seq(Call)], LanesOwned(calls), HeldGood, NEW b,
           Kept(b, calls, NoCall), NEW c \in Clients, NEW i \in 1..Len(calls[c]),
           NEW cs, cs = [calls EXCEPT ![c] = Without(calls[c], i)]
    PROVE  LanesOwned(cs) /\ Kept(b, cs, calls[c][i])
<1> DEFINE s == Without(calls[c], i)
           n == Len(calls[c])
           z == calls[c][i]
<1>1. calls[c] \in Seq(Call) /\ n \in Nat /\ i \in 1..n
  OBVIOUS
<1>2. Len(s) = n - 1 /\ \A j \in 1..(n - 1) : s[j] = calls[c][IF j < i THEN j ELSE j + 1]
  BY <1>1, WithoutPlaces
<1>3. cs = [calls EXCEPT ![c] = s]
  OBVIOUS
<1> HIDE DEF s
<1>4. cs[c] = s /\ \A d \in Clients : d # c => cs[d] = calls[d]
  BY <1>3
<1>5. CallsOf(cs, c) \subseteq CallsOf(calls, c)
  <2> SUFFICES ASSUME NEW j \in 1..(n - 1) PROVE \E h \in 1..n : s[j] = calls[c][h]
    BY <1>2, <1>4 DEF CallsOf
  <2>1. (IF j < i THEN j ELSE j + 1) \in 1..n
    BY <1>1
  <2> QED
    BY <1>2, <2>1
<1>6. ASSUME NEW y \in CallsOf(calls, c), y # z PROVE y \in CallsOf(cs, c)
  <2>1. PICK j \in 1..n : y = calls[c][j]
    BY DEF CallsOf
  <2>2. j # i
    BY <1>6, <2>1
  <2>3. \E h \in 1..(n - 1) : s[h] = calls[c][j]
    <3>1. CASE j < i
      <4>1. j \in 1..(n - 1)
        BY <1>1, <3>1
      <4> QED
        BY <1>2, <3>1, <4>1
    <3>2. CASE ~(j < i)
      <4>1. j - 1 \in 1..(n - 1) /\ ~(j - 1 < i) /\ (j - 1) + 1 = j
        BY <1>1, <2>2, <3>2
      <4> QED
        BY <1>2, <4>1
    <3> QED
      BY <3>1, <3>2
  <2> QED
    BY <1>2, <1>4, <2>1, <2>3 DEF CallsOf
<1>7. \A d \in Clients : d # c => CallsOf(cs, d) = CallsOf(calls, d)
  BY <1>4 DEF CallsOf
<1>8. z \in CallsOf(calls, c)
  BY DEF CallsOf
<1>9. z.client = c
  BY <1>8 DEF LanesOwned
<1> HIDE DEF z
<1>10. LanesOwned(cs)
  BY <1>5, <1>7 DEF LanesOwned
<1>11. Kept(b, cs, z)
  <2> SUFFICES ASSUME NEW r \in Starts, live[r] # 0, ~Claims(z, r)
               PROVE  /\ b.session = r \/ \E y \in CallsOf(cs, live[r]) : Owns(y, r)
                      /\ b.session = r /\ b.starting.launching =>
                            \E y \in CallsOf(cs, live[r]) : Launches(y, r)
    BY DEF Kept
  <2>1. /\ b.session = r \/ \E y \in CallsOf(calls, live[r]) : Owns(y, r)
        /\ b.session = r /\ b.starting.launching =>
              \E y \in CallsOf(calls, live[r]) : Launches(y, r)
    BY NoneClaimed DEF Kept
  <2>2. live[r] \in Clients
    BY DEF HeldGood
  <2>3. CASE live[r] # c
    BY <1>7, <2>1, <2>2, <2>3
  <2>4. CASE live[r] = c
    <3>1. ~Owns(z, r)
      BY <1>9, <2>4 DEF Claims
    <3>2. ~Launches(z, r)
      BY <3>1 DEF Owns, Launches
    <3> QED
      BY <1>6, <2>1, <2>4, <3>1, <3>2
  <2> QED
    BY <2>3, <2>4
<1> QED
  BY <1>10, <1>11 DEF z

(* What the handler of frame f finds: what was under way, without call i   *)
(* of lane c, which f answers.                                             *)
LEMMA TakenFinds ==
    ASSUME IInv, DInv, SInv, NEW c \in 0..MaxClients, NEW w \in Waits,
           NEW i \in 1..Len(Lanes(calls, loop)[c]),
           Lanes(w.calls, w.loop) =
               [Lanes(calls, loop) EXCEPT ![c] = Without(Lanes(calls, loop)[c], i)],
           LanesOwned(w.calls),
           NEW f, f.call = Lanes(calls, loop)[c][i],
           NEW z \in {NoCall, f.call}, Kept(buf, w.calls, z),
           z = f.call => z.stage = "answered" /\ (z.kind = "open_py" => f.err = "ok")
    PROVE  /\ Finds(buf, w, z) /\ Answering(f, w, z)
           /\ Within(Lanes(w.calls, w.loop)) \subseteq Within(Lanes(calls, loop))
<1> DEFINE L == Lanes(calls, loop)
           M == Lanes(w.calls, w.loop)
<1>1. Waiting(calls, loop) \in Waits /\ Found(buf, Waiting(calls, loop), Now)
  BY DInvFound, WaitingCallsOK
<1>2. L \in AllLanes /\ AllApart(L) /\ Good(buf, Within(L), Now, lastStart)
  BY <1>1, LanesTyped DEF Found, Waiting
<1>3. Sessions(buf, Within(L), lastStart) /\ \A x \in Within(L) : CloseGood(x)
  BY DEF SInv
<1> HIDE DEF L, M
<1>4. M = [L EXCEPT ![c] = Without(L[c], i)] /\ i \in 1..Len(L[c]) /\ f.call = L[c][i]
  BY DEF L, M
<1>5. Within(M) \subseteq Within(L) /\ \A y \in Within(M) : Apart(f.call, y)
  BY <1>2, <1>4, LaneRemoved
<1>6. f.call \in Within(L)
  BY <1>4, InLanes
<1>7. StartGood(f.call, buf, lastStart)
  BY <1>2, <1>6 DEF Good, CallGood
<1>8. Sessions(buf, Within(M), lastStart)
  BY <1>3, <1>5 DEF Sessions
<1>9. /\ SessionGood(f.call, buf, lastStart)
      /\ \A y \in Within(M) : Clear(f.call, y) /\ Clear(y, f.call)
  BY <1>3, <1>5, <1>6 DEF Sessions
<1>10. CloseGood(f.call)
  BY <1>3, <1>6
<1> QED
  BY <1>5, <1>7, <1>8, <1>9, <1>10 DEF Finds, Answering, L, M

-----------------------------------------------------------------------------
(* The callbacks that wait.                                                *)

LEMMA ToldTail ==
    ASSUME NEW l \in Seq(Frame), l # <<>>, NEW c, Told(l, c)
    PROVE  /\ Told(Tail(l), c)
           /\ Head(l).type = "on_exit" =>
                /\ c # 0 /\ Head(l).call.client = c /\ exited[c]
                /\ \A j \in 1..Len(Tail(l)) : ~OnExit(Tail(l), j)
<1>1. /\ Len(Tail(l)) = Len(l) - 1 /\ Len(l) \in Nat /\ Len(l) > 0 /\ Head(l) = l[1]
      /\ \A j \in 1..Len(Tail(l)) : Tail(l)[j] = l[j + 1]
  OBVIOUS
<1>2. \A j \in 1..Len(Tail(l)) : j + 1 \in 1..Len(l) /\ j + 1 # 1
  BY <1>1
<1>3. 1 \in 1..Len(l)
  BY <1>1
<1>4. \A j \in 1..Len(Tail(l)) : OnExit(Tail(l), j) => OnExit(l, j + 1)
  BY <1>1 DEF OnExit
<1>5. Told(Tail(l), c)
  <2>1. ASSUME NEW j \in 1..Len(Tail(l)), OnExit(Tail(l), j)
        PROVE  c # 0 /\ Tail(l)[j].call.client = c /\ exited[c]
    BY <1>1, <1>2, <1>4, <2>1 DEF Told
  <2>2. ASSUME NEW i \in 1..Len(Tail(l)), NEW j \in 1..Len(Tail(l)),
               OnExit(Tail(l), i), OnExit(Tail(l), j)
        PROVE  i = j
    <3>1. i + 1 = j + 1
      BY <1>2, <1>4, <2>2 DEF Told
    <3> QED
      BY <3>1
  <2> QED
    BY <2>1, <2>2 DEF Told
<1>6. ASSUME Head(l).type = "on_exit", NEW j \in 1..Len(Tail(l))
      PROVE  ~OnExit(Tail(l), j)
  <2>1. OnExit(l, 1)
    BY <1>1, <1>6 DEF OnExit
  <2> QED
    BY <1>2, <1>3, <1>4, <2>1 DEF Told
<1>7. ASSUME Head(l).type = "on_exit"
      PROVE  c # 0 /\ Head(l).call.client = c /\ exited[c]
  <2>1. OnExit(l, 1)
    BY <1>1, <1>7 DEF OnExit
  <2> QED
    BY <1>1, <1>3, <2>1 DEF Told
<1> QED
  BY <1>5, <1>6, <1>7

LEMMA ToldAppended ==
    ASSUME NEW l \in Seq(Frame), NEW f \in Frame, f.type # "on_exit", NEW c, Told(l, c)
    PROVE  Told(Append(l, f), c)
<1>1. /\ Len(Append(l, f)) = Len(l) + 1 /\ Append(l, f)[Len(l) + 1] = f /\ Len(l) \in Nat
      /\ \A j \in 1..Len(l) : Append(l, f)[j] = l[j]
  OBVIOUS
<1>2. \A j \in 1..(Len(l) + 1) : j = Len(l) + 1 \/ j \in 1..Len(l)
  BY <1>1
<1>3. \A j \in 1..(Len(l) + 1) : OnExit(Append(l, f), j) =>
          j \in 1..Len(l) /\ OnExit(l, j) /\ Append(l, f)[j] = l[j]
  BY <1>1, <1>2 DEF OnExit
<1> QED
  BY <1>1, <1>3 DEF Told

-----------------------------------------------------------------------------
(* The steps of the front end.                                             *)

(* How a command or a callback ends.                                       *)
Ends(w) ==
    \/ Leaves(w, NoCall)
    \/ /\ Forgets(w)
       /\ client # 0 /\ exited[client] /\ \A j \in 1..Len(w.loop) : ~OnExit(w.loop, j)

(* Where a callback took f from.                                           *)
Heard(f, w) ==
    \/ \E c \in Clients : /\ pipe[c] # <<>> /\ f = Head(pipe[c])
                          /\ pipe' = [pipe EXCEPT ![c] = Tail(pipe[c])]
                          /\ f.type = "reply" => f.call.client = c
                          /\ w.loop = loop
    \/ loop # <<>> /\ f = Head(loop) /\ pipe' = pipe /\ w.loop = Tail(loop)

(* The handler of f finds w.                                               *)
Handles(f, w, z) ==
    /\ Handle(f, w) /\ Heard(f, w)
    /\ Within(Lanes(w.calls, w.loop)) \subseteq Within(Lanes(calls, loop))
    /\ Told(w.loop, client)
    /\ Finds(buf, w, z) /\ At(buf, w)
    /\ IF f.type = "reply"
       THEN Answering(f, w, z) /\ f.call \in Within(Lanes(calls, loop))
       ELSE z = NoCall
    /\ f.type = "on_exit" =>
         /\ client # 0 /\ f.call.client = client /\ exited[client]
         /\ \A j \in 1..Len(w.loop) : ~OnExit(w.loop, j)

LEMMA CallbackHandles ==
    ASSUME IInv, DInv, SInv, Callback
    PROVE  \E w \in Waits, f \in Frame : \E z : Handles(f, w, z)
<1>1. /\ loop \in Seq(Frame)
      /\ calls \in [Clients -> Seq(Call)] /\ pipe \in [Clients -> Seq(Frame)]
  BY DEF IInv, TypeOK, BackendTypeOK, ClientTypeOK
<1>2. /\ LanesOwned(calls) /\ HeldGood /\ Kept(buf, calls, NoCall)
      /\ Told(loop, client) /\ Sessions(buf, Within(Lanes(calls, loop)), lastStart)
  BY DEF SInv, Processes
<1>3. ASSUME NEW c \in Clients, Readable(c), pipe' = [pipe EXCEPT ![c] = Tail(pipe[c])],
             NEW cs \in Remaining(c, Head(pipe[c])),
             Handle(Head(pipe[c]), Waiting(cs, loop))
      PROVE  \E w \in Waits, f \in Frame : \E z : Handles(f, w, z)
  <2> DEFINE f == Head(pipe[c])
             w == Waiting(cs, loop)
  <2>1. pipe[c] \in Seq(Frame) /\ pipe[c] # <<>>
    BY <1>1, <1>3 DEF Readable
  <2>2. f \in Frame /\ f = pipe[c][1] /\ 1 \in 1..Len(pipe[c])
    BY <2>1
  <2>3. FrameGood(f)
    BY <2>2, InFrames DEF SInv
  <2>4. w.calls = cs /\ w.loop = loop
    BY DEF Waiting
  <2>5. /\ Handle(f, w) /\ cs \in Remaining(c, f)
        /\ f = Head(pipe[c]) /\ pipe' = [pipe EXCEPT ![c] = Tail(pipe[c])]
    BY <1>3
  <2> HIDE DEF f, w
  <2>6. f.type # "on_exit"
    BY <2>3 DEF FrameGood
  <2>7. CASE f.type = "reply"
    <3>1. PICK i \in 1..Len(calls[c]) :
              calls[c][i] = f.call /\ cs = [calls EXCEPT ![c] = Without(calls[c], i)]
      BY <2>5, <2>7 DEF Remaining
    <3>2. /\ c \in 0..MaxClients /\ Lanes(calls, loop)[c] = calls[c]
          /\ Lanes(cs, loop) = [Lanes(calls, loop) EXCEPT ![c] = Without(Lanes(calls, loop)[c], i)]
      <4> DEFINE L == Lanes(calls, loop)
                 s == Without(calls[c], i)
      <4>1. c \in 0..MaxClients /\ c # 0 /\ \A d \in 0..MaxClients : d # 0 => d \in Clients
        BY BoundsAssumption DEF Clients
      <4>2. L[c] = calls[c] /\ cs = [calls EXCEPT ![c] = s]
        BY <3>1, <4>1 DEF Lanes
      <4> HIDE DEF s
      <4>3. Lanes(cs, loop) = [L EXCEPT ![c] = s]
        BY <1>1, <4>1, <4>2 DEF Lanes
      <4> QED
        BY <4>1, <4>2, <4>3 DEF s
    <3>3. w \in Waits
      <4>1. Without(calls[c], i) \in Seq(Call)
        BY <1>1, WithoutTyped
      <4>2. cs \in [Clients -> Seq(Call)]
        BY <1>1, <3>1, <4>1
      <4> QED
        BY <1>1, <4>2 DEF Waits, Waiting, w
    <3>4. LanesOwned(w.calls) /\ Kept(buf, w.calls, f.call)
      <4>1. LanesOwned(cs) /\ Kept(buf, cs, calls[c][i])
        BY <1>1, <1>2, <3>1, KeptTaken
      <4> QED
        BY <2>4, <3>1, <4>1
    <3>5. f.call.stage = "answered" /\ (f.call.kind = "open_py" => f.err = "ok")
      BY <2>3, <2>7 DEF FrameGood
    <3> DEFINE z == f.call
    <3>6. z \in {NoCall, f.call} /\ z = f.call
      OBVIOUS
    <3> HIDE DEF z
    <3>7. /\ Finds(buf, w, z) /\ Answering(f, w, z)
          /\ Within(Lanes(w.calls, w.loop)) \subseteq Within(Lanes(calls, loop))
          /\ f.call \in Within(Lanes(calls, loop))
      <4>1. Lanes(w.calls, w.loop) = [Lanes(calls, loop) EXCEPT ![c] = Without(Lanes(calls, loop)[c], i)]
        BY <2>4, <3>2
      <4>2. i \in 1..Len(Lanes(calls, loop)[c]) /\ f.call = Lanes(calls, loop)[c][i]
        BY <3>1, <3>2
      <4>3. Kept(buf, w.calls, z) /\ z.stage = "answered" /\ (z.kind = "open_py" => f.err = "ok")
        BY <3>4, <3>5, <3>6
      <4>4. f.call \in Within(Lanes(calls, loop))
        BY <3>2, <4>2, InLanes
      <4> QED
        BY <3>2, <3>3, <3>4, <3>6, <4>1, <4>2, <4>3, <4>4, TakenFinds
    <3>8. Heard(f, w)
      <4>1. f.call.client = c
        BY <1>2, <3>1 DEF LanesOwned, CallsOf
      <4> QED
        BY <2>1, <2>4, <2>5, <4>1 DEF Heard
    <3>9. Handles(f, w, z)
      BY <1>2, <2>4, <2>5, <2>6, <2>7, <3>7, <3>8, AtNow DEF Handles
    <3> QED
      BY <2>2, <3>3, <3>9
  <2>8. CASE f.type # "reply"
    <3>1. cs = calls
      BY <2>5, <2>8 DEF Remaining
    <3>2. w \in Waits
      BY <3>1, WaitingCallsOK DEF w
    <3>3. Finds(buf, w, NoCall) /\ At(buf, w)
      BY <1>2, <2>4, <3>1, AtNow DEF Finds
    <3>4. Heard(f, w)
      BY <2>1, <2>4, <2>5, <2>8 DEF Heard
    <3>5. Handles(f, w, NoCall)
      BY <1>2, <2>4, <2>5, <2>6, <2>8, <3>1, <3>3, <3>4 DEF Handles
    <3> QED
      BY <2>2, <3>2, <3>5
  <2> QED
    BY <2>7, <2>8
<1>4. ASSUME loop # <<>>, Handle(Head(loop), Waiting(calls, Tail(loop))), pipe' = pipe
      PROVE  \E w \in Waits, f \in Frame : \E z : Handles(f, w, z)
  <2> DEFINE f == Head(loop)
             w == Waiting(calls, Tail(loop))
             L == Lanes(calls, loop)
  <2>1. f \in Frame /\ Tail(loop) \in Seq(Frame)
    BY <1>1, <1>4
  <2>2. w.calls = calls /\ w.loop = Tail(loop) /\ w \in Waits
    BY <1>1, <2>1 DEF Waiting, Waits
  <2>3. Handle(f, w) /\ Heard(f, w)
    BY <1>4, <2>2 DEF Heard
  <2>4. 0 \in 0..MaxClients /\ L[0] = Callbacks(loop)
    BY BoundsAssumption DEF Lanes
  <2>5. Callbacks(Tail(loop)) = Without(L[0], 1) /\ 1 \in 1..Len(L[0]) /\ f.call = L[0][1]
    BY <1>1, <1>4, <2>4, CallbacksTail
  <2>6. Lanes(w.calls, w.loop) = [L EXCEPT ![0] = Without(L[0], 1)]
    BY <2>2, <2>4, <2>5 DEF Lanes
  <2>7. /\ Told(w.loop, client)
        /\ f.type = "on_exit" =>
             /\ client # 0 /\ f.call.client = client /\ exited[client]
             /\ \A j \in 1..Len(w.loop) : ~OnExit(w.loop, j)
    BY <1>1, <1>2, <1>4, <2>2, ToldTail
  <2> HIDE DEF f, w
  <2>8. Kept(buf, w.calls, NoCall) /\ LanesOwned(w.calls)
    BY <1>2, <2>2
  <2>9. Within(Lanes(w.calls, w.loop)) \subseteq Within(L) /\ f.call \in Within(L)
    <3>1. L \in AllLanes /\ AllApart(L)
      <4>1. Waiting(calls, loop) \in Waits /\ Waiting(calls, loop).calls = calls
            /\ Waiting(calls, loop).loop = loop
        BY WaitingCallsOK DEF Waiting
      <4> QED
        BY <4>1, LanesTyped DEF DInv
    <3> HIDE DEF L
    <3>2. PICK c \in 0..MaxClients : c = 0
      BY <2>4
    <3>3. PICK i \in 1..Len(L[c]) : i = 1
      BY <2>5, <3>2
    <3> QED
      BY <2>5, <2>6, <3>1, <3>2, <3>3, InLanes, LaneRemoved
  <2>10. Finds(buf, w, NoCall) /\ At(buf, w)
    BY <1>2, <2>8, <2>9, AtNow DEF Finds, Sessions
  <2>11. f.type = "reply" => Answering(f, w, NoCall)
    <3> SUFFICES ASSUME f.type = "reply" PROVE Answering(f, w, NoCall)
      OBVIOUS
    <3>1. f.call.kind # "none"
      BY <2>3 DEF Handle
    <3>2. NoCall # f.call
      BY <3>1 DEF NoCall
    <3>3. PICK c \in 0..MaxClients : c = 0
      BY <2>4
    <3>4. PICK i \in 1..Len(L[c]) : i = 1
      BY <2>5, <3>3
    <3>5. f.call = L[c][i] /\ Lanes(w.calls, w.loop) = [L EXCEPT ![c] = Without(L[c], i)]
      BY <2>5, <2>6, <3>3, <3>4
    <3> DEFINE z == NoCall
    <3>6. z \in {NoCall, f.call} /\ z = NoCall /\ z # f.call
      BY <3>2
    <3> HIDE DEF z
    <3>7. Answering(f, w, z)
      BY <2>2, <2>8, <3>5, <3>6, TakenFinds
    <3> QED
      BY <3>6, <3>7
  <2>12. Handles(f, w, NoCall)
    BY <2>3, <2>7, <2>9, <2>10, <2>11 DEF Handles
  <2> QED
    BY <2>1, <2>2, <2>12 DEF f
<1> QED
  BY <1>3, <1>4 DEF Callback

LEMMA CallbackEnds ==
    ASSUME IInv, DInv, SInv, Callback
    PROVE  \E w \in Waits :
              /\ Within(Lanes(w.calls, w.loop)) \subseteq Within(Lanes(calls, loop))
              /\ LanesOwned(w.calls)
              /\ Told(w.loop, client)
              /\ w.loop = loop \/ (loop # <<>> /\ w.loop = Tail(loop))
              /\ Ends(w)
<1>1. PICK w \in Waits, f \in Frame : \E z : Handles(f, w, z)
  BY CallbackHandles
<1>2. PICK z : Handles(f, w, z)
  BY <1>1
<1>3. Settled /\ Sound(buf) /\ lastStart \in 0..MaxStarts
  BY SInvSettled DEF IInv, TypeOK
<1>4. Leaves(w, NoCall) \/ (f.type = "on_exit" /\ Forgets(w))
  BY <1>2, <1>3, HandleLeaves DEF Handles
<1>5. Ends(w)
  BY <1>2, <1>4 DEF Handles, Ends
<1> QED
  BY <1>2, <1>5 DEF Handles, Heard, Finds

(* When a step of the front end ends the backends have done nothing.       *)
LEMMA FrontEndSessions ==
    ASSUME IInv, SInv, UNCHANGED serverVars, UNCHANGED <<exited, closed>>,
           Frames(pipe') \subseteq Frames(pipe), NEW w \in Waits,
           Within(Lanes(w.calls, w.loop)) \subseteq Within(Lanes(calls, loop)),
           LanesOwned(w.calls), Told(w.loop, client), Ends(w)
    PROVE  SInv'
<1>1. /\ live' = live /\ slot' = slot /\ kernel' = kernel /\ exited' = exited /\ closed' = closed
  BY DEF serverVars
<1>2. /\ Processes /\ HeldGood /\ (\A f \in Frames(pipe) : FrameGood(f))
      /\ (\A k \in Starts : KernelGood(k))
      /\ \A x \in Within(Lanes(calls, loop)) : LaunchGood(x) /\ CloseGood(x)
  BY DEF SInv
<1>3. /\ backend \in [Clients -> {"unborn", "up", "dead"}] /\ client \in 0..MaxClients
      /\ w.loop \in Seq(Frame)
  BY DEF IInv, TypeOK, BackendTypeOK, Waits
<1>4. /\ Sessions(buf', Within(Lanes(calls', loop')), lastStart')
      /\ Kept(buf', calls', NoCall)
      /\ LanesOwned(calls')
      /\ \A y \in Within(Lanes(calls', loop')) :
            y.stage = "sent" \/ y \in Within(Lanes(calls, loop))
  BY DEF Ends, Leaves, Forgets
<1>5. \A c \in Clients : backend[c] # "unborn" => backend'[c] = backend[c]
  BY <1>3 DEF Ends, Leaves, Forgets, Spawned
<1>6. HeldGood'
  BY <1>1, <1>2, <1>5 DEF HeldGood
<1>7. \A x \in Within(Lanes(calls', loop')) : LaunchGood(x)' /\ CloseGood(x)'
  BY <1>1, <1>2, <1>4, <1>5 DEF LaunchGood, CloseGood
<1>8. \A f \in Frames(pipe') : FrameGood(f)
  BY <1>2
<1>9. \A k \in Starts : KernelGood(k)'
  BY <1>1, <1>2 DEF KernelGood
<1>10. Told(loop', client)
  <2>1. CASE loop' = w.loop
    BY <2>1
  <2>2. ASSUME NEW x \in Call, loop' = Append(w.loop, Reply(x, "gone"))
        PROVE  Told(loop', client)
    <3>1. Reply(x, "gone") \in Frame /\ Reply(x, "gone").type # "on_exit"
      BY ReplyTyped DEF Reply
    <3> QED
      BY <1>3, <2>2, <3>1, ToldAppended
  <2> QED
    BY <2>1, <2>2 DEF Ends, Leaves, Forgets, Scheduled
<1>11. Processes'
  <2>1. CASE client' = client /\ backend' = backend
    BY <1>1, <1>2, <1>10, <2>1 DEF Processes, Told
  <2>2. ASSUME client = 0, NEW c \in Clients, backend[c] = "unborn", client' = c,
               backend' = [backend EXCEPT ![c] = "up"]
        PROVE  Processes'
    <3>1. backend'[c] = "up" /\ \A d \in Clients : d # c => backend'[d] = backend[d]
      BY <1>3, <2>2
    <3>2. \A j \in 1..Len(loop') : ~OnExit(loop', j)
      BY <1>10, <2>2 DEF Told
    <3>3. Told(loop, client)'
      BY <3>2 DEF Told
    <3>4. \A d \in Clients : d # client
      BY <2>2 DEF Clients
    <3> QED
      BY <1>1, <1>2, <2>2, <3>1, <3>3, <3>4 DEF Processes
  <2>3. CASE /\ Forgets(w) /\ client # 0 /\ exited[client]
             /\ \A j \in 1..Len(w.loop) : ~OnExit(w.loop, j)
    <3>1. client' = 0 /\ backend' = backend /\ loop' = w.loop
      BY <2>3 DEF Forgets
    <3>2. Told(loop, client)'
      BY <2>3, <3>1 DEF Told
    <3> QED
      BY <1>1, <1>2, <2>3, <3>1, <3>2 DEF Processes
  <2> QED
    BY <2>1, <2>2, <2>3 DEF Ends, Leaves, Spawned
<1>12. /\ LanesOwned(calls)' /\ Kept(buf, calls, NoCall)'
       /\ Sessions(buf, Within(Lanes(calls, loop)), lastStart)'
  BY <1>1, <1>4 DEF Kept, Claims
<1> QED
  BY <1>6, <1>7, <1>8, <1>9, <1>11, <1>12 DEF SInv

LEMMA UserCommandSessions ==
    ASSUME IInv, DInv, SInv, UserCommand
    PROVE  SInv'
<1> DEFINE w == Waiting(calls, loop)
<1>1. /\ Sound(buf) /\ lastStart \in 0..MaxStarts /\ client \in 0..MaxClients
      /\ lastRun \in 0..MaxRuns
  BY DEF IInv, TypeOK
<1>2. w \in Waits /\ w.calls = calls /\ w.loop = loop /\ w = Waiting(calls, loop)
  BY WaitingCallsOK DEF Waiting
<1>3. /\ Command /\ UNCHANGED serverVars /\ UNCHANGED <<exited, closed>>
      /\ Frames(pipe') = Frames(pipe)
  BY DEF UserCommand
<1> HIDE DEF w
<1>4. Settled /\ Finds(buf, w, NoCall) /\ LanesOwned(w.calls) /\ Told(w.loop, client)
  BY <1>2, SInvSettled DEF SInv, Finds, Processes
<1>5. At(buf, w)
  BY <1>2, AtNow
<1>6. Ends(w)
  BY <1>1, <1>2, <1>3, <1>4, <1>5, CommandLeaves DEF Ends
<1>7. Within(Lanes(w.calls, w.loop)) \subseteq Within(Lanes(calls, loop))
  BY <1>2
<1> QED
  BY <1>2, <1>3, <1>4, <1>6, <1>7, FrontEndSessions

LEMMA EventLoopSessions ==
    ASSUME IInv, DInv, SInv, EventLoop
    PROVE  SInv'
<1>1. Callback /\ UNCHANGED serverVars /\ UNCHANGED <<exited, closed>>
  BY DEF EventLoop
<1>2. Frames(pipe') \subseteq Frames(pipe)
  BY <1>1, CallbackLeft
<1>3. PICK w \in Waits :
          /\ Within(Lanes(w.calls, w.loop)) \subseteq Within(Lanes(calls, loop))
          /\ LanesOwned(w.calls)
          /\ Told(w.loop, client)
          /\ Ends(w)
  BY <1>1, CallbackEnds
<1> QED
  BY <1>1, <1>2, <1>3, FrontEndSessions

-----------------------------------------------------------------------------
(* The steps of the backend that serve a call.                             *)

(* A call of client c makes a step, and stays where it is.                 *)
LEMMA CallsChanged ==
    ASSUME calls \in [Clients -> Seq(Call)], LanesOwned(calls),
           NEW c \in Clients, NEW i \in 1..Len(calls[c]), NEW z \in Call, Alike(z, calls[c][i]),
           calls' = [calls EXCEPT ![c] = [calls[c] EXCEPT ![i] = z]]
    PROVE  /\ LanesOwned(calls')
           /\ z \in CallsOf(calls', c) /\ calls[c][i].client = c
           /\ \A d \in Clients : \A y \in CallsOf(calls, d) :
                  \E v \in CallsOf(calls', d) : Alike(v, y)
<1> DEFINE s == [calls[c] EXCEPT ![i] = z]
           n == Len(calls[c])
<1>1. calls[c] \in Seq(Call) /\ calls' = [calls EXCEPT ![c] = s]
  OBVIOUS
<1>2. Len(s) = n /\ s[i] = z /\ \A j \in 1..n : j # i => s[j] = calls[c][j]
  BY <1>1
<1> HIDE DEF s
<1>3. calls'[c] = s /\ \A d \in Clients : d # c => calls'[d] = calls[d]
  BY <1>1
<1>4. \A d \in Clients : d # c => CallsOf(calls', d) = CallsOf(calls, d)
  BY <1>3 DEF CallsOf
<1>5. z \in CallsOf(calls', c)
  BY <1>2, <1>3 DEF CallsOf
<1>6. calls[c][i] \in CallsOf(calls, c)
  BY DEF CallsOf
<1>7. \A y \in CallsOf(calls', c) : y = z \/ y \in CallsOf(calls, c)
  <2> SUFFICES ASSUME NEW j \in 1..n PROVE s[j] = z \/ \E h \in 1..n : s[j] = calls[c][h]
    BY <1>2, <1>3 DEF CallsOf
  <2> QED
    BY <1>2
<1>8. ASSUME NEW y \in CallsOf(calls, c) PROVE \E v \in CallsOf(calls', c) : Alike(v, y)
  <2>1. PICK j \in 1..n : y = calls[c][j]
    BY DEF CallsOf
  <2>2. CASE j = i
    BY <1>5, <2>1, <2>2
  <2>3. CASE j # i
    <3>1. y \in CallsOf(calls', c)
      BY <1>2, <1>3, <2>1, <2>3 DEF CallsOf
    <3>2. Alike(y, y)
      BY DEF Alike
    <3> QED
      BY <3>1, <3>2
  <2> QED
    BY <2>2, <2>3
<1>9. \A y : Alike(y, y)
  BY DEF Alike
<1> QED
  BY <1>4, <1>5, <1>6, <1>7, <1>8, <1>9 DEF LanesOwned, Alike

(* The sessions that the service of call x of client c opens and closes.   *)
Effected(x, c) ==
    \A s \in Starts :
        \/ live'[s] = live[s]
        \/ live'[s] = 0 /\ x.kind = "close" /\ s = x.session
        \/ live'[s] = c /\ x.kind = "open_py" /\ s = x.start

LEMMA ServedSessions ==
    ASSUME IInv, DInv, SInv, UNCHANGED <<clientVars, frontendVars>>, backend' = backend,
           NEW c \in Clients, NEW i \in 1..Len(calls[c]), backend[c] = "up",
           NEW x, x = calls[c][i], NEW z \in Call, Alike(z, x),
           calls' = [calls EXCEPT ![c] = [calls[c] EXCEPT ![i] = z]],
           Effected(x, c),
           z.kind = "start_kernel" /\ z.stage = "begun" => live'[z.session] = c,
           z.kind = "close" /\ z.stage = "answered" => live'[z.session] # c,
           \A f \in Frames(pipe') : f \in Frames(pipe) \/ FrameGood(f),
           \A k \in Starts : KernelGood(k)'
    PROVE  SInv'
<1> DEFINE L == Lanes(calls, loop)
           M == Lanes(calls', loop')
<1>1. /\ loop' = loop /\ exited' = exited /\ closed' = closed
      /\ client' = client /\ buf' = buf /\ lastStart' = lastStart
  BY DEF clientVars, frontendVars
<1>2. /\ calls \in [Clients -> Seq(Call)] /\ lastStart \in 0..MaxStarts
      /\ live \in [Starts -> 0..MaxClients]
  BY DEF IInv, TypeOK, BackendTypeOK
<1>3. /\ Processes /\ LanesOwned(calls) /\ Sessions(buf, Within(L), lastStart)
      /\ Kept(buf, calls, NoCall) /\ HeldGood
      /\ \A y \in Within(L) : LaunchGood(y) /\ CloseGood(y)
      /\ \A f \in Frames(pipe) : FrameGood(f)
  BY DEF SInv
<1>4. /\ LanesOwned(calls') /\ z \in CallsOf(calls', c) /\ x.client = c
      /\ \A d \in Clients : \A y \in CallsOf(calls, d) :
             \E v \in CallsOf(calls', d) : Alike(v, y)
  BY <1>2, <1>3, CallsChanged
<1>5. c \in 0..MaxClients /\ c # 0 /\ \A d \in 0..MaxClients : d # 0 => d \in Clients
  BY BoundsAssumption DEF Clients
<1>6. L \in AllLanes /\ AllApart(L)
  <2>1. Waiting(calls, loop) \in Waits /\ Waiting(calls, loop).calls = calls
        /\ Waiting(calls, loop).loop = loop
    BY WaitingCallsOK DEF Waiting
  <2> QED
    BY <2>1, LanesTyped DEF DInv
<1>7. M = [L EXCEPT ![c] = [L[c] EXCEPT ![i] = z]] /\ i \in 1..Len(L[c]) /\ L[c][i] = x
  <2> DEFINE s == [calls[c] EXCEPT ![i] = z]
  <2>1. L[c] = calls[c] /\ calls' = [calls EXCEPT ![c] = s]
    BY <1>5 DEF Lanes
  <2> HIDE DEF s
  <2>2. M = [L EXCEPT ![c] = s]
    BY <1>1, <1>2, <1>5, <2>1 DEF Lanes
  <2> QED
    BY <2>1, <2>2 DEF s
<1> HIDE DEF L, M
<1>8. x \in Within(L) /\ \A y \in Within(M) : y = z \/ y \in Within(L)
  <2>1. x \in Within(L)
    BY <1>5, <1>7, InLanes
  <2>2. Alike(z, L[c][i])
    BY <1>7
  <2> QED
    BY <1>5, <1>6, <1>7, <2>1, <2>2, LaneChanged
<1>9. Sessions(buf, Within(M), lastStart)
  <2>1. \A y : (SessionGood(x, buf, lastStart) => SessionGood(z, buf, lastStart))
               /\ (Clear(x, y) => Clear(z, y)) /\ (Clear(y, x) => Clear(y, z))
    BY DEF SessionGood, Clear, Alike
  <2>2. Clear(z, x) => Clear(z, z)
    BY <2>1
  <2> QED
    BY <1>3, <1>8, <2>1, <2>2 DEF Sessions
<1>10. \A y \in Within(L) : y.kind \in {"start_kernel", "close"} => y.session \in Starts
  <2>1. \A s \in 1..lastStart : s \in Starts
    BY <1>2, BoundsAssumption DEF Starts
  <2> QED
    BY <1>3, <2>1 DEF Sessions, SessionGood
<1>11. ASSUME NEW y \in Within(L) PROVE LaunchGood(y)' /\ CloseGood(y)'
  <2>1. Clear(x, y) /\ Clear(y, x) /\ LaunchGood(y) /\ CloseGood(y)
    BY <1>3, <1>8, <1>11 DEF Sessions
  <2>2. LaunchGood(y)'
    <3> SUFFICES ASSUME y.kind = "start_kernel", y.stage = "begun"
                 PROVE  y.client \in Clients
                        /\ (live'[y.session] = y.client \/ backend'[y.client] = "dead")
      BY DEF LaunchGood
    <3>1. x.kind = "close" => x.session # y.session
      BY <2>1 DEF Clear
    <3>2. x.kind = "open_py" => y.session # x.start
      BY <2>1 DEF Clear
    <3>3. y.session \in Starts
      BY <1>10
    <3>4. live'[y.session] = live[y.session]
      BY <3>1, <3>2, <3>3 DEF Effected
    <3> QED
      BY <2>1, <3>4 DEF LaunchGood
  <2>3. CloseGood(y)'
    <3> SUFFICES ASSUME y.kind = "close", y.stage = "answered"
                 PROVE  y.client \in Clients /\ live'[y.session] # y.client
      BY DEF CloseGood
    <3>1. x.kind = "open_py" => y.session # x.start
      BY <2>1 DEF Clear
    <3>2. y.session \in Starts
      BY <1>10
    <3>3. live'[y.session] \in {live[y.session], 0}
      BY <3>1, <3>2 DEF Effected
    <3> QED
      BY <2>1, <3>3 DEF CloseGood, Clients
  <2> QED
    BY <2>2, <2>3
<1>12. LaunchGood(z)' /\ CloseGood(z)'
  BY <1>4 DEF LaunchGood, CloseGood, Alike
<1>13. HeldGood'
  BY <1>3 DEF HeldGood, Effected
<1>14. Kept(buf, calls, NoCall)'
  <2> SUFFICES ASSUME NEW s \in Starts, live'[s] # 0
               PROVE  /\ buf.session = s \/ \E y \in CallsOf(calls', live'[s]) : Owns(y, s)
                      /\ buf.session = s /\ buf.starting.launching =>
                            \E y \in CallsOf(calls', live'[s]) : Launches(y, s)
    BY <1>1 DEF Kept
  <2>1. CASE live'[s] = live[s]
    <3>1. /\ buf.session = s \/ \E y \in CallsOf(calls, live[s]) : Owns(y, s)
          /\ buf.session = s /\ buf.starting.launching =>
                \E y \in CallsOf(calls, live[s]) : Launches(y, s)
      BY <1>3, <2>1, NoneClaimed DEF Kept
    <3>2. live[s] \in Clients
      BY <1>3, <2>1 DEF HeldGood
    <3>3. \A v, y : Alike(v, y) => (Owns(y, s) => Owns(v, s)) /\ (Launches(y, s) => Launches(v, s))
      BY DEF Alike, Owns, Launches
    <3> QED
      BY <1>4, <2>1, <3>1, <3>2, <3>3
  <2>2. CASE live'[s] = c /\ x.kind = "open_py" /\ s = x.start
    <3>1. StartGood(x, buf, lastStart)
      BY PendingCall DEF CallGood
    <3>2. buf.session # s
      BY <2>2, <3>1 DEF StartGood, OfStart, StartKinds
    <3>3. Owns(z, s)
      BY <2>2 DEF Owns, Alike
    <3> QED
      BY <1>4, <2>2, <3>2, <3>3
  <2> QED
    BY <2>1, <2>2 DEF Effected
<1>15. Processes'
  BY <1>1, <1>3 DEF Processes, Told
<1>16. \A f \in Frames(pipe') : FrameGood(f)
  BY <1>3
<1>17. \A y \in Within(M) : LaunchGood(y)' /\ CloseGood(y)'
  BY <1>8, <1>11, <1>12
<1>18. /\ LanesOwned(calls)' /\ Kept(buf, calls, NoCall)'
       /\ Sessions(buf, Within(Lanes(calls, loop)), lastStart)'
  BY <1>1, <1>4, <1>9, <1>14 DEF M
<1>19. (\A y \in Within(Lanes(calls, loop)) : LaunchGood(y) /\ CloseGood(y))'
  BY <1>17 DEF M
<1> QED
  BY <1>13, <1>15, <1>16, <1>18, <1>19 DEF SInv

(* The i-th call of client c is answered.                                  *)
LEMMA AnswerSessions ==
    ASSUME IInv, DInv, SInv, UNCHANGED <<clientVars, frontendVars>>, backend' = backend,
           NEW c \in Clients, NEW i \in 1..Len(calls[c]), backend[c] = "up",
           NEW x, x = calls[c][i], NEW e, Answer(c, i, e),
           x.kind = "open_py" => e = "ok",
           Effected(x, c), x.kind = "close" => live'[x.session] # c,
           \A k \in Starts : KernelGood(k)'
    PROVE  SInv'
<1> DEFINE z == [x EXCEPT !.stage = "answered"]
           f == Reply(z, e)
<1>1. x \in Call /\ pipe \in [Clients -> Seq(Frame)]
  BY DEF IInv, TypeOK, BackendTypeOK
<1>2. z \in Call /\ Alike(z, x) /\ z.stage = "answered"
  BY <1>1, StageFields
<1>3. calls' = [calls EXCEPT ![c] = [calls[c] EXCEPT ![i] = z]]
  BY DEF Answer
<1>4. pipe' = [pipe EXCEPT ![c] = Append(pipe[c], f)]
  BY DEF Answer
<1>5. f.type = "reply" /\ f.call = z /\ f.err = e
  BY DEF Reply
<1> HIDE DEF f, z
<1>6. FrameGood(f)
  BY <1>2, <1>5 DEF FrameGood, Alike
<1>7. ASSUME NEW g \in Frames(pipe'), g \notin Frames(pipe) PROVE FrameGood(g)
  <2>1. PICK d \in Clients : \E j \in 1..Len(pipe'[d]) : g = pipe'[d][j]
    BY InFrames
  <2>2. PICK j \in 1..Len(pipe'[d]) : g = pipe'[d][j]
    BY <2>1
  <2>3. ~(j \in 1..Len(pipe[d]) /\ g = pipe[d][j])
    BY <1>7, InFrames
  <2>4. d = c /\ pipe'[c] = Append(pipe[c], f) /\ pipe[c] \in Seq(Frame)
    BY <1>1, <1>4, <2>2, <2>3
  <2>5. g = f
    BY <2>2, <2>3, <2>4
  <2> QED
    BY <1>6, <2>5
<1>8. z.kind = "close" /\ z.stage = "answered" => live'[z.session] # c
  BY <1>2 DEF Alike
<1>9. z.kind = "start_kernel" /\ z.stage = "begun" => live'[z.session] = c
  BY <1>2
<1> QED
  BY <1>2, <1>3, <1>7, <1>8, <1>9, ServedSessions

(* Its task begins.                                                        *)
LEMMA BeginSessions ==
    ASSUME IInv, DInv, SInv, UNCHANGED <<clientVars, frontendVars>>, backend' = backend,
           UNCHANGED <<serverVars, pipe>>,
           NEW c \in Clients, NEW i \in 1..Len(calls[c]), backend[c] = "up",
           NEW x, x = calls[c][i], NEW z \in Call, Alike(z, x), z.stage = "begun",
           z.kind = "start_kernel" => live[z.session] = c,
           calls' = [calls EXCEPT ![c] = [calls[c] EXCEPT ![i] = z]]
    PROVE  SInv'
<1>1. live' = live /\ slot' = slot /\ kernel' = kernel /\ pipe' = pipe
  BY DEF serverVars
<1>2. Effected(x, c)
  BY <1>1 DEF Effected
<1>3. \A k \in Starts : KernelGood(k)'
  BY <1>1 DEF SInv, KernelGood
<1> QED
  BY <1>1, <1>2, <1>3, ServedSessions

(* The kernels that are left when that of session s is killed are in other *)
(* sessions.                                                               *)
LEMMA KilledGood ==
    ASSUME IInv, SInv, NEW s, NEW n \in Starts, Kill(slot[s])[n].st \in {"running", "dead"},
           slot[s] \in 0..MaxStarts
    PROVE  /\ Kill(slot[s])[n] = kernel[n]
           /\ kernel[n].session # s /\ KernelGood(n)
<1> DEFINE k == slot[s]
           t == IF kernel[k].st = "exited" THEN "exited" ELSE "gone"
           g == [kernel[k] EXCEPT !.st = t]
<1>1. kernel \in [Starts -> KernelRecord] /\ KernelGood(n)
  BY DEF IInv, TypeOK, BackendTypeOK, SInv
<1>2. CASE k \in Starts
  <2>1. g.st \in {"exited", "gone"}
    BY <1>1, <1>2 DEF KernelRecord
  <2>2. Kill(k) = [kernel EXCEPT ![k] = g]
    BY <1>2 DEF Kill
  <2> HIDE DEF g, k, t
  <2>3. n # k
    BY <1>1, <1>2, <2>1, <2>2 DEF k
  <2>4. Kill(k)[n] = kernel[n]
    BY <1>1, <2>2, <2>3
  <2>5. kernel[n].session # s
    BY <1>1, <2>3, <2>4 DEF KernelGood, k
  <2> QED
    BY <1>1, <2>4, <2>5 DEF k
<1>3. CASE k \notin Starts
  <2>1. Kill(k) = kernel
    BY <1>3 DEF Kill
  <2> HIDE DEF k
  <2>2. kernel[n].session # s
    BY <1>1, <1>3, <2>1 DEF KernelGood, k
  <2> QED
    BY <1>1, <2>1, <2>2 DEF k
<1> QED
  BY <1>2, <1>3

LEMMA OpenPySessions ==
    ASSUME IInv, DInv, SInv, UNCHANGED <<clientVars, frontendVars>>,
           NEW c \in Clients, NEW i \in 1..Len(calls[c]), OpenPy(c, i)
    PROVE  SInv'
<1> DEFINE x == calls[c][i]
           L == Lanes(calls, loop)
<1>1. /\ x.kind = "open_py" /\ backend[c] = "up" /\ Answer(c, i, "ok")
      /\ live' = [live EXCEPT ![x.start] = c]
      /\ backend' = backend /\ slot' = slot /\ kernel' = kernel
  BY DEF OpenPy, Pending
<1>2. live \in [Starts -> 0..MaxClients] /\ calls \in [Clients -> Seq(Call)]
  BY DEF IInv, TypeOK, BackendTypeOK
<1>3. /\ LanesOwned(calls) /\ Sessions(buf, Within(L), lastStart)
      /\ Kept(buf, calls, NoCall) /\ HeldGood /\ \A k \in Starts : KernelGood(k)
  BY DEF SInv
<1>4. Effected(x, c)
  BY <1>1, <1>2 DEF Effected
<1>5. x.client = c
  BY <1>3 DEF LanesOwned, CallsOf
<1>6. StartGood(x, buf, lastStart)
  BY PendingCall DEF CallGood
<1>7. AllApart(L)
  BY DEF DInv
<1>8. \A d \in Clients : d \in 0..MaxClients /\ d # 0 /\ L[d] = calls[d]
  BY BoundsAssumption DEF Clients, Lanes
<1> HIDE DEF L
<1>9. i \in 1..Len(L[c]) /\ x = L[c][i] /\ c \in 0..MaxClients
  BY <1>8
<1> HIDE DEF x
<1>10. x \in Within(L)
  BY <1>9, InLanes
(* If the session is held, this client holds it.                           *)
<1>11. ASSUME x.start \in Starts, live[x.start] # 0 PROVE live[x.start] = c
  <2> DEFINE d == live[x.start]
  <2>1. d \in Clients
    BY <1>3, <1>11 DEF HeldGood
  <2>2. buf.session # x.start
    BY <1>1, <1>6 DEF StartGood, OfStart, StartKinds
  <2>3. \E y \in CallsOf(calls, d) : Owns(y, x.start)
    BY <1>3, <1>11, <2>2, NoneClaimed DEF Kept
  <2> HIDE DEF d
  <2>4. PICK j \in 1..Len(L[d]) : Owns(L[d][j], x.start)
    BY <1>8, <2>1, <2>3 DEF CallsOf
  <2> DEFINE y == L[d][j]
  <2>5. d \in 0..MaxClients
    BY <1>8, <2>1
  <2>6. y \in Within(L)
    BY <2>5, InLanes
  <2>7. CASE d # c
    <3>1. Apart(x, y)
      BY <1>7, <1>9, <2>5, <2>7 DEF AllApart
    <3>2. y.kind = "open_py" => y.start # x.start
      BY <1>1, <3>1 DEF Apart, OfStart, StartKinds
    <3>3. Clear(y, x)
      BY <1>3, <1>10, <2>6 DEF Sessions
    <3> HIDE DEF y
    <3> QED
      BY <1>1, <2>4, <3>2, <3>3 DEF Owns, Clear, y
  <2> QED
    BY <2>7 DEF d
<1>12. \A k \in Starts : KernelGood(k)'
  <2> SUFFICES ASSUME NEW k \in Starts, kernel[k].st \in {"running", "dead"}
               PROVE  live'[kernel[k].session] = kernel[k].client
    BY <1>1, <1>3 DEF KernelGood
  <2>1. KernelGood(k)
    BY <1>3
  <2>2. /\ kernel[k].session \in Starts /\ kernel[k].client \in Clients
        /\ live[kernel[k].session] = kernel[k].client /\ kernel[k].client # 0
    BY <1>8, <2>1 DEF KernelGood
  <2>3. CASE kernel[k].session = x.start
    BY <1>1, <1>2, <1>11, <2>2, <2>3
  <2>4. CASE kernel[k].session # x.start
    BY <1>1, <1>2, <2>2, <2>4
  <2> QED
    BY <2>3, <2>4
<1>13. x = calls[c][i]
  BY DEF x
<1>14. x.kind # "close"
  BY <1>1
<1> QED
  BY <1>1, <1>4, <1>12, <1>13, <1>14, AnswerSessions

LEMMA CloseSessions ==
    ASSUME IInv, DInv, SInv, UNCHANGED <<clientVars, frontendVars>>,
           NEW c \in Clients, NEW i \in 1..Len(calls[c]), Close(c, i)
    PROVE  SInv'
<1> DEFINE x == calls[c][i]
<1>1. /\ x.kind = "close" /\ backend[c] = "up" /\ Answer(c, i, "ok") /\ backend' = backend
  BY DEF Close, Pending
<1>2. /\ live \in [Starts -> 0..MaxClients] /\ slot \in [Starts -> 0..MaxStarts]
      /\ c # 0 /\ \A k \in Starts : KernelGood(k)
  BY DEF IInv, TypeOK, BackendTypeOK, SInv, Clients
<1>3. CASE HasSession(c, x)
  <2> DEFINE g == Kill(slot[x.session])
  <2>1. /\ live' = [live EXCEPT ![x.session] = 0] /\ slot' = [slot EXCEPT ![x.session] = 0]
        /\ kernel' = g /\ x.session \in Starts
    BY <1>3 DEF Close, HasSession
  <2>2. Effected(x, c) /\ live'[x.session] # c
    BY <1>1, <1>2, <2>1 DEF Effected
  <2>3. ASSUME NEW k \in Starts, g[k].st \in {"running", "dead"}
        PROVE  g[k] = kernel[k] /\ kernel[k].session # x.session /\ KernelGood(k)
    BY <1>2, <2>1, <2>3, KilledGood
  <2> HIDE DEF g
  <2>4. \A k \in Starts : KernelGood(k)'
    BY <1>2, <2>1, <2>3 DEF KernelGood
  <2> QED
    BY <1>1, <2>2, <2>4, AnswerSessions
<1>4. CASE ~HasSession(c, x)
  <2>1. live' = live /\ slot' = slot /\ kernel' = kernel
    BY <1>4 DEF Close
  <2>2. \A k \in Starts : KernelGood(k)'
    BY <1>2, <2>1 DEF KernelGood
  <2>3. x.session \in Starts
    <3>1. x \in Within(Lanes(calls, loop))
      <4>1. c \in 0..MaxClients /\ Lanes(calls, loop)[c] = calls[c]
        BY BoundsAssumption DEF Clients, Lanes
      <4> QED
        BY <4>1, InLanes
    <3>2. x.session \in 1..lastStart
      BY <1>1, <3>1 DEF SInv, Sessions, SessionGood
    <3> QED
      BY <3>2, BoundsAssumption DEF IInv, TypeOK, Starts
  <2>4. live'[x.session] # c
    BY <1>4, <2>1, <2>3 DEF HasSession
  <2>5. Effected(x, c)
    BY <2>1 DEF Effected
  <2> QED
    BY <1>1, <2>2, <2>4, <2>5, AnswerSessions
<1> QED
  BY <1>3, <1>4

LEMMA InstallSessions ==
    ASSUME IInv, DInv, SInv, UNCHANGED <<clientVars, frontendVars>>,
           NEW c \in Clients, NEW i \in 1..Len(calls[c]), StartKernelInstall(c, i)
    PROVE  SInv'
<1> DEFINE x == calls[c][i]
           h == [st |-> "running", session |-> x.session, client |-> c]
           g == Kill(slot[x.session])
           z == [x EXCEPT !.stage = "installed"]
<1>1. /\ x.kind = "start_kernel" /\ x.stage = "begun" /\ backend[c] = "up"
      /\ backend' = backend /\ live' = live /\ pipe' = pipe
      /\ calls' = [calls EXCEPT ![c] = [calls[c] EXCEPT ![i] = z]]
      /\ slot' = [slot EXCEPT ![x.session] = x.start]
      /\ kernel' = [g EXCEPT ![x.start] = h]
  BY DEF StartKernelInstall, Pending
<1>2. /\ slot \in [Starts -> 0..MaxStarts] /\ kernel \in [Starts -> KernelRecord]
      /\ lastStart \in 0..MaxStarts
  BY DEF IInv, TypeOK, BackendTypeOK
<1>3. x \in Within(Lanes(calls, loop))
  <2>1. c \in 0..MaxClients /\ Lanes(calls, loop)[c] = calls[c]
    BY BoundsAssumption DEF Clients, Lanes
  <2> QED
    BY <2>1, InLanes
<1>4. x.start \in Starts /\ x.session \in Starts
  <2>1. StartGood(x, buf, lastStart)
    BY PendingCall DEF CallGood
  <2>2. x.start \in 1..lastStart /\ x.session \in 1..lastStart
    BY <1>1, <1>3, <2>1 DEF SInv, Sessions, SessionGood, StartGood, OfStart, StartKinds
  <2> QED
    BY <1>2, <2>2, BoundsAssumption DEF Starts
<1>5. live[x.session] = c
  <2>1. x.client = c
    BY DEF SInv, LanesOwned, CallsOf
  <2>2. LaunchGood(x)
    BY <1>3 DEF SInv
  <2> QED
    BY <1>1, <2>1, <2>2 DEF LaunchGood
<1>6. DOMAIN g = Starts
  BY <1>2 DEF Kill
<1>7. ASSUME NEW k \in Starts, g[k].st \in {"running", "dead"}
      PROVE  g[k] = kernel[k] /\ kernel[k].session # x.session /\ KernelGood(k)
  BY <1>2, <1>4, <1>7, KilledGood
<1>8. /\ h.st = "running" /\ h.session = x.session /\ h.client = c
      /\ z \in Call /\ Alike(z, x) /\ z.stage = "installed"
  BY PendingCall, StageFields
<1> HIDE DEF g, h, z
<1>9. kernel'[x.start] = h /\ \A k \in Starts : k # x.start => kernel'[k] = g[k]
  BY <1>1, <1>4, <1>6
<1>10. \A k \in Starts : KernelGood(k)'
  <2> SUFFICES ASSUME NEW k \in Starts PROVE KernelGood(k)'
    OBVIOUS
  <2>1. CASE k = x.start
    BY <1>1, <1>2, <1>4, <1>5, <1>8, <1>9, <2>1 DEF KernelGood
  <2>2. CASE k # x.start
    BY <1>1, <1>2, <1>4, <1>7, <1>9, <2>2 DEF KernelGood
  <2> QED
    BY <2>1, <2>2
<1>11. Effected(x, c)
  BY <1>1 DEF Effected
<1> QED
  BY <1>1, <1>8, <1>10, <1>11, ServedSessions

LEMMA StopKernelSessions ==
    ASSUME IInv, DInv, SInv, UNCHANGED <<clientVars, frontendVars>>,
           NEW c \in Clients, NEW i \in 1..Len(calls[c]), StopKernel(c, i)
    PROVE  SInv'
<1> DEFINE x == calls[c][i]
           g == Kill(slot[x.session])
<1>1. /\ x.kind = "stop_kernel" /\ backend[c] = "up" /\ backend' = backend /\ live' = live
  BY DEF StopKernel, Pending
<1>2. PICK e : Answer(c, i, e)
  BY DEF StopKernel
<1>3. slot \in [Starts -> 0..MaxStarts] /\ \A k \in Starts : KernelGood(k)
  BY DEF IInv, TypeOK, BackendTypeOK, SInv
<1>4. Effected(x, c)
  BY <1>1 DEF Effected
<1>5. CASE UNCHANGED <<slot, kernel>>
  <2>1. \A k \in Starts : KernelGood(k)'
    BY <1>1, <1>3, <1>5 DEF KernelGood
  <2> QED
    BY <1>1, <1>2, <1>4, <2>1, AnswerSessions
<1>6. CASE /\ slot' = [slot EXCEPT ![x.session] = 0] /\ kernel' = g
           /\ x.session \in Starts
  <2>1. ASSUME NEW k \in Starts, g[k].st \in {"running", "dead"}
        PROVE  g[k] = kernel[k] /\ kernel[k].session # x.session /\ KernelGood(k)
    BY <1>3, <1>6, <2>1, KilledGood
  <2> HIDE DEF g
  <2>2. \A k \in Starts : KernelGood(k)'
    BY <1>1, <1>3, <1>6, <2>1 DEF KernelGood
  <2> QED
    BY <1>1, <1>2, <1>4, <2>2, AnswerSessions
<1> QED
  BY <1>5, <1>6 DEF StopKernel, HasSession

(* A call whose service starts and ends no kernel or session.              *)
LEMMA OtherServed ==
    ASSUME IInv, DInv, SInv, UNCHANGED <<clientVars, frontendVars>>, backend' = backend,
           NEW c \in Clients, NEW i \in 1..Len(calls[c]), backend[c] = "up",
           calls[c][i].kind \notin {"open_py", "close"}, NEW e, Answer(c, i, e),
           UNCHANGED <<live, slot, kernel>>
    PROVE  SInv'
<1> DEFINE x == calls[c][i]
<1>1. Effected(x, c)
  BY DEF Effected
<1>2. \A k \in Starts : KernelGood(k)'
  BY DEF SInv, KernelGood
<1> QED
  BY <1>1, <1>2, AnswerSessions

LEMMA LookupSessions ==
    ASSUME IInv, DInv, SInv, UNCHANGED <<clientVars, frontendVars>>,
           NEW c \in Clients, NEW i \in 1..Len(calls[c]),
           StartKernelLookup(c, i) \/ ExecuteLookup(c, i)
    PROVE  SInv'
<1> DEFINE x == calls[c][i]
<1>1. /\ x \in Call /\ source \in [Starts -> 0..MaxRuns]
  BY PendingCall DEF IInv, TypeOK, BackendTypeOK
<1>2. /\ UNCHANGED serverVars /\ UNCHANGED <<live, slot, kernel>> /\ backend' = backend
      /\ backend[c] = "up" /\ x.kind \in {"start_kernel", "execute"}
  BY DEF StartKernelLookup, ExecuteLookup, Pending, serverVars
<1>3. CASE Answer(c, i, "err")
  BY <1>2, <1>3, OtherServed
<1>4. CASE StartKernelLookup(c, i) /\ ~Answer(c, i, "err")
  <2> DEFINE z == [x EXCEPT !.stage = "begun"]
  <2>1. z \in Call /\ Alike(z, x) /\ z.stage = "begun"
    BY <1>1, StageFields
  <2>2. /\ calls' = [calls EXCEPT ![c] = [calls[c] EXCEPT ![i] = z]]
        /\ UNCHANGED pipe /\ live[x.session] = c
    BY <1>4 DEF StartKernelLookup, HasSession
  <2>3. live[z.session] = c
    BY <2>1, <2>2 DEF Alike
  <2> HIDE DEF z
  <2> QED
    BY <1>2, <2>1, <2>2, <2>3, BeginSessions
<1>5. CASE ExecuteLookup(c, i) /\ ~Answer(c, i, "err")
  <2> DEFINE z == [x EXCEPT !.stage = "begun", !.source = source[x.session]]
  <2>1. x.session \in Starts
    BY <1>5 DEF ExecuteLookup, HasSession
  <2>2. /\ calls' = [calls EXCEPT ![c] = [calls[c] EXCEPT ![i] = z]]
        /\ UNCHANGED pipe
    BY <1>5 DEF ExecuteLookup
  <2>3. source[x.session] \in 0..MaxRuns
    BY <1>1, <2>1
  <2>4. x \in Request /\ x.kind = "execute" /\ x.run # 0
    BY <1>1, <1>5 DEF Call, ExecuteLookup, Pending
  <2>5. z \in Request /\ Alike(z, x) /\ z.stage = "begun" /\ z.kind = "execute"
    BY <2>3, <2>4 DEF Request, Alike
  <2>6. z \in Call
    BY <2>4, <2>5 DEF Call, Alike
  <2> HIDE DEF z
  <2> QED
    BY <1>2, <2>2, <2>5, <2>6, BeginSessions
<1> QED
  BY <1>3, <1>4, <1>5

LEMMA ServeSessions ==
    ASSUME IInv, DInv, SInv, UNCHANGED <<clientVars, frontendVars>>,
           NEW c \in Clients, Serve(c)
    PROVE  SInv'
<1>1. PICK i \in 1..Len(calls[c]) :
          \/ OpenPy(c, i) \/ Close(c, i) \/ StartKernelInstall(c, i) \/ StopKernel(c, i)
          \/ StartKernelLookup(c, i) \/ ExecuteLookup(c, i)
          \/ StartKernelDone(c, i) \/ StartKernelFails(c, i) \/ UpdateCellSource(c, i)
          \/ ExecuteSend(c, i) \/ ExecuteSilent(c, i)
  BY DEF Serve
<1>2. CASE OpenPy(c, i) \/ Close(c, i) \/ StartKernelInstall(c, i) \/ StopKernel(c, i)
  BY <1>2, OpenPySessions, CloseSessions, InstallSessions, StopKernelSessions
<1>3. CASE StartKernelLookup(c, i) \/ ExecuteLookup(c, i)
  BY <1>3, LookupSessions
<1>4. CASE \/ StartKernelDone(c, i) \/ StartKernelFails(c, i) \/ UpdateCellSource(c, i)
           \/ ExecuteSend(c, i) \/ ExecuteSilent(c, i)
  <2>1. /\ calls[c][i].kind \notin {"open_py", "close"} /\ backend[c] = "up"
        /\ backend' = backend /\ UNCHANGED <<live, slot, kernel>>
    BY <1>4 DEF StartKernelDone, StartKernelFails, UpdateCellSource, ExecuteSend, ExecuteSilent,
                Pending, serverVars
  <2>2. \E e : Answer(c, i, e)
    BY <1>4 DEF StartKernelDone, StartKernelFails, UpdateCellSource, ExecuteSend, ExecuteSilent
  <2> QED
    BY <2>1, <2>2, OtherServed
<1> QED
  BY <1>1, <1>2, <1>3, <1>4

-----------------------------------------------------------------------------
(* The steps that serve no call.                                           *)

LEMMA SameProcesses ==
    ASSUME SInv, UNCHANGED <<clientVars, frontendVars>>, UNCHANGED <<backend, calls>>, live' = live,
           \A f \in Frames(pipe') : f \in Frames(pipe) \/ FrameGood(f),
           \A k \in Starts : KernelGood(k)'
    PROVE  SInv'
<1>1. /\ loop' = loop /\ exited' = exited /\ closed' = closed
      /\ client' = client /\ buf' = buf /\ lastStart' = lastStart
  BY DEF clientVars, frontendVars
<1>2. /\ Processes' /\ LanesOwned(calls)' /\ HeldGood'
      /\ Sessions(buf, Within(Lanes(calls, loop)), lastStart)'
  BY <1>1 DEF SInv, Processes, Told, HeldGood
<1>3. Kept(buf, calls, NoCall)'
  BY <1>1 DEF SInv, Kept, Claims
<1>4. (\A x \in Within(Lanes(calls, loop)) : LaunchGood(x) /\ CloseGood(x))'
  BY <1>1 DEF SInv, LaunchGood, CloseGood
<1>5. \A f \in Frames(pipe') : FrameGood(f)
  BY DEF SInv
<1> QED
  BY <1>2, <1>3, <1>4, <1>5 DEF SInv

LEMMA KernelSessions ==
    ASSUME IInv, SInv, UNCHANGED <<clientVars, frontendVars>>,
           NEW k \in Starts, PumpStep(k) \/ KernelDies(k)
    PROVE  SInv'
<1>1. /\ slot \in [Starts -> 0..MaxStarts] /\ kernel \in [Starts -> KernelRecord]
      /\ pipe \in [Clients -> Seq(Frame)] /\ \A n \in Starts : KernelGood(n)
  BY DEF IInv, TypeOK, BackendTypeOK, SInv
<1>2. UNCHANGED <<backend, calls>> /\ live' = live
  BY DEF PumpStep, WatchExit, PumpTakesKernel, PumpReportsExit, KernelDies, wireVars
<1>3. ASSUME NEW t \in KernelStates, kernel' = [kernel EXCEPT ![k].st = t],
             t \in {"running", "dead"} => kernel[k].st \in {"running", "dead"},
             \A s \in Starts : slot'[s] = slot[s] \/ (slot[s] = k /\ t \notin {"running", "dead"})
      PROVE  \A n \in Starts : KernelGood(n)'
  <2> DEFINE h == [kernel[k] EXCEPT !.st = t]
  <2>1. h.st = t /\ h.session = kernel[k].session /\ h.client = kernel[k].client
    BY <1>1 DEF KernelRecord
  <2>2. kernel' = [kernel EXCEPT ![k] = h]
    BY <1>3
  <2> HIDE DEF h
  <2>3. kernel'[k] = h /\ \A n \in Starts : n # k => kernel'[n] = kernel[n]
    BY <1>1, <2>2
  <2> SUFFICES ASSUME NEW n \in Starts PROVE KernelGood(n)'
    OBVIOUS
  <2>4. KernelGood(n)
    BY <1>1
  <2>5. CASE n = k
    BY <1>2, <1>3, <2>1, <2>3, <2>4, <2>5 DEF KernelGood
  <2>6. CASE n # k
    BY <1>2, <1>3, <2>3, <2>4, <2>6 DEF KernelGood
  <2> QED
    BY <2>5, <2>6
<1>4. \A n \in Starts : KernelGood(n)'
  <2>1. \E t \in KernelStates :
            /\ kernel' = [kernel EXCEPT ![k].st = t]
            /\ t \in {"running", "dead"} => kernel[k].st \in {"running", "dead"}
            /\ \A s \in Starts : slot'[s] = slot[s] \/ (slot[s] = k /\ t \notin {"running", "dead"})
    <3>1. CASE KernelDies(k)
      BY <3>1 DEF KernelDies, KernelStates
    <3>2. CASE WatchExit(k)
      BY <3>2 DEF WatchExit, KernelStates
    <3>3. CASE PumpTakesKernel(k)
      BY <1>1, <3>3 DEF PumpTakesKernel, KernelStates
    <3>4. CASE PumpReportsExit(k)
      BY <3>4 DEF PumpReportsExit, KernelStates
    <3> QED
      BY <3>1, <3>2, <3>3, <3>4 DEF PumpStep
  <2> QED
    BY <1>3, <2>1
<1>5. ASSUME PumpReportsExit(k) PROVE \A f \in Frames(pipe') : f \in Frames(pipe) \/ FrameGood(f)
  <2> DEFINE c == kernel[k].client
             e == [type |-> "kernel_exited", err |-> "ok",
                   call |-> [NoCall EXCEPT !.session = kernel[k].session]]
  <2>1. pipe' = [pipe EXCEPT ![c] = Append(pipe[c], e)]
    BY <1>5 DEF PumpReportsExit
  <2>2. FrameGood(e)
    BY DEF FrameGood
  <2> HIDE DEF e, c
  <2> SUFFICES ASSUME NEW f \in Frames(pipe'), f \notin Frames(pipe) PROVE f = e
    BY <2>2
  <2>3. PICK d \in Clients : \E j \in 1..Len(pipe'[d]) : f = pipe'[d][j]
    BY InFrames
  <2>4. PICK j \in 1..Len(pipe'[d]) : f = pipe'[d][j]
    BY <2>3
  <2>5. ~(j \in 1..Len(pipe[d]) /\ f = pipe[d][j])
    BY InFrames
  <2>6. d = c /\ pipe'[c] = Append(pipe[c], e) /\ pipe[c] \in Seq(Frame)
    BY <1>1, <2>1, <2>4, <2>5
  <2> QED
    BY <2>4, <2>5, <2>6
<1>6. pipe' = pipe \/ PumpReportsExit(k)
  BY DEF PumpStep, WatchExit, PumpTakesKernel, KernelDies, wireVars
<1> QED
  BY <1>2, <1>4, <1>5, <1>6, SameProcesses

LEMMA BackendDiesSessions ==
    ASSUME IInv, SInv, UNCHANGED <<clientVars, frontendVars>>, NEW c \in Clients, BackendDies(c)
    PROVE  SInv'
<1>1. /\ backend \in [Clients -> {"unborn", "up", "dead"}] /\ client \in 0..MaxClients
      /\ kernel \in [Starts -> KernelRecord] /\ slot \in [Starts -> 0..MaxStarts]
      /\ c # 0
  BY DEF IInv, TypeOK, BackendTypeOK, Clients
<1>2. /\ backend[c] = "up" /\ backend' = [backend EXCEPT ![c] = "dead"]
      /\ live' = [s \in Starts |-> IF live[s] = c THEN 0 ELSE live[s]]
      /\ slot' = [s \in Starts |-> IF slot[s] # 0 /\ kernel[slot[s]].client = c
                                   THEN 0 ELSE slot[s]]
      /\ kernel' = [k \in Starts |-> IF kernel[k].client = c
                                     THEN [kernel[k] EXCEPT !.st = "gone"]
                                     ELSE kernel[k]]
      /\ calls' = calls /\ pipe' = pipe
  BY DEF BackendDies, wireVars
<1>3. /\ loop' = loop /\ exited' = exited /\ closed' = closed
      /\ client' = client /\ buf' = buf /\ lastStart' = lastStart
  BY DEF clientVars, frontendVars
<1>4. backend'[c] = "dead" /\ \A d \in Clients : d # c => backend'[d] = backend[d]
  BY <1>1, <1>2
<1>5. Processes'
  <2>1. client # 0 => client \in Clients
    BY <1>1, BoundsAssumption DEF Clients
  <2> QED
    BY <1>2, <1>3, <1>4, <2>1 DEF SInv, Processes, Told
<1>6. \A s \in Starts : live'[s] # 0 => live'[s] = live[s] /\ live[s] # c
  BY <1>2
<1>7. HeldGood'
  BY <1>4, <1>6 DEF SInv, HeldGood
<1>8. Kept(buf, calls, NoCall)'
  BY <1>2, <1>3, <1>6, NoneClaimed DEF SInv, Kept
<1>9. LanesOwned(calls)' /\ Sessions(buf, Within(Lanes(calls, loop)), lastStart)'
  BY <1>2, <1>3 DEF SInv
<1>10. ASSUME NEW x \in Within(Lanes(calls, loop)) PROVE LaunchGood(x)' /\ CloseGood(x)'
  <2>1. LaunchGood(x) /\ CloseGood(x)
    BY DEF SInv
  <2>2. x.kind \in {"start_kernel", "close"} => x.session \in Starts
    <3>1. x.kind \in {"start_kernel", "close"} => x.session \in 1..lastStart
      BY DEF SInv, Sessions, SessionGood
    <3> QED
      BY <3>1, BoundsAssumption DEF IInv, TypeOK, Starts
  <2>3. LaunchGood(x)'
    BY <1>2, <1>4, <2>1, <2>2 DEF LaunchGood
  <2>4. CloseGood(x)'
    BY <1>2, <1>4, <2>1, <2>2 DEF CloseGood, Clients
  <2> QED
    BY <2>3, <2>4
<1>11. (\A x \in Within(Lanes(calls, loop)) : LaunchGood(x) /\ CloseGood(x))'
  BY <1>2, <1>3, <1>10
<1>12. ASSUME NEW k \in Starts PROVE KernelGood(k)'
  <2> DEFINE g == [kernel[k] EXCEPT !.st = "gone"]
  <2>1. g.st = "gone" /\ KernelGood(k)
    BY <1>1 DEF KernelRecord, SInv
  <2>2. kernel'[k] = IF kernel[k].client = c THEN g ELSE kernel[k]
    BY <1>2
  <2> HIDE DEF g
  <2>3. CASE kernel[k].client = c
    BY <2>1, <2>2, <2>3 DEF KernelGood
  <2>4. CASE kernel[k].client # c
    BY <1>2, <2>1, <2>2, <2>4 DEF KernelGood
  <2> QED
    BY <2>3, <2>4
<1>13. \A f \in Frames(pipe') : FrameGood(f)
  BY <1>2 DEF SInv
<1> QED
  BY <1>5, <1>7, <1>8, <1>9, <1>11, <1>12, <1>13 DEF SInv

(* The process of client c has exited: it is the front end's.              *)
LEMMA ExitCallbackSessions ==
    ASSUME IInv, SInv, UNCHANGED frontendVars, NEW c \in Clients, ExitCallback(c)
    PROVE  SInv'
<1> DEFINE L == Lanes(calls, loop)
           M == Lanes(calls', loop')
           x == [NoCall EXCEPT !.client = c]
           f == [type |-> "on_exit", err |-> "ok", call |-> x]
<1>1. /\ backend[c] = "dead" /\ ~exited[c] /\ exited' = [exited EXCEPT ![c] = TRUE]
      /\ loop' = Append(loop, f) /\ closed' = closed /\ backend' = backend
      /\ live' = live /\ slot' = slot /\ kernel' = kernel /\ calls' = calls /\ pipe' = pipe
      /\ client' = client /\ buf' = buf /\ lastStart' = lastStart
  BY DEF ExitCallback, serverVars, wireVars, frontendVars
<1>2. /\ loop \in Seq(Frame) /\ exited \in [Clients -> BOOLEAN]
      /\ calls \in [Clients -> Seq(Call)]
  BY DEF IInv, TypeOK, BackendTypeOK, ClientTypeOK
<1>3. /\ c \in 0..MaxClients /\ 0 \in 0..MaxClients /\ c # 0
      /\ \A d \in 0..MaxClients : d # 0 => d \in Clients
  BY BoundsAssumption DEF Clients
<1>4. x \in Call /\ x.kind = "none" /\ x.client = c
  BY <1>3, NoCallTyped DEF NoCall, Call, Request
<1>5. f \in Frame /\ f.type = "on_exit" /\ f.call = x
  BY <1>4 DEF Frame
<1>6. c = client /\ \A j \in 1..Len(loop) : ~OnExit(loop, j)
  <2>1. c = client
    BY <1>1 DEF SInv, Processes
  <2> QED
    BY <1>1, <2>1 DEF SInv, Processes, Told
<1> HIDE DEF f, x
<1>7. /\ Len(loop') = Len(loop) + 1 /\ loop'[Len(loop) + 1] = f /\ Len(loop) \in Nat
      /\ \A j \in 1..Len(loop) : loop'[j] = loop[j]
  BY <1>1, <1>2, <1>5
<1>8. Told(loop, client)'
  <2>1. \A j \in 1..Len(loop') : j = Len(loop) + 1 \/ j \in 1..Len(loop)
    BY <1>7
  <2>2. \A j \in 1..Len(loop') : OnExit(loop', j) => j = Len(loop) + 1
    BY <1>6, <1>7, <2>1 DEF OnExit
  <2>3. exited'[client]
    BY <1>1, <1>2, <1>6
  <2> QED
    BY <1>1, <1>3, <1>4, <1>5, <1>6, <1>7, <2>2, <2>3 DEF Told
<1>9. Processes'
  <2>1. \A d \in Clients : exited'[d] = (exited[d] \/ d = c)
    BY <1>1, <1>2
  <2> QED
    BY <1>1, <1>8, <2>1 DEF SInv, Processes
<1>10. \A y \in Within(M) : y = x \/ y \in Within(L)
  <2>1. Callbacks(loop') = Append(Callbacks(loop), x)
    BY <1>1, <1>2, <1>5, CallbacksAppend
  <2>2. L[0] = Callbacks(loop) /\ M[0] = Callbacks(loop')
    BY <1>3 DEF Lanes
  <2>3. \A d \in 0..MaxClients : d # 0 => M[d] = L[d]
    BY <1>1 DEF Lanes
  <2>4. L[0] \in Seq(Call)
    BY <1>2, <2>2, CallbacksTyped
  <2> HIDE DEF L, M
  <2> SUFFICES ASSUME NEW d \in 0..MaxClients, NEW j \in 1..Len(M[d])
               PROVE  M[d][j] = x \/ M[d][j] \in Within(L)
    BY InLanes
  <2>5. CASE d # 0
    BY <2>3, <2>5, InLanes
  <2>6. CASE d = 0
    <3>1. M[0][j] = x \/ (j \in 1..Len(L[0]) /\ M[0][j] = L[0][j])
      BY <1>4, <2>1, <2>2, <2>4, <2>6
    <3> QED
      BY <1>3, <2>6, <3>1, InLanes
  <2> QED
    BY <2>5, <2>6
<1>11. Sessions(buf, Within(M), lastStart)
  <2>1. Sessions(buf, Within(L), lastStart) /\ Same(buf, buf) /\ ~OfSession(x)
    BY <1>4 DEF SInv, Same, OfSession
  <2> HIDE DEF L, M
  <2> QED
    BY <1>10, <2>1, OtherSessions
<1>12. \A y \in Within(M) : LaunchGood(y)' /\ CloseGood(y)'
  <2>1. LaunchGood(x)' /\ CloseGood(x)'
    BY <1>4 DEF LaunchGood, CloseGood
  <2>2. ASSUME NEW y \in Within(L) PROVE LaunchGood(y)' /\ CloseGood(y)'
    BY <1>1 DEF SInv, LaunchGood, CloseGood
  <2> HIDE DEF L, M
  <2> QED
    BY <1>10, <2>1, <2>2
<1>13. /\ HeldGood' /\ Kept(buf, calls, NoCall)' /\ LanesOwned(calls)'
       /\ (\A g \in Frames(pipe') : FrameGood(g)) /\ (\A k \in Starts : KernelGood(k)')
  BY <1>1 DEF SInv, HeldGood, Kept, Claims, LanesOwned, KernelGood
<1>14. /\ Sessions(buf, Within(Lanes(calls, loop)), lastStart)'
       /\ (\A y \in Within(Lanes(calls, loop)) : LaunchGood(y) /\ CloseGood(y))'
  BY <1>1, <1>11, <1>12
<1> QED
  BY <1>9, <1>13, <1>14 DEF SInv

LEMMA CloseClientSessions ==
    ASSUME IInv, IInv', DInv, SInv, UNCHANGED frontendVars, NEW c \in Clients, CloseClient(c)
    PROVE  SInv'
<1>1. /\ backend[c] = "dead" /\ closed' = [closed EXCEPT ![c] = TRUE]
      /\ exited' = exited /\ backend' = backend
      /\ live' = live /\ slot' = slot /\ kernel' = kernel
      /\ calls' = [calls EXCEPT ![c] = <<>>]
      /\ client' = client /\ buf' = buf /\ lastStart' = lastStart
  BY DEF CloseClient, serverVars, frontendVars
<1>2. /\ closed \in [Clients -> BOOLEAN] /\ calls \in [Clients -> Seq(Call)]
  BY DEF IInv, TypeOK, BackendTypeOK, ClientTypeOK
<1>3. /\ Within(Lanes(calls', loop')) \subseteq Within(Lanes(calls, loop))
      /\ \A j \in 1..Len(loop') :
            \/ j \in 1..Len(loop) /\ loop'[j] = loop[j]
            \/ loop'[j].type = "reply"
      /\ Frames(pipe') \subseteq Frames(pipe)
  BY CloseClientMoves
<1>4. Processes'
  <2>1. \A d \in Clients : closed'[d] = (closed[d] \/ d = c)
    BY <1>1, <1>2
  <2>2. \A j \in 1..Len(loop') : OnExit(loop', j) =>
            j \in 1..Len(loop) /\ OnExit(loop, j) /\ loop'[j] = loop[j]
    BY <1>3 DEF OnExit
  <2>3. Told(loop, client)'
    BY <1>1, <2>2 DEF SInv, Processes, Told
  <2> QED
    BY <1>1, <2>1, <2>3 DEF SInv, Processes
<1>5. HeldGood'
  BY <1>1 DEF SInv, HeldGood
<1>6. /\ \A d \in Clients : d # c => CallsOf(calls', d) = CallsOf(calls, d)
      /\ CallsOf(calls', c) = {}
  <2>1. calls'[c] = <<>> /\ \A d \in Clients : d # c => calls'[d] = calls[d]
    BY <1>1, <1>2
  <2> QED
    BY <2>1 DEF CallsOf
<1>7. LanesOwned(calls')
  BY <1>6 DEF SInv, LanesOwned
<1>8. Kept(buf, calls, NoCall)'
  <2> SUFFICES ASSUME NEW s \in Starts, live[s] # 0
               PROVE  /\ buf.session = s \/ \E y \in CallsOf(calls', live[s]) : Owns(y, s)
                      /\ buf.session = s /\ buf.starting.launching =>
                            \E y \in CallsOf(calls', live[s]) : Launches(y, s)
    BY <1>1 DEF Kept
  <2>1. live[s] \in Clients /\ live[s] # c
    BY <1>1 DEF SInv, HeldGood
  <2> QED
    BY <1>6, <2>1, NoneClaimed DEF SInv, Kept
<1>9. Sessions(buf, Within(Lanes(calls, loop)), lastStart)'
  BY <1>1, <1>3 DEF SInv, Sessions
<1>10. (\A x \in Within(Lanes(calls, loop)) : LaunchGood(x) /\ CloseGood(x))'
  BY <1>1, <1>3 DEF SInv, LaunchGood, CloseGood
<1>11. (\A f \in Frames(pipe') : FrameGood(f)) /\ (\A k \in Starts : KernelGood(k)')
  BY <1>1, <1>3 DEF SInv, KernelGood
<1>12. LanesOwned(calls)'
  BY <1>7
<1> QED
  BY <1>4, <1>5, <1>8, <1>9, <1>10, <1>11, <1>12 DEF SInv

-----------------------------------------------------------------------------
(* The theorems.                                                           *)

LEMMA InitSessions == Init => SInv
<1> SUFFICES ASSUME Init PROVE SInv
  OBVIOUS
<1>1. /\ calls = [c \in Clients |-> <<>>] /\ pipe = [c \in Clients |-> <<>>] /\ loop = <<>>
      /\ backend = [c \in Clients |-> "unborn"] /\ live = [s \in Starts |-> 0]
      /\ kernel = [k \in Starts |-> [st |-> "none", session |-> 0, client |-> 0]]
      /\ exited = [c \in Clients |-> FALSE] /\ closed = [c \in Clients |-> FALSE]
      /\ client = 0
  BY DEF Init, BackendInit, ClientInit
<1>2. MaxClients \in Nat /\ \A c \in 0..MaxClients : c # 0 => c \in Clients
  BY BoundsAssumption DEF Clients
<1>3. Processes
  <2>1. Told(loop, client)
    BY <1>1 DEF Told
  <2> QED
    BY <1>1, <2>1 DEF Processes
<1>4. LanesOwned(calls)
  BY <1>1 DEF LanesOwned, CallsOf
<1>5. \A x \in Within(Lanes(calls, loop)) : FALSE
  <2>1. Len(Callbacks(loop)) = 0
    <3>1. loop \in Seq(Frame) /\ Len(loop) = 0
      BY <1>1
    <3> QED
      BY <3>1, CallbacksTyped
  <2>2. \A c \in 0..MaxClients : Len(Lanes(calls, loop)[c]) = 0
    BY <1>1, <1>2, <2>1 DEF Lanes
  <2> QED
    BY <2>2, InLanes
<1>6. Sessions(buf, Within(Lanes(calls, loop)), lastStart)
  BY <1>5 DEF Sessions
<1>7. Kept(buf, calls, NoCall) /\ HeldGood
  BY <1>1 DEF Kept, HeldGood
<1>8. \A f \in Frames(pipe) : FrameGood(f)
  BY <1>1, InFrames
<1>9. \A k \in Starts : KernelGood(k)
  BY <1>1 DEF KernelGood
<1> QED
  BY <1>3, <1>4, <1>5, <1>6, <1>7, <1>8, <1>9 DEF SInv

LEMMA StepSessions ==
    ASSUME IInv, IInv', DInv, SInv, [Next]_vars
    PROVE  SInv'
<1>1. CASE UserCommand
  BY <1>1, UserCommandSessions
<1>2. CASE EventLoop
  BY <1>2, EventLoopSessions
<1>3. CASE \E c \in Clients : Serve(c) /\ UNCHANGED <<clientVars, frontendVars>>
  BY <1>3, ServeSessions
<1>4. CASE \E k \in Starts : (PumpStep(k) \/ KernelDies(k)) /\ UNCHANGED <<clientVars, frontendVars>>
  BY <1>4, KernelSessions
<1>5. CASE \E c \in Clients : BackendDies(c) /\ UNCHANGED <<clientVars, frontendVars>>
  BY <1>5, BackendDiesSessions
<1>6. CASE \E c \in Clients : Gone(c) /\ UNCHANGED frontendVars
  BY <1>6, ExitCallbackSessions, CloseClientSessions DEF Gone
<1>7. CASE UNCHANGED vars
  <2>1. /\ UNCHANGED <<clientVars, frontendVars>> /\ UNCHANGED <<backend, calls>>
        /\ live' = live /\ pipe' = pipe /\ slot' = slot /\ kernel' = kernel
    BY <1>7 DEF vars, serverVars, wireVars, clientVars, frontendVars
  <2>2. \A k \in Starts : KernelGood(k)'
    BY <2>1 DEF SInv, KernelGood
  <2> QED
    BY <2>1, <2>2, SameProcesses
<1>8. Backends \/ Crashes => \/ \E c \in Clients : Serve(c) /\ UNCHANGED <<clientVars, frontendVars>>
                             \/ \E k \in Starts : /\ PumpStep(k) \/ KernelDies(k)
                                                  /\ UNCHANGED <<clientVars, frontendVars>>
                             \/ \E c \in Clients : /\ BackendDies(c)
                                                   /\ UNCHANGED <<clientVars, frontendVars>>
  BY DEF Backends, Crashes
<1>9. Exits => \E c \in Clients : Gone(c) /\ UNCHANGED frontendVars
  BY DEF Exits
<1> QED
  BY <1>1, <1>2, <1>3, <1>4, <1>5, <1>6, <1>7, <1>8, <1>9 DEF Next

LEMMA SessionsInductive == Spec => [](IInv /\ DInv /\ SInv)
<1>1. IInv /\ DInv /\ SInv /\ [Next]_vars => IInv' /\ DInv' /\ SInv'
  BY NextInductive, StepKept, StepSessions
<1> QED
  BY <1>1, InitInductive, InitGood, InitSessions, PTL DEF Spec

(* A kernel that runs, or has died unnoticed, is in the slot of a session  *)
(* that its backend knows, so there is a way to stop it: start_kernel puts *)
(* it into the session that it looked up before the launch, and no close   *)
(* of that session is sent while the launch is under way.                  *)
THEOREM KernelsStayReachable == Spec => []KernelsReachable
<1>1. SInv => KernelsReachable
  BY DEF SInv, KernelGood, KernelsReachable
<1> QED
  BY <1>1, SessionsInductive, PTL

(* A session of a running backend is the buffer's, or a call is pending    *)
(* whose reply makes it so or closes it: none is left behind by a start    *)
(* that was superseded, a buffer that was deleted or a kernel's exit.      *)
THEOREM SessionsStayOwned == Spec => []SessionsOwned
<1>1. SInv => SessionsOwned
  <2> SUFFICES ASSUME SInv, NEW s \in Starts, live[s] # 0, buf.session # s
               PROVE  \E i \in 1..Len(calls[live[s]]) :
                         LET x == calls[live[s]][i] IN
                         \/ x.kind = "open_py" /\ x.start = s
                         \/ x.kind \in {"start_kernel", "close"} /\ x.session = s
    BY DEF SessionsOwned
  <2>1. \E y \in CallsOf(calls, live[s]) : Owns(y, s)
    BY NoneClaimed DEF SInv, Kept
  <2> QED
    BY <2>1 DEF CallsOf, Owns
<1> QED
  BY <1>1, SessionsInductive, PTL

-----------------------------------------------------------------------------
(* The kernel of a started buffer.                                         *)

Dead == {c \in Clients : backend[c] = "dead"}

(* The exit of a kernel of session s that its pump has noticed, or that is *)
(* to be read behind the i-th frame of q.                                  *)
Reported(s, c) ==
    \E k \in Starts : kernel[k].st = "reporting" /\ kernel[k].session = s /\ kernel[k].client = c

ExitOf(f, s) == f.type = "kernel_exited" /\ f.call.session = s

ExitsAfter(q, i, s) == \E j \in 1..Len(q) : i < j /\ ExitOf(q[j], s)

(* The kernel of session s is there, or its exit is on its way behind the  *)
(* i-th frame of q, or was reported before its start was answered.         *)
Present(s, c, q, i) ==
    c \in Dead \/ slot[s] # 0 \/ Reported(s, c) \/ ExitsAfter(q, i, s) \/ s \in overtaken

(* The kernel of launch x is in the slot, or its exit is noticed, or was   *)
(* reported before x is answered.                                          *)
Reports(x) ==
    /\ kernel[x.start].st = "reporting"
    /\ kernel[x.start].session = x.session /\ kernel[x.start].client = x.client

There(x) ==
    x.client \in Dead \/ slot[x.session] = x.start \/ Reports(x) \/ x.session \in overtaken

Landed(x) == x.kind = "start_kernel" /\ x.stage = "installed" => There(x)

Stopping(b) == b.starting.kind \in {"stop", "restart"} /\ ~b.starting.held

Shown(b, c, p) == b.started => Present(b.session, c, p[c], 0) \/ Stopping(b)

(* The buffer: its session is held by its client's backend while that      *)
(* runs, and the start in flight is one of its client.                     *)
BufferOwns(b, c) ==
    /\ b.session # 0 => c \in Clients /\ (c \in Dead \/ live[b.session] = c)
    /\ b.started => b.session # 0
    /\ b.starting.id # 0 =>
        c \in Clients /\ b.starting.client = c /\ b.starting.kind \in {"start", "stop", "restart"}
    /\ b.starting.launching => ~b.started
    /\ b.starting.held => b.starting.kind # "start"

(* A call of the start or stop in flight.                                  *)
CallOwned(x, b, c) ==
    OfStart(x) /\ x.start = b.starting.id =>
        /\ x.client = c
        /\ Landed(x)
        /\ x.kind = "stop_kernel" <=> b.starting.kind # "start"
        /\ x.kind = "stop_kernel" => x.session = b.session

(* The kernel has exited, and the front end has not been told.             *)
Ended(n) == kernel[n].st \in {"exited", "reporting"}

(* A session is held once the call that opens it is answered, not before;  *)
(* a kernel does not exit before it is launched.                           *)
OpenGood(x) ==
    /\ x.kind = "open_py" =>
        IF x.stage = "answered"
        THEN x.client \in Clients /\ (x.client \in Dead \/ live[x.start] = x.client)
        ELSE live[x.start] = 0
    /\ x.kind = "open_py" \/ Unstarted(x) => ~Ended(x.start)

(* The i-th frame of q, from client c, if it answers a call in the buffer's*)
(* session: a stop fails only with the backend, and a kernel that has been *)
(* launched is there, or the report of its exit is.                        *)
ReplyGood(q, i, c, b) ==
    q[i].call.session = b.session /\ q[i].call.client = c =>
        /\ q[i].call.kind = "stop_kernel" /\ q[i].err # "ok" => c \in Dead
        /\ q[i].call.kind = "start_kernel" /\ q[i].err = "ok" => Present(b.session, c, q, i)

RepliesGood(p, T, b) ==
    \A c \in Clients : \A i \in 1..Len(p[c]) :
        p[c][i].type = "reply" /\ p[c][i].call \in T => ReplyGood(p[c], i, c, b)

(* A call has not been answered before.                                    *)
Once(f, b, T, ls) ==
    f.type = "reply" /\ f.call.kind \in {"start_kernel", "stop_kernel"} =>
        /\ f.call.start \in 1..ls
        /\ b.starting.held => f.call.start # b.starting.id
        /\ \A x \in T : OfStart(x) /\ x.start = f.call.start =>
            x.kind # "open_py" /\ (x.kind = f.call.kind => x.stage = "answered")

(* A kernel in a slot is one of the client whose backend holds the session.*)
SlotOwned(s) == slot[s] # 0 => live[s] # 0 /\ kernel[slot[s]].client = live[s]

Unborn(n) == live[n] = 0 /\ ~Ended(n)

(* The event loop holds callbacks of dead backends only.                   *)
GoneGood(l) ==
    \A j \in 1..Len(l) : l[j].call.client \in Clients => l[j].call.client \in Dead

StartsOwned(b, c, T, ls, p) ==
    /\ BufferOwns(b, c)
    /\ \A x \in T : CallOwned(x, b, c) /\ OpenGood(x)
    /\ RepliesGood(p, T, b)
    /\ \A f \in Frames(p) : Once(f, b, T, ls)
    /\ \A n \in Starts : n > ls => Unborn(n)

KInv ==
    /\ StartsOwned(buf, client, Within(Lanes(calls, loop)), lastStart, pipe)
    /\ Shown(buf, client, pipe)
    /\ GoneGood(loop)
    /\ \A s \in Starts : SlotOwned(s)

-----------------------------------------------------------------------------
(* What a change of the buffer state, and a new call, leave owned.         *)

(* No call that is sent has been answered.                                 *)
Unanswered(p, y) == \A f \in Frames(p) : f.type = "reply" => f.call # y

LEMMA SentUnanswered ==
    ASSUME NEW p, \A f \in Frames(p) : FrameGood(f), NEW y, y.stage = "sent"
    PROVE  Unanswered(p, y)
BY DEF Unanswered, FrameGood

LEMMA StartsGrow ==
    ASSUME NEW b, NEW e, NEW c, NEW d, NEW T, NEW U, NEW y, NEW ls, NEW m, NEW p,
           StartsOwned(b, c, T, ls, p), Unanswered(p, y), e.session = b.session,
           \A x \in U : x = y \/ x \in T,
           BufferOwns(e, d),
           \A x \in T : CallOwned(x, b, c) => CallOwned(x, e, d),
           CallOwned(y, e, d), OpenGood(y),
           \A f \in Frames(p) : Once(f, b, T, ls) => Once(f, e, U, m),
           \A n \in Starts : n > m => n > ls
    PROVE  StartsOwned(e, d, U, m, p)
<1>1. \A x \in U : CallOwned(x, e, d) /\ OpenGood(x)
  BY DEF StartsOwned
<1>2. RepliesGood(p, U, e)
  <2> SUFFICES ASSUME NEW q \in Clients, NEW i \in 1..Len(p[q]),
                      p[q][i].type = "reply", p[q][i].call \in U
               PROVE  ReplyGood(p[q], i, q, e)
    BY DEF RepliesGood
  <2>1. p[q][i].call \in T
    BY InFrames DEF Unanswered
  <2>2. ReplyGood(p[q], i, q, b)
    BY <2>1 DEF StartsOwned, RepliesGood
  <2> QED
    BY <2>2 DEF ReplyGood
<1> QED
  BY <1>1, <1>2 DEF StartsOwned

(* What a started buffer is shown by does not change.                      *)
Steady(b, e) ==
    /\ e.session = b.session /\ e.started = b.started
    /\ e.starting.id = b.starting.id /\ e.starting.kind = b.starting.kind
    /\ e.starting.client = b.starting.client /\ e.starting.held = b.starting.held
    /\ e.starting.launching = b.starting.launching

LEMMA Absent == 0 \notin Clients
BY DEF Clients

(* Nothing about starts changes, but that a client may be spawned.         *)
LEMMA StartsQuiet ==
    ASSUME NEW b, NEW e, NEW c, NEW d, NEW T, NEW U, NEW y, NEW ls, NEW p,
           StartsOwned(b, c, T, ls, p), StartsGood(b, T, ls), Steady(b, e), c # 0 => d = c,
           \A f \in Frames(p) : FrameGood(f), y.stage = "sent", ~OfStart(y),
           \A x \in U : x = y \/ x \in T
    PROVE  StartsOwned(e, d, U, ls, p)
<1>1. BufferOwns(b, c)
  BY DEF StartsOwned
<1>2. c = 0 => b.session = 0 /\ b.starting.id = 0
  BY <1>1, Absent DEF BufferOwns
<1>3. BufferOwns(e, d)
  BY <1>1, <1>2 DEF BufferOwns, Steady
<1>4. ASSUME NEW x \in T, CallOwned(x, b, c) PROVE CallOwned(x, e, d)
  <2>1. OfStart(x) => x.start # 0
    BY DEF StartsGood
  <2> QED
    BY <1>2, <1>4, <2>1 DEF CallOwned, Steady
<1>5. CallOwned(y, e, d) /\ OpenGood(y)
  BY DEF CallOwned, OpenGood, Unstarted, OfStart, StartKinds
<1>6. \A f \in Frames(p) : Once(f, b, T, ls) => Once(f, e, U, ls)
  BY DEF Once, Steady
<1>7. e.session = b.session /\ Unanswered(p, y)
  BY SentUnanswered DEF Steady
<1> QED
  BY <1>3, <1>4, <1>5, <1>6, <1>7, StartsGrow

LEMMA ShownQuiet ==
    ASSUME NEW b, NEW e, NEW c, NEW d, NEW p, BufferOwns(b, c), Shown(b, c, p), Steady(b, e),
           c # 0 => d = c
    PROVE  Shown(e, d, p)
<1>1. c = 0 => ~b.started
  BY Absent DEF BufferOwns
<1> QED
  BY <1>1 DEF Shown, Stopping, Steady

(* A start or a stop begins.                                               *)
LEMMA StartsBegun ==
    ASSUME NEW b, NEW c, NEW T, NEW ls, NEW p, StartsOwned(b, c, T, ls, p), StartsGood(b, T, ls),
           \A f \in Frames(p) : FrameGood(f), b.starting = NoStart,
           NEW e, e.session = b.session, e.started = b.started, e.starting.id = ls + 1,
           ls + 1 \in Starts, NEW d \in Clients, c # 0 => d = c, e.starting.client = d,
           e.starting.kind \in {"start", "stop", "restart"},
           e.starting.launching => ~e.started, e.starting.held => e.starting.kind # "start",
           NEW kind \in {"open_py", "start_kernel", "stop_kernel"},
           kind = "stop_kernel" <=> e.starting.kind # "start",
           NEW U, \A x \in U : x = StartCall(kind, d, ls + 1, b.session) \/ x \in T
    PROVE  StartsOwned(e, d, U, ls + 1, p)
<1> DEFINE y == StartCall(kind, d, ls + 1, b.session)
<1>1. /\ y.kind = kind /\ y.start = ls + 1 /\ y.session = b.session /\ y.client = d
      /\ y.stage = "sent"
  BY StartCallFields
<1>2. ls \in Nat /\ BufferOwns(b, c) /\ ls + 1 > ls /\ ls + 1 \notin 1..ls /\ ls + 1 # 0
  BY DEF StartsGood, StartsOwned
<1> HIDE DEF y
<1>3. c = 0 => b.session = 0
  BY <1>2, Absent DEF BufferOwns
<1>4. BufferOwns(e, d)
  BY <1>2, <1>3 DEF BufferOwns
<1>5. ASSUME NEW x \in T PROVE CallOwned(x, e, d)
  <2>1. OfStart(x) => x.start # ls + 1
    BY <1>2 DEF StartsGood
  <2> QED
    BY <2>1 DEF CallOwned
<1>6. CallOwned(y, e, d)
  BY <1>1 DEF CallOwned, Landed
<1>7. OpenGood(y)
  <2>1. Unborn(ls + 1)
    BY <1>2 DEF StartsOwned
  <2> QED
    BY <1>1, <2>1 DEF OpenGood, Unborn
<1>8. ASSUME NEW f \in Frames(p), Once(f, b, T, ls) PROVE Once(f, e, U, ls + 1)
  <2> SUFFICES ASSUME f.type = "reply", f.call.kind \in {"start_kernel", "stop_kernel"}
               PROVE  /\ f.call.start \in 1..(ls + 1)
                      /\ f.call.start # ls + 1
                      /\ \A x \in U : OfStart(x) /\ x.start = f.call.start =>
                          x.kind # "open_py" /\ (x.kind = f.call.kind => x.stage = "answered")
    BY DEF Once
  <2>1. f.call.start \in 1..ls
    BY <1>8 DEF Once
  <2>2. f.call.start \in 1..(ls + 1) /\ f.call.start # ls + 1
    BY <1>2, <2>1
  <2> QED
    BY <1>1, <1>8, <2>2 DEF Once, y
<1>9. \A n \in Starts : n > ls + 1 => n > ls
  BY <1>2, BoundsAssumption DEF Starts
<1>10. Unanswered(p, y)
  BY <1>1, SentUnanswered
<1> QED
  BY <1>4, <1>5, <1>6, <1>7, <1>8, <1>9, <1>10, StartsGrow DEF y

(* The start or stop in flight ends.                                       *)
LEMMA StartsEnded ==
    ASSUME NEW b, NEW c, NEW T, NEW ls, NEW p, StartsOwned(b, c, T, ls, p), StartsGood(b, T, ls),
           NEW e, e.session = b.session, e.starting = NoStart, e.started => b.started
    PROVE  StartsOwned(e, c, T, ls, p)
<1>1. /\ e.starting.id = 0 /\ ~e.starting.held /\ ~e.starting.launching
      /\ e.starting.kind = "none"
  BY DEF NoStart
<1>2. BufferOwns(e, c)
  BY <1>1 DEF StartsOwned, BufferOwns
<1>3. \A x \in T : CallOwned(x, e, c)
  BY <1>1 DEF CallOwned, StartsGood
<1>4. \A f \in Frames(p) : Once(f, b, T, ls) => Once(f, e, T, ls)
  BY <1>1 DEF Once
<1>5. RepliesGood(p, T, e)
  BY DEF StartsOwned, RepliesGood, ReplyGood
<1> QED
  BY <1>2, <1>3, <1>4, <1>5 DEF StartsOwned

(* The buffer's session is forgotten.                                      *)
LEMMA StartsReset ==
    ASSUME NEW b, NEW c, NEW T, NEW ls, NEW p, StartsOwned(b, c, T, ls, p), StartsGood(b, T, ls),
           \A x \in T : x.kind \in {"start_kernel", "stop_kernel"} => x.session # 0,
           NEW e, e.session = 0, e.starting = NoStart, ~e.started, NEW d
    PROVE  StartsOwned(e, d, T, ls, p)
<1>1. /\ e.starting.id = 0 /\ ~e.starting.held /\ ~e.starting.launching
      /\ e.starting.kind = "none"
  BY DEF NoStart
<1>2. BufferOwns(e, d)
  BY <1>1 DEF BufferOwns
<1>3. \A x \in T : CallOwned(x, e, d)
  BY <1>1 DEF CallOwned, StartsGood
<1>4. \A f \in Frames(p) : Once(f, b, T, ls) => Once(f, e, T, ls)
  BY <1>1 DEF Once
<1>5. RepliesGood(p, T, e)
  BY DEF RepliesGood, ReplyGood
<1> QED
  BY <1>2, <1>3, <1>4, <1>5 DEF StartsOwned

(* The session that start n has opened becomes the buffer's, and its       *)
(* kernel is to be launched.  Its call x is no longer under way.           *)
LEMMA StartsOpened ==
    ASSUME NEW b, NEW c, NEW T, NEW ls, NEW p, StartsOwned(b, c, T, ls, p), StartsGood(b, T, ls),
           \A f \in Frames(p) : FrameGood(f),
           NEW x, x.kind = "open_py", x.stage = "answered", x.client = c,
           x.start = b.starting.id, b.session = 0, CallOwned(x, b, c), OpenGood(x),
           \A f \in Frames(p) : Once(f, b, {x}, ls),
           \A y \in T : Apart(x, y) /\ Clear(y, x),
           b.starting.id # 0,
           NEW e, e.session = x.start, e.started = b.started,
           e.starting.id = b.starting.id, e.starting.kind = b.starting.kind,
           e.starting.client = b.starting.client, e.starting.held = b.starting.held,
           NEW U, \A y \in U : y = StartCall("start_kernel", c, x.start, x.start) \/ y \in T
    PROVE  StartsOwned(e, c, U, ls, p)
<1> DEFINE z == StartCall("start_kernel", c, x.start, x.start)
<1>1. /\ z.kind = "start_kernel" /\ z.start = x.start /\ z.session = x.start /\ z.client = c
      /\ z.stage = "sent"
  BY StartCallFields
<1> HIDE DEF z
<1>2. /\ BufferOwns(b, c) /\ OfStart(x) /\ x.start # 0
  BY DEF StartsOwned, OfStart, StartKinds
<1>3. BufferOwns(e, c)
  BY <1>2 DEF BufferOwns, OpenGood
<1>4. ASSUME NEW y \in T PROVE CallOwned(y, e, c) /\ OpenGood(y)
  <2>1. OfStart(y) => y.start # b.starting.id
    BY <1>2 DEF Apart
  <2> QED
    BY <2>1 DEF CallOwned, StartsOwned
<1>5. CallOwned(z, e, c) /\ OpenGood(z)
  <2>1. ~Ended(x.start)
    BY DEF OpenGood
  <2> QED
    BY <1>1, <1>2, <2>1 DEF CallOwned, OpenGood, Landed
<1>6. ASSUME NEW f \in Frames(p), f.type = "reply",
             f.call.kind \in {"start_kernel", "stop_kernel"}
      PROVE  f.call.start # x.start
  BY <1>2, <1>6 DEF Once
<1>7. ASSUME NEW f \in Frames(p) PROVE Once(f, e, U, ls)
  BY <1>1, <1>6 DEF Once, StartsOwned, z
<1>8. RepliesGood(p, U, e)
  <2> SUFFICES ASSUME NEW q \in Clients, NEW i \in 1..Len(p[q]),
                      p[q][i].type = "reply", p[q][i].call \in U,
                      p[q][i].call.kind \in {"start_kernel", "stop_kernel"}
               PROVE  p[q][i].call.session # x.start
    BY DEF RepliesGood, ReplyGood
  <2>1. p[q][i].call # z
    BY <1>1, InFrames, SentUnanswered DEF Unanswered
  <2>2. p[q][i].call \in T
    BY <2>1 DEF z
  <2> QED
    BY <2>2 DEF Apart, Clear
<1> QED
  BY <1>3, <1>4, <1>5, <1>7, <1>8 DEF StartsOwned, z

(* The kernel of the buffer has been launched.                             *)
LEMMA StartsLaunched ==
    ASSUME NEW b, NEW c, NEW T, NEW ls, NEW p, StartsOwned(b, c, T, ls, p),
           \A f \in Frames(p) : FrameGood(f),
           b.starting.id # 0, b.starting.kind = "start", b.session # 0,
           NEW e, e.session = b.session, ~e.starting.launching,
           e.starting.id = b.starting.id, e.starting.kind = b.starting.kind,
           e.starting.client = b.starting.client, e.starting.held = b.starting.held,
           NEW s, NEW U,
           \A y \in U : y = StartCall("execute_silent", c, b.starting.id, s) \/ y \in T
    PROVE  StartsOwned(e, c, U, ls, p)
<1> DEFINE z == StartCall("execute_silent", c, b.starting.id, s)
<1>1. z.kind = "execute_silent" /\ z.client = c /\ z.stage = "sent"
  BY StartCallFields
<1> HIDE DEF z
<1>2. BufferOwns(e, c)
  BY DEF BufferOwns, StartsOwned
<1>3. \A y \in T : CallOwned(y, b, c) => CallOwned(y, e, c)
  BY DEF CallOwned
<1>4. CallOwned(z, e, c) /\ OpenGood(z)
  BY <1>1 DEF CallOwned, OpenGood, Landed, Unstarted
<1>5. \A f \in Frames(p) : Once(f, b, T, ls) => Once(f, e, U, ls)
  BY <1>1 DEF Once, z
<1>6. Unanswered(p, z)
  BY <1>1, SentUnanswered
<1> QED
  BY <1>2, <1>3, <1>4, <1>5, <1>6, StartsGrow DEF z

(* A stop that was held is sent.                                           *)
LEMMA StartsReleased ==
    ASSUME NEW b, NEW c, NEW T, NEW ls, NEW p, StartsOwned(b, c, T, ls, p),
           \A f \in Frames(p) : FrameGood(f),
           b.starting.held, b.starting.id # 0,
           NEW e, e.session = b.session, e.started = b.started, ~e.starting.held,
           e.starting.id = b.starting.id, e.starting.kind = b.starting.kind,
           e.starting.client = b.starting.client, e.starting.launching = b.starting.launching,
           NEW U, \A y \in U :
               y = StartCall("stop_kernel", b.starting.client, b.starting.id, b.session) \/ y \in T
    PROVE  StartsOwned(e, c, U, ls, p) /\ Shown(e, c, p)
<1> DEFINE z == StartCall("stop_kernel", b.starting.client, b.starting.id, b.session)
<1>1. /\ z.kind = "stop_kernel" /\ z.client = b.starting.client /\ z.stage = "sent"
      /\ z.session = b.session /\ z.start = b.starting.id
  BY StartCallFields
<1> HIDE DEF z
<1>2. BufferOwns(b, c)
  BY DEF StartsOwned
<1>3. BufferOwns(e, c) /\ Shown(e, c, p)
  BY <1>2 DEF BufferOwns, Shown, Stopping
<1>4. \A y \in T : CallOwned(y, b, c) => CallOwned(y, e, c)
  BY DEF CallOwned
<1>5. CallOwned(z, e, c) /\ OpenGood(z)
  BY <1>1, <1>2 DEF CallOwned, OpenGood, BufferOwns, Landed, Unstarted
<1>6. \A f \in Frames(p) : Once(f, b, T, ls) => Once(f, e, U, ls)
  BY <1>1 DEF Once, z
<1>7. Unanswered(p, z)
  BY <1>1, SentUnanswered
<1> QED
  BY <1>3, <1>4, <1>5, <1>6, <1>7, StartsGrow DEF z

-----------------------------------------------------------------------------
(* The steps the handlers are made of.  p is what the pipes hold when the  *)
(* handler ends.                                                           *)

Owning(b, w, p) ==
    /\ StartsOwned(b, client, Within(Lanes(w.calls, w.loop)), lastStart, p)
    /\ \A f \in Frames(p) : FrameGood(f)

Keeps(p) ==
    /\ StartsOwned(buf', client', Within(Lanes(calls', loop')), lastStart', p)
    /\ Shown(buf', client', p)

LEMMA SteadyFields ==
    ASSUME NEW b \in BufferState
    PROVE  /\ Steady(b, b)
           /\ Steady(b, Discard(b))
           /\ Steady(b, TakeRun(b))
           /\ Steady(b, [b EXCEPT !.inFlight = 0])
           /\ \A n : Steady(b, Enqueue(b, n))
           /\ \A v : Steady(b, [b EXCEPT !.starting.waiting = v])
<1>1. Steady(b, b)
  BY DEF Steady
<1>2. Steady(b, Discard(b))
  BY DEF Discard, BufferState, Steady
<1>3. Steady(b, TakeRun(b))
  BY DEF TakeRun, BufferState, Steady
<1>4. Steady(b, [b EXCEPT !.inFlight = 0])
  BY DEF BufferState, Steady
<1>5. \A n : Steady(b, Enqueue(b, n))
  BY DEF Enqueue, BufferState, Steady
<1>6. ASSUME NEW v PROVE Steady(b, [b EXCEPT !.starting.waiting = v])
  <2> DEFINE h == [b.starting EXCEPT !.waiting = v]
  <2>1. b.starting \in Starting
    BY BufferFields
  <2>2. /\ h.id = b.starting.id /\ h.launching = b.starting.launching
        /\ h.kind = b.starting.kind /\ h.client = b.starting.client /\ h.held = b.starting.held
    BY <2>1 DEF Starting
  <2>3. [b EXCEPT !.starting.waiting = v] = [b EXCEPT !.starting = h]
    OBVIOUS
  <2> HIDE DEF h
  <2> QED
    BY <2>2, <2>3 DEF BufferState, Steady
<1> QED
  BY <1>1, <1>2, <1>3, <1>4, <1>5, <1>6

LEMMA SteadyOwning ==
    ASSUME NEW b, NEW e, NEW w, NEW p, Owning(b, w, p), At(b, w), Steady(b, e)
    PROVE  /\ Owning(e, w, p) /\ At(e, w)
           /\ Shown(b, client, p) => Shown(e, client, p)
<1> DEFINE T == Within(Lanes(w.calls, w.loop))
<1>1. NoCall.stage = "sent" /\ ~OfStart(NoCall)
  BY DEF NoCall, OfStart, StartKinds
<1>2. \A x \in T : x = NoCall \/ x \in T
  OBVIOUS
<1>3. StartsOwned(b, client, T, lastStart, p) /\ StartsGood(b, T, lastStart)
  BY DEF Owning, At
<1> HIDE DEF T
<1>4. StartsOwned(e, client, T, lastStart, p)
  BY <1>1, <1>2, <1>3, StartsQuiet DEF Owning
<1>5. At(e, w)
  BY SameAt DEF Steady
<1>6. Shown(b, client, p) => Shown(e, client, p)
  BY <1>3, ShownQuiet DEF StartsOwned
<1> QED
  BY <1>4, <1>5, <1>6 DEF Owning, T

LEMMA KeepsAlone ==
    ASSUME NEW b, NEW w, NEW p, Owning(b, w, p), Shown(b, client, p), Leave(b, w)
    PROVE  Keeps(p)
BY DEF Keeps, Owning, Leave

(* A call is made that is not for a start.                                 *)
LEMMA KeepsOther ==
    ASSUME NEW b, NEW w \in Waits, NEW p, Owning(b, w, p), At(b, w), Shown(b, client, p),
           Steady(b, buf'), NEW x \in Call, x.stage = "sent", ~OfStart(x), Send(x, w),
           lastStart' = lastStart, client # 0 => client' = client
    PROVE  Keeps(p)
<1> DEFINE T == Within(Lanes(w.calls, w.loop))
           U == Within(Lanes(calls', loop'))
<1>1. \A y \in U : y = x \/ y \in T
  BY SendCalls
<1>2. StartsOwned(b, client, T, lastStart, p) /\ StartsGood(b, T, lastStart)
  BY DEF Owning, At
<1> HIDE DEF T, U
<1>3. StartsOwned(buf', client', U, lastStart, p)
  BY <1>1, <1>2, StartsQuiet DEF Owning
<1>4. Shown(buf', client', p)
  BY <1>2, ShownQuiet DEF StartsOwned
<1> QED
  BY <1>3, <1>4 DEF Keeps, U

LEMMA PumpKeeps ==
    ASSUME NEW b \in BufferState, NEW w \in Waits, NEW p, Owning(b, w, p), At(b, w),
           Shown(b, client, p), PumpFrom(b, w)
    PROVE  Keeps(p)
<1>1. CASE ~Ready(b)
  BY <1>1, KeepsAlone DEF PumpFrom
<1>2. CASE Leave(Discard(b), w)
  BY <1>2, SteadyFields, SteadyOwning, KeepsAlone
<1>3. ASSUME Ready(b), NEW c \in Clients, EnsureClient(c), buf' = TakeRun(b),
             Send(UpdateCall(c, b), w), lastStart' = lastStart
      PROVE  Keeps(p)
  <2> DEFINE x == UpdateCall(c, b)
  <2>1. x \in Call
    BY <1>3, UpdateCallTyped DEF Ready
  <2>2. x.kind = "update_cell_source" /\ x.stage = "sent"
    BY DEF UpdateCall, NoCall
  <2>3. Send(x, w) /\ Steady(b, buf') /\ (client # 0 => client' = client)
    BY <1>3, SteadyFields DEF EnsureClient
  <2> HIDE DEF x
  <2>4. ~OfStart(x)
    BY <2>2 DEF OfStart, StartKinds
  <2> QED
    BY <1>3, <2>1, <2>2, <2>3, <2>4, KeepsOther
<1> QED
  BY <1>1, <1>2, <1>3 DEF PumpFrom

LEMMA StartKeeps ==
    ASSUME NEW b \in BufferState, NEW callback \in BOOLEAN, NEW w \in Waits, NEW p,
           Owning(b, w, p), At(b, w), Shown(b, client, p), StartFrom(b, callback, w)
    PROVE  Keeps(p)
<1>0. BufferOwns(b, client)
  BY DEF Owning, StartsOwned
<1>1. CASE b.starting # NoStart
  <2>1. Leave([b EXCEPT !.starting.waiting = TRUE], w)
    BY <1>1 DEF StartFrom
  <2> QED
    BY <2>1, SteadyFields, SteadyOwning, KeepsAlone
<1>2. CASE b.starting = NoStart /\ b.started /\ b.session # 0
  <2>1. PumpFrom(b, w) \/ Leave(b, w)
    BY <1>2 DEF StartFrom
  <2> QED
    BY <2>1, PumpKeeps, KeepsAlone
<1>3. CASE b.starting = NoStart /\ ~(b.started /\ b.session # 0)
  <2> DEFINE id == lastStart + 1
             kind == IF b.session # 0 THEN "start_kernel" ELSE "open_py"
             start(c) == [id |-> id, kind |-> "start", client |-> c,
                          launching |-> b.session # 0,
                          held |-> FALSE, waiting |-> callback, since |-> lastRun]
  <2>1. CASE Leave(Discard(b), w)
    BY <2>1, SteadyFields, SteadyOwning, KeepsAlone
  <2>2. ASSUME NEW c \in Clients, id <= MaxStarts, EnsureClient(c),
               buf' = [b EXCEPT !.starting = start(c)],
               Send(StartCall(kind, c, id, b.session), w), lastStart' = id
        PROVE  Keeps(p)
    <3> DEFINE h == start(c)
               x == StartCall(kind, c, id, b.session)
               T == Within(Lanes(w.calls, w.loop))
               U == Within(Lanes(calls', loop'))
    <3>1. /\ id \in 0..MaxStarts /\ id # 0 /\ c \in 0..MaxClients /\ id \in Starts
          /\ b.session \in 0..MaxStarts
      <4>1. lastStart \in Nat
        BY DEF At, StartsGood
      <4> QED
        BY <2>2, <4>1, BoundsAssumption, BufferFields DEF Clients, Starts
    <3>2. /\ h.id = id /\ h.client = c /\ h.kind = "start" /\ ~h.held
      OBVIOUS
    <3>3. kind \in {"open_py", "start_kernel"}
      OBVIOUS
    <3>4. ~b.started
      BY <1>0, <1>3 DEF BufferOwns
    <3>5. buf' = [b EXCEPT !.starting = h] /\ Send(x, w) /\ lastStart' = id
      BY <2>2
    <3> HIDE DEF kind, id, start, h, T, U
    <3>6. x \in Call
      <4>1. kind \in StartKinds
        BY <3>3 DEF StartKinds
      <4> QED
        BY <3>1, <4>1, StartCallTyped
    <3> DEFINE e == [b EXCEPT !.starting = h]
    <3>7. e.session = b.session /\ e.starting = h /\ e.started = b.started
      BY DEF BufferState
    <3>8. buf' = e /\ client' = c /\ (client # 0 => c = client)
      BY <2>2, <3>5 DEF EnsureClient
    <3> HIDE DEF e
    <3>9. /\ StartsOwned(b, client, T, lastStart, p) /\ StartsGood(b, T, lastStart)
          /\ \A f \in Frames(p) : FrameGood(f)
      BY DEF Owning, At, T
    <3>10. \A y \in U : y = x \/ y \in T
      BY <3>5, <3>6, SendCalls DEF T, U
    <3>11. StartsOwned(e, c, U, id, p)
      BY <1>3, <3>1, <3>2, <3>3, <3>4, <3>7, <3>8, <3>9, <3>10, StartsBegun DEF id, x
    <3>12. Shown(e, c, p)
      BY <3>4, <3>7 DEF Shown
    <3> QED
      BY <3>5, <3>8, <3>11, <3>12 DEF Keeps, U
  <2> QED
    BY <1>3, <2>1, <2>2 DEF StartFrom
<1> QED
  BY <1>1, <1>2, <1>3

(* The start or stop in flight ends.                                       *)
LEMMA EndOwning ==
    ASSUME NEW b, NEW w, NEW p, Owning(b, w, p), At(b, w),
           NEW e, e.session = b.session, e.starting = NoStart, e.started => b.started
    PROVE  Owning(e, w, p) /\ At(e, w)
BY StartsEnded, SameAt DEF Owning, At

(* A start ends that f answers: it is not a stop.                          *)
LEMMA FinishStartKeeps ==
    ASSUME Sound(buf), NEW ok \in BOOLEAN, NEW w \in Waits, NEW p,
           Owning(buf, w, p), At(buf, w), Shown(buf, client, p),
           NEW n, n = buf.starting.id => buf.starting.kind = "start",
           FinishStart(n, ok, w)
    PROVE  Keeps(p)
<1> DEFINE b == [buf EXCEPT !.starting = NoStart]
<1>0. /\ buf \in BufferState /\ b \in BufferState
      /\ b.starting = NoStart /\ b.session = buf.session /\ b.started = buf.started
  BY NoStartFieldsOf DEF Sound, BufferState
<1>1. CASE buf.starting.id # n
  BY <1>1, KeepsAlone DEF FinishStart
<1>2. CASE buf.starting.id = n
  <2>1. PumpFrom(b, w) \/ Leave(Discard(b), w)
    BY <1>2 DEF FinishStart
  <2> HIDE DEF b
  <2>2. Owning(b, w, p) /\ At(b, w)
    BY <1>0, EndOwning
  <2>3. Shown(b, client, p)
    BY <1>0, <1>2 DEF Shown, Stopping
  <2>4. Owning(Discard(b), w, p) /\ Shown(Discard(b), client, p)
    BY <1>0, <2>2, <2>3, SteadyFields, SteadyOwning
  <2> QED
    BY <1>0, <2>1, <2>2, <2>3, <2>4, PumpKeeps, KeepsAlone
<1> QED
  BY <1>1, <1>2

LEMMA StopHeldKeeps ==
    ASSUME NEW b \in BufferState, b.starting = NoStart, NEW w \in Waits, NEW p,
           Owning(b, w, p), At(b, w), Shown(b, client, p), client \in 0..MaxClients,
           NEW kind \in {"stop", "restart"}, StopHeld(b, kind, w)
    PROVE  Keeps(p)
<1> DEFINE T == Within(Lanes(w.calls, w.loop))
           U == Within(Lanes(calls', loop'))
           id == lastStart + 1
           h == [id |-> id, kind |-> kind, client |-> client, launching |-> FALSE,
                 held |-> Held(b), waiting |-> FALSE, since |-> lastRun]
           x == StartCall("stop_kernel", client, id, b.session)
           e == [b EXCEPT !.starting = h]
<1>1. /\ lastStart \in Nat /\ id \in 0..MaxStarts /\ id \in Starts
      /\ b.session \in 0..MaxStarts /\ client \in Clients
  <2>1. lastStart \in Nat /\ id < MaxStarts /\ client # 0
    BY DEF At, StartsGood, StopHeld
  <2> QED
    BY <2>1, BoundsAssumption, BufferFields DEF Starts, Clients
<1>2. /\ lastStart' = id /\ buf' = e /\ client' = client
      /\ \/ calls' = w.calls /\ loop' = w.loop
         \/ Send(x, w)
  BY DEF StopHeld
<1>3. x \in Call
  BY <1>1, StartCallTyped DEF StartKinds
<1>4. h.id = id /\ h.launching = FALSE /\ h.kind = kind /\ h.client = client
  OBVIOUS
<1> HIDE DEF h
<1>5. e.session = b.session /\ e.starting = h /\ e.started = b.started
  BY DEF BufferState
<1>6. /\ StartsOwned(b, client, T, lastStart, p) /\ StartsGood(b, T, lastStart)
      /\ \A f \in Frames(p) : FrameGood(f)
  BY DEF Owning, At
<1> HIDE DEF e, T, U
<1>7. \A y \in U : y = x \/ y \in T
  BY <1>2, <1>3, SendCalls DEF T, U
<1>8. StartsOwned(e, client, U, id, p)
  BY <1>1, <1>4, <1>5, <1>6, <1>7, StartsBegun
<1>9. Shown(e, client, p)
  <2>1. ~Stopping(b)
    BY DEF Stopping, NoStart
  <2> QED
    BY <1>5, <2>1 DEF Shown
<1> QED
  BY <1>2, <1>8, <1>9 DEF Keeps, U

LEMMA DoneKeeps ==
    ASSUME Sound(buf), NEW failed \in BOOLEAN, NEW w \in Waits, NEW p,
           Owning(buf, w, p), At(buf, w), Shown(buf, client, p), NEW x, Done(x, failed, w)
    PROVE  Keeps(p)
<1> DEFINE mine == buf.inFlight = x.run
           b1 == IF mine THEN [buf EXCEPT !.inFlight = 0] ELSE buf
           b2 == IF failed /\ ~Discarded(x) THEN Discard(b1) ELSE b1
           h == b2.starting
<1>1. Sound(b1) /\ b1 \in BufferState
  <2>1. Sound(b1)
    BY FlightDoneSound
  <2> QED
    BY <2>1 DEF Sound
<1>2. Owning(b1, w, p) /\ At(b1, w) /\ Shown(b1, client, p)
  BY SteadyFields, SteadyOwning DEF Sound
<1>3. Sound(b2) /\ b2 \in BufferState /\ Owning(b2, w, p) /\ At(b2, w) /\ Shown(b2, client, p)
  <2>1. Sound(b2)
    BY <1>1, DiscardSound
  <2> QED
    BY <1>1, <1>2, <2>1, SteadyFields, SteadyOwning DEF Sound
<1>4. \/ /\ h.held
         /\ Emit([b2 EXCEPT !.starting.held = FALSE],
                 StartCall("stop_kernel", h.client, h.id, b2.session), w)
      \/ PumpFrom(b2, w)
      \/ Leave(b2, w)
  BY DEF Done
<1> HIDE DEF b1, b2, mine
<1>5. CASE /\ h.held
           /\ Emit([b2 EXCEPT !.starting.held = FALSE],
                   StartCall("stop_kernel", h.client, h.id, b2.session), w)
  <2> DEFINE e == [b2 EXCEPT !.starting.held = FALSE]
             g == [h EXCEPT !.held = FALSE]
             y == StartCall("stop_kernel", h.client, h.id, b2.session)
             T == Within(Lanes(w.calls, w.loop))
             U == Within(Lanes(calls', loop'))
  <2>1. /\ h \in Starting /\ b2.session \in 0..MaxStarts /\ h.id \in 0..MaxStarts
        /\ h.id # 0
    BY <1>3, <1>5, BufferFields, NoStartFields DEF Sound
  <2>2. y \in Call
    <3>1. h.client \in 0..MaxClients /\ "stop_kernel" \in StartKinds
      BY <2>1 DEF Starting, StartKinds
    <3> HIDE DEF h
    <3> QED
      BY <2>1, <3>1, StartCallTyped
  <2>3. /\ g.id = h.id /\ g.launching = h.launching /\ g.kind = h.kind
        /\ g.client = h.client /\ ~g.held
    BY <2>1 DEF Starting
  <2>4. e = [b2 EXCEPT !.starting = g]
    OBVIOUS
  <2> HIDE DEF g
  <2>5. e.session = b2.session /\ e.started = b2.started /\ e.starting = g
    BY <1>3, <2>4 DEF BufferState
  <2>6. /\ Send(y, w) /\ buf' = e /\ lastStart' = lastStart /\ client' = client
    BY <1>5 DEF Emit
  <2>7. \A v \in U : v = y \/ v \in T
    BY <2>2, <2>6, SendCalls
  <2>8. StartsOwned(b2, client, T, lastStart, p) /\ \A f \in Frames(p) : FrameGood(f)
    BY <1>3 DEF Owning
  <2> HIDE DEF e, T, U
  <2>9. StartsOwned(e, client, U, lastStart, p) /\ Shown(e, client, p)
    BY <1>5, <2>1, <2>3, <2>5, <2>7, <2>8, StartsReleased
  <2> QED
    BY <2>6, <2>9 DEF Keeps, U
<1> QED
  BY <1>3, <1>4, <1>5, PumpKeeps, KeepsAlone

-----------------------------------------------------------------------------
(* The callbacks.                                                          *)

(* What is known of the call that f answers.                               *)
Replied(f, p) ==
    /\ CallOwned(f.call, buf, client) /\ OpenGood(f.call)
    /\ \A g \in Frames(p) : Once(g, buf, {f.call}, lastStart)
    /\ f.call.kind = "open_py" /\ f.err = "ok" => f.call.stage = "answered"
    /\ client \in Clients /\ f.call.session = buf.session /\ f.call.client = client =>
        /\ f.call.kind = "stop_kernel" /\ f.err # "ok" => client \in Dead
        /\ f.call.kind = "start_kernel" /\ f.err = "ok" => Present(buf.session, client, p[client], 0)

LEMMA CloseKeeps ==
    ASSUME Sound(buf), NEW w \in Waits, NEW p,
           Owning(buf, w, p), At(buf, w), Shown(buf, client, p),
           NEW c \in 0..MaxClients, NEW s \in 0..MaxStarts, Emit(buf, CloseCall(c, s), w)
    PROVE  Keeps(p)
<1> DEFINE x == CloseCall(c, s)
<1>1. x \in Call
  BY CloseCallTyped
<1>2. x.kind = "close" /\ x.stage = "sent"
  BY DEF CloseCall, NoCall
<1>3. /\ Send(x, w) /\ buf' = buf /\ lastStart' = lastStart /\ client' = client
      /\ Steady(buf, buf)
  BY SteadyFields DEF Emit, Sound
<1> HIDE DEF x
<1>4. ~OfStart(x)
  BY <1>2 DEF OfStart, StartKinds
<1> QED
  BY <1>1, <1>2, <1>3, <1>4, KeepsOther

LEMMA OpenPyReplyKeeps ==
    ASSUME Sound(buf), NEW w \in Waits, NEW p,
           Owning(buf, w, p), At(buf, w), Shown(buf, client, p),
           NEW f \in Frame, NEW z, Answering(f, w, z), Replied(f, p),
           f.call.kind = "open_py", OpenPyReply(f, w)
    PROVE  Keeps(p)
<1> DEFINE x == f.call
           T == Within(Lanes(w.calls, w.loop))
<1>1. /\ x \in Call /\ x.client \in 0..MaxClients /\ x.start \in 0..MaxStarts
      /\ OfStart(x) /\ \A y \in T : Apart(x, y) /\ Clear(x, y) /\ Clear(y, x)
      /\ x.start \in 1..lastStart /\ x.start # buf.session
      /\ (x.start = buf.starting.id => buf.session = 0)
      /\ buf \in BufferState
  BY CallFields DEF Frame, Answering, StartGood, OfStart, StartKinds, Sound
<1>2. x.start = buf.starting.id => buf.starting.kind = "start"
  BY <1>1 DEF Replied, CallOwned
<1>3. CASE FinishStart(x.start, FALSE, w)
  BY <1>2, <1>3, FinishStartKeeps
<1>4. CASE Leave(buf, w)
  BY <1>4, KeepsAlone
<1>5. CASE Emit(buf, CloseCall(x.client, x.start), w)
  BY <1>1, <1>5, CloseKeeps
<1>6. CASE /\ client = x.client /\ f.err = "ok" /\ buf.starting.id = x.start
           /\ Emit([buf EXCEPT !.session = x.start, !.starting.launching = TRUE],
                   StartCall("start_kernel", x.client, x.start, x.start), w)
  <2> DEFINE e == [buf EXCEPT !.session = x.start, !.starting.launching = TRUE]
             h == [buf.starting EXCEPT !.launching = TRUE]
             y == StartCall("start_kernel", x.client, x.start, x.start)
             U == Within(Lanes(calls', loop'))
  <2>1. Send(y, w) /\ buf' = e /\ lastStart' = lastStart /\ client' = client
    BY <1>6 DEF Emit
  <2>2. y \in Call
    BY <1>1, StartCallTyped DEF StartKinds
  <2>3. /\ h.id = buf.starting.id /\ h.kind = buf.starting.kind
        /\ h.client = buf.starting.client /\ h.held = buf.starting.held
    BY <1>1, BufferFields DEF Starting
  <2>4. e = [[buf EXCEPT !.session = x.start] EXCEPT !.starting = h]
    BY <1>1 DEF BufferState
  <2> HIDE DEF h
  <2>5. e.session = x.start /\ e.starting = h /\ e.started = buf.started
    BY <1>1, <2>4 DEF BufferState
  <2>6. \A v \in U : v = y \/ v \in T
    BY <2>1, <2>2, SendCalls
  <2>7. /\ StartsOwned(buf, client, T, lastStart, p) /\ StartsGood(buf, T, lastStart)
        /\ \A g \in Frames(p) : FrameGood(g)
    BY DEF Owning, At
  <2>8. /\ CallOwned(x, buf, client) /\ OpenGood(x) /\ x.stage = "answered"
        /\ \A g \in Frames(p) : Once(g, buf, {x}, lastStart)
    BY <1>6 DEF Replied
  <2>9. buf.starting.id # 0 /\ buf.session = 0
    BY <1>1, <1>6
  <2>10. ~buf.started
    BY <2>7, <2>9 DEF StartsOwned, BufferOwns
  <2>11. x.kind = "open_py"
    OBVIOUS
  <2>12. \A v \in U : v = StartCall("start_kernel", client, x.start, x.start) \/ v \in T
    BY <1>6, <2>6
  <2> HIDE DEF e, T, U, x
  <2>13. StartsOwned(e, client, U, lastStart, p)
    BY <1>1, <1>6, <2>3, <2>5, <2>7, <2>8, <2>9, <2>11, <2>12, StartsOpened
  <2>14. Shown(e, client, p)
    BY <2>5, <2>10 DEF Shown
  <2> QED
    BY <2>1, <2>13, <2>14 DEF Keeps, U
<1> QED
  BY <1>3, <1>4, <1>5, <1>6 DEF OpenPyReply

LEMMA StartKernelReplyKeeps ==
    ASSUME Sound(buf), NEW w \in Waits, NEW p,
           Owning(buf, w, p), At(buf, w), Shown(buf, client, p),
           NEW f \in Frame, NEW z, Answering(f, w, z), Replied(f, p),
           f.call.kind = "start_kernel", StartKernelReply(f, w)
    PROVE  Keeps(p)
<1> DEFINE x == f.call
           T == Within(Lanes(w.calls, w.loop))
<1>1. /\ x \in Call /\ x.client \in 0..MaxClients /\ x.session \in 0..MaxStarts
      /\ x.start \in 0..MaxStarts /\ OfStart(x) /\ x.start \in 1..lastStart
      /\ x.session \in 1..lastStart
      /\ (x.session = buf.session <=> x.start = buf.starting.id)
      /\ buf \in BufferState
  BY CallFields DEF Frame, Answering, SessionGood, StartGood, OfStart, StartKinds, Sound
<1>2. x.start = buf.starting.id => buf.starting.kind = "start"
  BY <1>1 DEF Replied, CallOwned
<1>3. CASE FinishStart(x.start, FALSE, w)
  BY <1>2, <1>3, FinishStartKeeps
<1>4. CASE Emit(buf, CloseCall(x.client, x.session), w)
  BY <1>1, <1>4, CloseKeeps
<1>5. CASE /\ client = x.client /\ f.err = "ok" /\ buf.starting.id = x.start
           /\ Emit([buf EXCEPT !.started = TRUE, !.starting.launching = FALSE],
                   StartCall("execute_silent", x.client, x.start, x.session), w)
  <2> DEFINE e == [buf EXCEPT !.started = TRUE, !.starting.launching = FALSE]
             h == [buf.starting EXCEPT !.launching = FALSE]
             y == StartCall("execute_silent", x.client, x.start, x.session)
             U == Within(Lanes(calls', loop'))
  <2>1. Send(y, w) /\ buf' = e /\ lastStart' = lastStart /\ client' = client
    BY <1>5 DEF Emit
  <2>2. y \in Call
    BY <1>1, StartCallTyped DEF StartKinds
  <2>3. /\ h.id = buf.starting.id /\ h.kind = buf.starting.kind
        /\ h.client = buf.starting.client /\ h.held = buf.starting.held /\ ~h.launching
    BY <1>1, BufferFields DEF Starting
  <2>4. e = [[buf EXCEPT !.started = TRUE] EXCEPT !.starting = h]
    BY <1>1 DEF BufferState
  <2> HIDE DEF h
  <2>5. e.session = buf.session /\ e.starting = h
    BY <1>1, <2>4 DEF BufferState
  <2>6. \A v \in U : v = y \/ v \in T
    BY <2>1, <2>2, SendCalls
  <2>7. /\ StartsOwned(buf, client, T, lastStart, p)
        /\ \A g \in Frames(p) : FrameGood(g)
    BY DEF Owning
  <2>8. /\ buf.starting.id # 0 /\ buf.session # 0 /\ buf.starting.kind = "start"
        /\ x.session = buf.session
    BY <1>1, <1>2, <1>5
  <2>9. client \in Clients
    BY <2>7, <2>8 DEF StartsOwned, BufferOwns
  <2>10. Present(buf.session, client, p[client], 0)
    BY <1>5, <2>8, <2>9 DEF Replied
  <2>11. \A v \in U :
            v = StartCall("execute_silent", client, buf.starting.id, x.session) \/ v \in T
    BY <1>5, <2>6
  <2> HIDE DEF e, T, U, x
  <2>12. StartsOwned(e, client, U, lastStart, p)
    BY <2>3, <2>5, <2>7, <2>8, <2>11, StartsLaunched
  <2>13. Shown(e, client, p)
    BY <2>5, <2>10 DEF Shown
  <2> QED
    BY <2>1, <2>12, <2>13 DEF Keeps, U
<1> QED
  BY <1>3, <1>4, <1>5 DEF StartKernelReply

LEMMA UpdateCellSourceReplyKeeps ==
    ASSUME Sound(buf), NEW w \in Waits, NEW p,
           Owning(buf, w, p), At(buf, w), Shown(buf, client, p),
           NEW f \in Frame, f.call.kind = "update_cell_source", UpdateCellSourceReply(f, w)
    PROVE  Keeps(p)
<1> DEFINE x == f.call
           y == [x EXCEPT !.kind = "execute", !.session = buf.session, !.stage = "sent"]
<1>1. x \in Request /\ x \in Call /\ x.run # 0 /\ buf.session \in 0..MaxStarts
      /\ buf \in BufferState
  BY DEF Frame, Call, Sound, BufferState
<1>2. y \in Request /\ y.kind = "execute" /\ y.run = x.run /\ y.stage = "sent"
  BY <1>1 DEF Request, Kinds
<1>3. y \in Call
  BY <1>1, <1>2 DEF Call
<1>4. (\E failed \in BOOLEAN : Done(x, failed, w)) \/ Emit(buf, y, w)
  BY DEF UpdateCellSourceReply
<1> HIDE DEF y
<1>5. CASE Emit(buf, y, w)
  <2>1. /\ Send(y, w) /\ lastStart' = lastStart /\ client' = client
        /\ Steady(buf, buf')
    BY <1>1, <1>5, SteadyFields DEF Emit
  <2>2. ~OfStart(y)
    BY <1>2 DEF OfStart, StartKinds
  <2> QED
    BY <1>2, <1>3, <2>1, <2>2, KeepsOther
<1> QED
  BY <1>4, <1>5, DoneKeeps

LEMMA StopKernelReplyKeeps ==
    ASSUME Sound(buf), NEW w \in Waits, NEW p,
           Owning(buf, w, p), At(buf, w), Shown(buf, client, p),
           NEW f, NEW z, Answering(f, w, z), Replied(f, p),
           f.call.kind = "stop_kernel", f.err \in {"ok", "err", "gone"}, StopKernelReply(f, w)
    PROVE  Keeps(p)
<1> DEFINE x == f.call
           b == [buf EXCEPT !.starting = NoStart]
           s == Stopped(buf)
<1>1. CASE buf.starting.id # x.start
  BY <1>1, KeepsAlone DEF StopKernelReply
<1>2. CASE buf.starting.id = x.start
  <2>1. /\ buf \in BufferState
        /\ b \in BufferState /\ b.starting = NoStart /\ b.session = buf.session
        /\ b.started = buf.started
        /\ s \in BufferState /\ s.starting = NoStart /\ s.session = buf.session
        /\ ~s.started
    <3>1. b.started = buf.started /\ ~s.started
      BY DEF Sound, BufferState, Stopped
    <3> QED
      BY <3>1, NoStartFieldsOf, StoppedFields DEF Sound
  <2>2. OfStart(x) /\ x.start # 0
    BY DEF Answering, StartGood, OfStart, StartKinds, At, StartsGood
  <2>3. x.client = client /\ x.session = buf.session
    BY <1>2, <2>2 DEF Replied, CallOwned
  <2>4. BufferOwns(buf, client)
    BY DEF Owning, StartsOwned
  <2>5. client \in Clients
    BY <1>2, <2>2, <2>4 DEF BufferOwns
  <2>6. \/ f.err # "ok" /\ (Leave(Discard(b), w) \/ PumpFrom(b, w))
        \/ StartFrom(s, TRUE, w) \/ PumpFrom(s, w)
    BY <1>2, <2>3 DEF StopKernelReply
  <2> HIDE DEF b, s
  <2>7. Owning(b, w, p) /\ At(b, w) /\ Owning(s, w, p) /\ At(s, w)
    BY <2>1, EndOwning
  <2>8. Shown(s, client, p)
    BY <2>1 DEF Shown
  <2>9. CASE f.err # "ok" /\ (Leave(Discard(b), w) \/ PumpFrom(b, w))
    <3>1. client \in Dead
      BY <2>3, <2>5, <2>9 DEF Replied
    <3>2. Shown(b, client, p)
      BY <3>1 DEF Shown, Present
    <3>3. Owning(Discard(b), w, p) /\ Shown(Discard(b), client, p)
      BY <2>1, <2>7, <3>2, SteadyFields, SteadyOwning
    <3> QED
      BY <2>1, <2>7, <2>9, <3>2, <3>3, PumpKeeps, KeepsAlone
  <2>10. StartFrom(s, TRUE, w) => \E callback \in BOOLEAN : StartFrom(s, callback, w)
    OBVIOUS
  <2> QED
    BY <2>1, <2>6, <2>7, <2>8, <2>9, <2>10, PumpKeeps, StartKeeps
<1> QED
  BY <1>1, <1>2

LEMMA KernelExitedKeeps ==
    ASSUME Sound(buf), NEW w, NEW p, NEW f, Owning(buf, w, p),
           f.call.session # buf.session => Shown(buf, client, p), KernelExited(f, w)
    PROVE  Keeps(p)
<1> DEFINE d == Discard(buf)
           e == [d EXCEPT !.started = FALSE]
<1>1. CASE f.call.session # buf.session
  BY <1>1, KeepsAlone DEF KernelExited
<1>2. CASE f.call.session = buf.session
  <2>1. Leave(e, w)
    BY <1>2 DEF KernelExited
  <2>2. d \in BufferState /\ d.session = buf.session /\ d.starting = buf.starting
    BY DiscardFields, SteadyFields DEF Sound, Discard, BufferState
  <2> HIDE DEF d
  <2>3. ~e.started /\ e.session = buf.session /\ e.starting = buf.starting
    BY <2>2 DEF BufferState
  <2> HIDE DEF e
  <2>4. Owning(e, w, p)
    BY <2>3 DEF Owning, StartsOwned, BufferOwns, CallOwned, RepliesGood, ReplyGood, Once
  <2>5. Shown(e, client, p)
    BY <2>3 DEF Shown
  <2> QED
    BY <2>1, <2>4, <2>5, KeepsAlone
<1> QED
  BY <1>1, <1>2

(* A kernel is started or stopped in a session.                            *)
InSessions(w) ==
    \A x \in Within(Lanes(w.calls, w.loop)) :
        x.kind \in {"start_kernel", "stop_kernel"} => x.session # 0

LEMMA DefaultOwning ==
    ASSUME NEW w, NEW p, Owning(buf, w, p), At(buf, w), InSessions(w), NEW c
    PROVE  /\ StartsOwned(DefaultBufferState, c, Within(Lanes(w.calls, w.loop)), lastStart, p)
           /\ Shown(DefaultBufferState, c, p)
<1> DEFINE e == DefaultBufferState
<1>1. e.session = 0 /\ e.starting = NoStart /\ ~e.started
  BY DEF DefaultBufferState
<1> HIDE DEF e
<1>2. Shown(e, c, p)
  BY <1>1 DEF Shown
<1>3. StartsOwned(e, c, Within(Lanes(w.calls, w.loop)), lastStart, p)
  BY <1>1, StartsReset DEF Owning, At, InSessions
<1> QED
  BY <1>2, <1>3 DEF e

LEMMA BackendExitedKeeps ==
    ASSUME Sound(buf), NEW w, NEW p, NEW f, Owning(buf, w, p), At(buf, w), InSessions(w),
           f.call.client = client, client # 0, BackendExited(f, w)
    PROVE  Keeps(p)
<1> DEFINE T == Within(Lanes(w.calls, w.loop))
<1>1. /\ client' = 0 /\ calls' = w.calls /\ loop' = w.loop /\ lastStart' = lastStart
      /\ \/ buf' = DefaultBufferState
         \/ buf' = buf /\ buf.session = 0 /\ buf.starting.client # client
  BY DEF BackendExited
<1>2. CASE buf' = DefaultBufferState
  BY <1>1, <1>2, DefaultOwning DEF Keeps
<1>3. CASE buf' = buf /\ buf.session = 0 /\ buf.starting.client # client
  <2>1. StartsOwned(buf, client, T, lastStart, p) /\ StartsGood(buf, T, lastStart)
    BY DEF Owning, At
  <2> HIDE DEF T
  <2>2. BufferOwns(buf, client)
    BY <2>1 DEF StartsOwned
  <2>3. buf.starting.id = 0 /\ ~buf.started
    BY <1>3, <2>2 DEF BufferOwns
  <2>4. BufferOwns(buf, 0)
    BY <1>3, <2>2, <2>3 DEF BufferOwns
  <2>5. \A x \in T : CallOwned(x, buf, 0)
    BY <2>1, <2>3 DEF CallOwned, StartsGood
  <2>6. StartsOwned(buf, 0, T, lastStart, p)
    BY <2>1, <2>4, <2>5 DEF StartsOwned
  <2>7. Shown(buf, 0, p)
    BY <2>3 DEF Shown
  <2> QED
    BY <1>1, <1>3, <2>6, <2>7 DEF Keeps, T
<1> QED
  BY <1>1, <1>2, <1>3

LEMMA HandleKeeps ==
    ASSUME Sound(buf), NEW w \in Waits, NEW p,
           Owning(buf, w, p), At(buf, w), InSessions(w),
           NEW f \in Frame, NEW z,
           f.type = "reply" => Answering(f, w, z) /\ Replied(f, p),
           f.type = "on_exit" => f.call.client = client /\ client # 0,
           Shown(buf, client, p) \/ (f.type = "kernel_exited" /\ f.call.session = buf.session),
           Handle(f, w)
    PROVE  Keeps(p)
<1>1. CASE f.type = "reply"
  <2>1. Shown(buf, client, p) /\ Answering(f, w, z) /\ Replied(f, p)
    BY <1>1
  <2>2. f.err \in {"ok", "err", "gone"}
    BY DEF Frame
  <2>3. CASE f.call.kind = "open_py" /\ OpenPyReply(f, w)
    BY <2>1, <2>3, OpenPyReplyKeeps
  <2>4. CASE f.call.kind = "start_kernel" /\ StartKernelReply(f, w)
    BY <2>1, <2>4, StartKernelReplyKeeps
  <2>5. CASE f.call.kind = "execute_silent" /\ ExecuteSilentReply(f, w)
    <3>1. \E ok \in BOOLEAN : FinishStart(f.call.start, ok, w)
      BY <2>5 DEF ExecuteSilentReply
    <3>2. f.call.start = buf.starting.id => buf.starting.kind = "start"
      BY <2>1, <2>5 DEF Replied, CallOwned, OfStart, StartKinds
    <3> QED
      BY <2>1, <3>1, <3>2, FinishStartKeeps
  <2>6. CASE f.call.kind = "update_cell_source" /\ UpdateCellSourceReply(f, w)
    BY <2>1, <2>6, UpdateCellSourceReplyKeeps
  <2>7. CASE f.call.kind = "execute" /\ ExecuteReply(f, w)
    <3>1. \E failed \in BOOLEAN : Done(f.call, failed, w)
      BY <2>7 DEF ExecuteReply
    <3> QED
      BY <2>1, <3>1, DoneKeeps
  <2>8. CASE f.call.kind = "stop_kernel" /\ StopKernelReply(f, w)
    BY <2>1, <2>2, <2>8, StopKernelReplyKeeps
  <2>9. CASE CloseReply(w)
    BY <2>1, <2>9, KeepsAlone DEF CloseReply
  <2> QED
    BY <1>1, <2>3, <2>4, <2>5, <2>6, <2>7, <2>8, <2>9 DEF Handle
<1>2. CASE f.type = "kernel_exited" /\ KernelExited(f, w)
  BY <1>2, KernelExitedKeeps
<1>3. CASE f.type = "on_exit" /\ BackendExited(f, w)
  BY <1>3, BackendExitedKeeps
<1> QED
  BY <1>1, <1>2, <1>3 DEF Handle
-----------------------------------------------------------------------------
(* The commands.                                                           *)

LEMMA ShutdownKeeps ==
    ASSUME Sound(buf), NEW w \in Waits, NEW p,
           Owning(buf, w, p), At(buf, w), InSessions(w), client \in 0..MaxClients, Shutdown(w)
    PROVE  Keeps(p)
<1> DEFINE e == DefaultBufferState
           x == CloseCall(client, buf.session)
<1>1. Emit(e, x, w) \/ Leave(e, w)
  BY DEF Shutdown
<1>2. e \in BufferState /\ Owning(e, w, p) /\ Shown(e, client, p) /\ At(e, w)
  <2>1. e \in BufferState /\ e.session = 0
    BY DefaultSound DEF Sound, DefaultBufferState
  <2>2. At(e, w)
    BY <2>1 DEF At, StartsGood, OfStart, StartKinds
  <2> QED
    BY <2>1, <2>2, DefaultOwning DEF Owning
<1>3. x \in Call
  BY BufferFields, CloseCallTyped DEF Sound
<1>4. x.kind = "close" /\ x.stage = "sent"
  BY DEF CloseCall, NoCall
<1> HIDE DEF x, e
<1>5. CASE Emit(e, x, w)
  <2>1. /\ Send(x, w) /\ lastStart' = lastStart /\ client' = client /\ Steady(e, buf')
    BY <1>2, <1>5, SteadyFields DEF Emit
  <2>2. ~OfStart(x)
    BY <1>4 DEF OfStart, StartKinds
  <2> QED
    BY <1>2, <1>3, <1>4, <2>1, <2>2, KeepsOther
<1> QED
  BY <1>1, <1>2, <1>5, KeepsAlone

LEMMA CommandKeeps ==
    ASSUME Sound(buf), NEW w \in Waits, w = Waiting(calls, loop), NEW p,
           Owning(buf, w, p), At(buf, w), InSessions(w), Shown(buf, client, p),
           client \in 0..MaxClients, lastRun \in 0..MaxRuns, Command
    PROVE  Keeps(p)
<1>1. buf \in BufferState
  BY DEF Sound
<1>2. ASSUME NEW n \in Runs, Run(n, w) PROVE Keeps(p)
  <2> DEFINE b == Enqueue(buf, n)
  <2>1. PumpFrom(b, w) \/ \E callback \in BOOLEAN : StartFrom(b, callback, w)
    BY <1>2 DEF Run
  <2>2. b \in BufferState
    <3>1. lastRun + n <= MaxRuns
      BY <1>2 DEF Run
    <3> QED
      BY <3>1, EnqueueSound DEF Sound
  <2>3. Steady(buf, b)
    BY <1>1, SteadyFields
  <2> HIDE DEF b
  <2>4. Owning(b, w, p) /\ At(b, w) /\ Shown(b, client, p)
    BY <2>3, SteadyOwning
  <2> QED
    BY <2>1, <2>2, <2>4, PumpKeeps, StartKeeps
<1>3. ASSUME \E callback \in BOOLEAN : StartFrom(buf, callback, w) PROVE Keeps(p)
  BY <1>1, <1>3, StartKeeps
<1>4. CASE StartKernel(w)
  BY <1>3, <1>4 DEF StartKernel
<1>5. CASE StopKernelCommand(w)
  <2> DEFINE b == Discard(buf)
             e == [b EXCEPT !.starting.waiting = FALSE]
  <2>1. Leave(e, w) \/ Leave(b, w) \/ (b.starting = NoStart /\ StopHeld(b, "stop", w))
    BY <1>5 DEF StopKernelCommand
  <2>2. b \in BufferState /\ Steady(buf, b)
    BY <1>1, DiscardFields, SteadyFields
  <2> HIDE DEF b
  <2>3. Steady(b, e)
    BY <2>2, SteadyFields
  <2> HIDE DEF e
  <2>4. Owning(b, w, p) /\ At(b, w) /\ Shown(b, client, p)
    BY <2>2, SteadyOwning
  <2>5. Owning(e, w, p) /\ Shown(e, client, p)
    BY <2>3, <2>4, SteadyOwning
  <2> QED
    BY <2>1, <2>2, <2>4, <2>5, KeepsAlone, StopHeldKeeps
<1>6. CASE RestartKernel(w)
  <2>1. \/ \E callback \in BOOLEAN : StartFrom(buf, callback, w)
        \/ buf.starting = NoStart /\ StopHeld(buf, "restart", w)
    BY <1>6 DEF RestartKernel
  <2> QED
    BY <1>1, <1>3, <2>1, StopHeldKeeps
<1>7. CASE Shutdown(w)
  BY <1>7, ShutdownKeeps
<1> QED
  BY <1>2, <1>4, <1>5, <1>6, <1>7 DEF Command

-----------------------------------------------------------------------------
(* The steps of the front end.                                             *)

LEMMA ExitsRead ==
    ASSUME NEW q \in Seq(Frame), q # <<>>, NEW s
    PROVE  /\ ExitsAfter(q, 0, s) => ExitOf(Head(q), s) \/ ExitsAfter(Tail(q), 0, s)
           /\ \A i \in Nat : ExitsAfter(q, i + 1, s) => ExitsAfter(Tail(q), i, s)
<1> DEFINE n == Len(q)
<1>1. /\ n \in Nat /\ n >= 1 /\ Head(q) = q[1] /\ Len(Tail(q)) = n - 1
      /\ \A j \in 1..(n - 1) : Tail(q)[j] = q[j + 1]
  OBVIOUS
<1>2. ASSUME NEW i \in Nat, NEW j \in 1..n, i + 1 < j, ExitOf(q[j], s)
      PROVE  ExitsAfter(Tail(q), i, s)
  <2>1. j - 1 \in 1..(n - 1) /\ i < j - 1 /\ (j - 1) + 1 = j
    BY <1>1, <1>2
  <2>2. Tail(q)[j - 1] = q[j]
    BY <1>1, <2>1
  <2> QED
    BY <1>1, <1>2, <2>1, <2>2 DEF ExitsAfter
<1>3. \A i \in Nat : ExitsAfter(q, i + 1, s) => ExitsAfter(Tail(q), i, s)
  BY <1>2 DEF ExitsAfter
<1>4. ASSUME ExitsAfter(q, 0, s), ~ExitOf(Head(q), s)
      PROVE  ExitsAfter(Tail(q), 0, s)
  <2>1. PICK j \in 1..n : 0 < j /\ ExitOf(q[j], s)
    BY <1>4 DEF ExitsAfter
  <2>2. 0 + 1 < j
    BY <1>1, <1>4, <2>1
  <2> QED
    BY <1>2, <2>1, <2>2
<1> QED
  BY <1>3, <1>4

(* The frame read from a pipe was its first.                               *)
LEMMA ReadKept ==
    ASSUME pipe \in [Clients -> Seq(Frame)], NEW c \in Clients, pipe[c] # <<>>,
           NEW p, p = [pipe EXCEPT ![c] = Tail(pipe[c])]
    PROVE  /\ Frames(p) \subseteq Frames(pipe)
           /\ \A T, b : RepliesGood(pipe, T, b) => RepliesGood(p, T, b)
           /\ \A s : Present(s, c, pipe[c], 1) => Present(s, c, p[c], 0)
           /\ \A b : Shown(b, client, pipe) =>
                 Shown(b, client, p) \/ ExitOf(Head(pipe[c]), b.session)
<1> DEFINE q == pipe[c]
           n == Len(q)
<1>1. /\ q \in Seq(Frame) /\ n \in Nat /\ n >= 1 /\ Len(Tail(q)) = n - 1
      /\ \A j \in 1..(n - 1) : Tail(q)[j] = q[j + 1]
  OBVIOUS
<1>2. p[c] = Tail(q) /\ \A d : d # c => p[d] = pipe[d]
  BY DEF Clients
<1> HIDE DEF q, n
<1>3. \A j \in 1..(n - 1) : j + 1 \in 1..n
  BY <1>1
<1>4. ASSUME NEW f \in Frames(p) PROVE f \in Frames(pipe)
  <2>1. PICK d \in Clients : \E j \in 1..Len(p[d]) : f = p[d][j]
    BY InFrames
  <2>2. PICK j \in 1..Len(p[d]) : f = p[d][j]
    BY <2>1
  <2>3. CASE d # c
    BY <1>2, <2>2, <2>3, InFrames
  <2>4. CASE d = c
    <3>1. f = pipe[c][j + 1] /\ j + 1 \in 1..Len(pipe[c])
      BY <1>1, <1>2, <1>3, <2>2, <2>4 DEF q, n
    <3> QED
      BY <3>1, InFrames
  <2> QED
    BY <2>3, <2>4
<1>5. \A s, i : i \in Nat /\ ExitsAfter(q, i + 1, s) => ExitsAfter(p[c], i, s)
  BY <1>1, <1>2, ExitsRead DEF q
<1>6. \A s, i : i \in Nat /\ Present(s, c, q, i + 1) => Present(s, c, p[c], i)
  BY <1>5 DEF Present
<1>7. ASSUME NEW T, NEW b, RepliesGood(pipe, T, b) PROVE RepliesGood(p, T, b)
  <2> SUFFICES ASSUME NEW d \in Clients, NEW i \in 1..Len(p[d]),
                      p[d][i].type = "reply", p[d][i].call \in T
               PROVE  ReplyGood(p[d], i, d, b)
    BY DEF RepliesGood
  <2>1. CASE d # c
    BY <1>2, <1>7, <2>1 DEF RepliesGood
  <2>2. CASE d = c
    <3>1. i \in Nat /\ i + 1 \in 1..n /\ p[c][i] = q[i + 1]
      <4>1. i \in 1..(n - 1)
        BY <1>1, <1>2, <2>2
      <4>2. Tail(q)[i] = q[i + 1]
        BY <1>1, <4>1
      <4>3. i \in Nat /\ i + 1 \in 1..n
        BY <1>1, <1>3, <4>1
      <4> QED
        BY <1>2, <4>2, <4>3
    <3>2. ReplyGood(q, i + 1, c, b)
      BY <1>7, <2>2, <3>1 DEF RepliesGood, q, n
    <3> QED
      BY <1>6, <2>2, <3>1, <3>2 DEF ReplyGood
  <2> QED
    BY <2>1, <2>2
<1>8. \A s : Present(s, c, pipe[c], 1) => Present(s, c, p[c], 0)
  <2>1. 0 \in Nat /\ 0 + 1 = 1
    OBVIOUS
  <2> QED
    BY <1>6, <2>1 DEF q
<1>9. ASSUME NEW b, Shown(b, client, pipe), ~ExitOf(Head(pipe[c]), b.session)
      PROVE  Shown(b, client, p)
  <2>1. CASE client # c
    BY <1>2, <1>9, <2>1 DEF Shown
  <2>2. CASE client = c
    <3>1. ExitsAfter(pipe[c], 0, b.session) => ExitsAfter(p[c], 0, b.session)
      BY <1>1, <1>2, <1>9, ExitsRead DEF q
    <3> QED
      BY <1>9, <2>2, <3>1 DEF Shown, Present
  <2> QED
    BY <2>1, <2>2
<1> QED
  BY <1>4, <1>7, <1>8, <1>9

(* What is owned of all the calls is of some, with fewer frames.           *)
LEMMA OwningNow ==
    ASSUME KInv, SInv, NEW w, NEW p, Frames(p) \subseteq Frames(pipe),
           \A T, b : RepliesGood(pipe, T, b) => RepliesGood(p, T, b),
           Within(Lanes(w.calls, w.loop)) \subseteq Within(Lanes(calls, loop))
    PROVE  Owning(buf, w, p)
<1> DEFINE T == Within(Lanes(calls, loop))
           U == Within(Lanes(w.calls, w.loop))
<1>1. StartsOwned(buf, client, T, lastStart, pipe) /\ U \subseteq T
  BY DEF KInv
<1> HIDE DEF T, U
<1>2. RepliesGood(p, U, buf)
  BY <1>1 DEF StartsOwned, RepliesGood
<1>3. \A f \in Frames(p) : Once(f, buf, U, lastStart)
  BY <1>1 DEF StartsOwned, Once
<1>4. StartsOwned(buf, client, U, lastStart, p)
  BY <1>1, <1>2, <1>3 DEF StartsOwned
<1> QED
  BY <1>4 DEF Owning, SInv, U

LEMMA InSessionsNow ==
    ASSUME IInv, DInv, SInv, NEW w,
           Within(Lanes(w.calls, w.loop)) \subseteq Within(Lanes(calls, loop))
    PROVE  InSessions(w)
<1> SUFFICES ASSUME NEW x \in Within(Lanes(w.calls, w.loop)),
                    x.kind \in {"start_kernel", "stop_kernel"}
             PROVE  x.session # 0
  BY DEF InSessions
<1>1. SessionGood(x, buf, lastStart)
  BY DEF SInv, Sessions
<1>2. StartGood(x, buf, lastStart)
  BY DEF DInv, Good, CallGood
<1>3. lastStart \in Nat
  BY BoundsAssumption DEF IInv, TypeOK
<1>4. x.kind = "stop_kernel" => OfStart(x)
  BY DEF OfStart, StartKinds
<1> QED
  BY <1>1, <1>2, <1>3, <1>4 DEF SessionGood, StartGood

(* The handler of a callback finds what it needs.                          *)
LEMMA CallbackKeeps ==
    ASSUME IInv, DInv, SInv, KInv, Callback
    PROVE  Keeps(pipe')
<1>1. PICK w \in Waits, f \in Frame : \E z : Handles(f, w, z)
  BY CallbackHandles
<1>2. PICK z : Handles(f, w, z)
  BY <1>1
<1>3. /\ Handle(f, w) /\ At(buf, w) /\ Heard(f, w)
      /\ Within(Lanes(w.calls, w.loop)) \subseteq Within(Lanes(calls, loop))
      /\ f.type = "reply" => Answering(f, w, z) /\ f.call \in Within(Lanes(calls, loop))
      /\ f.type = "on_exit" => f.call.client = client /\ client # 0
  BY <1>2 DEF Handles
<1>4. /\ Sound(buf) /\ pipe \in [Clients -> Seq(Frame)] /\ loop \in Seq(Frame)
  BY DEF IInv, TypeOK, BackendTypeOK, ClientTypeOK
<1>5. Shown(buf, client, pipe) /\ StartsOwned(buf, client, Within(Lanes(calls, loop)), lastStart, pipe)
      /\ GoneGood(loop)
  BY DEF KInv
<1>6. InSessions(w)
  BY <1>3, InSessionsNow
<1> DEFINE T == Within(Lanes(calls, loop))
<1> SUFFICES /\ Owning(buf, w, pipe')
             /\ f.type = "reply" => Replied(f, pipe')
             /\ \/ Shown(buf, client, pipe')
                \/ f.type = "kernel_exited" /\ f.call.session = buf.session
  BY <1>3, <1>4, <1>6, HandleKeeps
<1> HIDE DEF T
<1>7. ASSUME Frames(pipe') \subseteq Frames(pipe), f.type = "reply"
      PROVE  /\ CallOwned(f.call, buf, client) /\ OpenGood(f.call)
             /\ \A g \in Frames(pipe') : Once(g, buf, {f.call}, lastStart)
  <2>1. f.call \in T /\ StartsOwned(buf, client, T, lastStart, pipe)
    BY <1>3, <1>5, <1>7 DEF T
  <2> QED
    BY <1>7, <2>1 DEF StartsOwned, Once
<1>8. ASSUME NEW c \in Clients, pipe[c] # <<>>, f = Head(pipe[c]),
             pipe' = [pipe EXCEPT ![c] = Tail(pipe[c])],
             f.type = "reply" => f.call.client = c
      PROVE  /\ Owning(buf, w, pipe')
             /\ f.type = "reply" => Replied(f, pipe')
             /\ \/ Shown(buf, client, pipe')
                \/ f.type = "kernel_exited" /\ f.call.session = buf.session
  <2>1. /\ Frames(pipe') \subseteq Frames(pipe)
        /\ \A U, b : RepliesGood(pipe, U, b) => RepliesGood(pipe', U, b)
        /\ \A s : Present(s, c, pipe[c], 1) => Present(s, c, pipe'[c], 0)
        /\ Shown(buf, client, pipe') \/ ExitOf(f, buf.session)
    BY <1>4, <1>5, <1>8, ReadKept
  <2>2. Owning(buf, w, pipe')
    BY <1>3, <2>1, OwningNow
  <2>3. f = pipe[c][1] /\ 1 \in 1..Len(pipe[c])
    BY <1>4, <1>8
  <2>4. FrameGood(f)
    BY <2>3, InFrames DEF SInv
  <2>5. ASSUME f.type = "reply" PROVE Replied(f, pipe')
    <3>1. f.call \in T /\ StartsOwned(buf, client, T, lastStart, pipe)
      BY <1>3, <1>5, <2>5 DEF T
    <3>2. ReplyGood(pipe[c], 1, c, buf)
      BY <2>3, <2>5, <3>1 DEF StartsOwned, RepliesGood
    <3>3. f.call.kind = "open_py" => f.call.stage = "answered"
      BY <2>4, <2>5 DEF FrameGood
    <3>4. f.call.session = buf.session /\ f.call.client = client =>
            /\ f.call.kind = "stop_kernel" /\ f.err # "ok" => client \in Dead
            /\ f.call.kind = "start_kernel" /\ f.err = "ok" =>
                  Present(buf.session, client, pipe'[client], 0)
      BY <1>8, <2>1, <2>3, <2>5, <3>2 DEF ReplyGood
    <3> QED
      BY <1>7, <2>1, <2>5, <3>3, <3>4 DEF Replied
  <2> QED
    BY <2>1, <2>2, <2>5 DEF ExitOf
<1>9. ASSUME loop # <<>>, f = Head(loop), pipe' = pipe
      PROVE  /\ Owning(buf, w, pipe')
             /\ f.type = "reply" => Replied(f, pipe')
             /\ Shown(buf, client, pipe')
  <2>1. Frames(pipe') = Frames(pipe) /\ Shown(buf, client, pipe')
    BY <1>5, <1>9
  <2>2. Owning(buf, w, pipe')
    BY <1>3, <1>9, <2>1, OwningNow
  <2>3. f = loop[1] /\ 1 \in 1..Len(loop)
    BY <1>4, <1>9
  <2>4. ASSUME f.type = "reply" PROVE Replied(f, pipe')
    <3>1. f.err = "gone"
      BY <2>3, <2>4 DEF DInv, LoopGood
    <3>2. f.call.client \in Clients => f.call.client \in Dead
      BY <1>5, <2>3 DEF GoneGood
    <3> QED
      BY <1>7, <2>1, <2>4, <3>1, <3>2 DEF Replied
  <2> QED
    BY <2>1, <2>2, <2>4
<1> QED
  BY <1>3, <1>8, <1>9 DEF Heard

(* When a step of the front end ends the backends have done nothing.       *)
LEMMA FrontEndStarts ==
    ASSUME IInv, SInv, KInv, UNCHANGED serverVars, NEW w \in Waits,
           w.loop = loop \/ (loop # <<>> /\ w.loop = Tail(loop)),
           Ends(w), Keeps(pipe')
    PROVE  KInv'
<1>1. live' = live /\ slot' = slot /\ kernel' = kernel /\ overtaken' = overtaken
  BY DEF serverVars
<1>2. /\ backend \in [Clients -> {"unborn", "up", "dead"}] /\ loop \in Seq(Frame)
      /\ w.loop \in Seq(Frame)
  BY DEF IInv, TypeOK, BackendTypeOK, ClientTypeOK, Waits
<1>3. Dead' = Dead
  BY <1>2 DEF Ends, Leaves, Forgets, Spawned, Dead
<1>4. GoneGood(w.loop)
  <2>1. GoneGood(loop)
    BY DEF KInv
  <2>2. ASSUME loop # <<>>, NEW j \in 1..Len(Tail(loop))
        PROVE  Tail(loop)[j] = loop[j + 1] /\ j + 1 \in 1..Len(loop)
    BY <1>2, <2>2
  <2> QED
    BY <2>1, <2>2 DEF GoneGood
<1>5. GoneGood(loop')
  <2>1. ASSUME NEW x \in Call, exited[x.client] \/ closed[x.client],
               loop' = Append(w.loop, Reply(x, "gone"))
        PROVE  GoneGood(loop')
    <3> DEFINE g == Reply(x, "gone")
    <3>1. g.call = x
      BY DEF Reply
    <3>2. x.client \in Clients => x.client \in Dead
      BY <2>1 DEF SInv, Processes, Dead
    <3> HIDE DEF g
    <3>3. \A j \in 1..Len(loop') : loop'[j] = g \/ (j \in 1..Len(w.loop) /\ loop'[j] = w.loop[j])
      BY <1>2, <2>1 DEF g
    <3> QED
      BY <1>4, <3>1, <3>2, <3>3 DEF GoneGood
  <2>2. Scheduled(w)
    BY DEF Ends, Leaves, Forgets, Scheduled
  <2> QED
    BY <1>4, <2>1, <2>2 DEF Scheduled
<1>6. GoneGood(loop)'
  BY <1>3, <1>5 DEF GoneGood
<1>7. StartsOwned(buf, client, Within(Lanes(calls, loop)), lastStart, pipe)'
  <2> DEFINE M == Within(Lanes(calls', loop'))
  <2>1. StartsOwned(buf', client', M, lastStart', pipe')
    BY DEF Keeps
  <2>2. \A x : Landed(x) => Landed(x)'
    BY <1>1, <1>3 DEF Landed, There, Reports
  <2>3. \A x : CallOwned(x, buf', client') /\ OpenGood(x) => CallOwned(x, buf, client)' /\ OpenGood(x)'
    BY <1>1, <1>3, <2>2 DEF CallOwned, OpenGood, Unstarted, Ended
  <2> QED
    BY <1>1, <1>3, <2>1, <2>3 DEF StartsOwned, BufferOwns, RepliesGood, ReplyGood, Present,
                                  Reported, Unborn, Ended
<1>8. Shown(buf, client, pipe)'
  BY <1>1, <1>3 DEF Keeps, Shown, Present, Reported
<1>9. (\A s \in Starts : SlotOwned(s))'
  BY <1>1 DEF KInv, SlotOwned
<1> QED
  BY <1>6, <1>7, <1>8, <1>9 DEF KInv

LEMMA UserCommandStarts ==
    ASSUME IInv, DInv, SInv, KInv, UserCommand
    PROVE  KInv'
<1> DEFINE w == Waiting(calls, loop)
<1>1. /\ Sound(buf) /\ lastStart \in 0..MaxStarts /\ client \in 0..MaxClients
      /\ lastRun \in 0..MaxRuns
  BY DEF IInv, TypeOK
<1>2. w \in Waits /\ w.calls = calls /\ w.loop = loop /\ w = Waiting(calls, loop)
  BY WaitingCallsOK DEF Waiting
<1>3. Command /\ UNCHANGED serverVars /\ pipe' = pipe
  BY DEF UserCommand
<1> HIDE DEF w
<1>4. Settled /\ Finds(buf, w, NoCall)
  BY <1>2, SInvSettled DEF SInv, Finds
<1>5. At(buf, w) /\ InSessions(w) /\ Owning(buf, w, pipe) /\ Shown(buf, client, pipe)
  BY <1>2, AtNow, InSessionsNow, OwningNow DEF KInv
<1>6. Ends(w)
  BY <1>1, <1>2, <1>3, <1>4, <1>5, CommandLeaves DEF Ends
<1>7. Keeps(pipe')
  BY <1>1, <1>2, <1>3, <1>5, CommandKeeps
<1> QED
  BY <1>2, <1>3, <1>6, <1>7, FrontEndStarts

LEMMA EventLoopStarts ==
    ASSUME IInv, DInv, SInv, KInv, EventLoop
    PROVE  KInv'
<1>1. Callback /\ UNCHANGED serverVars
  BY DEF EventLoop
<1>2. PICK w \in Waits : /\ w.loop = loop \/ (loop # <<>> /\ w.loop = Tail(loop))
                         /\ Ends(w)
  BY <1>1, CallbackEnds
<1>3. Keeps(pipe')
  BY <1>1, CallbackKeeps
<1> QED
  BY <1>1, <1>2, <1>3, FrontEndStarts

-----------------------------------------------------------------------------
(* The steps of the backend that serve a call.                             *)

(* p is what the pipes hold once g is written to that of c, if it is.      *)
Written(p, c, g) ==
    /\ \A d \in Clients : \A j \in 1..Len(p[d]) :
          \/ j \in 1..Len(pipe[d]) /\ p[d][j] = pipe[d][j]
          \/ d = c /\ p[d][j] = g /\ p # pipe
    /\ \A d \in Clients : \A j, s : ExitsAfter(pipe[d], j, s) => ExitsAfter(p[d], j, s)
    /\ \A f \in Frames(p) : f \in Frames(pipe) \/ (f = g /\ p # pipe)

LEMMA PipeWritten ==
    ASSUME pipe \in [Clients -> Seq(Frame)], NEW c \in Clients, NEW g, NEW p,
           p = pipe \/ p = [pipe EXCEPT ![c] = Append(pipe[c], g)]
    PROVE  Written(p, c, g)
<1>1. CASE p = pipe
  BY <1>1 DEF Written
<1>2. CASE p # pipe
  <2>1. p[c] = Append(pipe[c], g) /\ \A d \in Clients : d # c => p[d] = pipe[d]
    BY <1>2
  <2>2. /\ Len(p[c]) = Len(pipe[c]) + 1 /\ Len(pipe[c]) \in Nat /\ p[c][Len(pipe[c]) + 1] = g
        /\ \A j \in 1..Len(pipe[c]) : p[c][j] = pipe[c][j]
    BY <2>1
  <2>3. ASSUME NEW d \in Clients, NEW j \in 1..Len(p[d])
        PROVE  \/ j \in 1..Len(pipe[d]) /\ p[d][j] = pipe[d][j]
               \/ d = c /\ p[d][j] = g
    <3>1. CASE d # c
      BY <2>1, <3>1
    <3>2. CASE d = c
      <4>1. j \in 1..(Len(pipe[c]) + 1)
        BY <2>2, <3>2
      <4>2. j \in 1..Len(pipe[c]) \/ j = Len(pipe[c]) + 1
        BY <2>2, <4>1
      <4> QED
        BY <2>2, <3>2, <4>2
    <3> QED
      BY <3>1, <3>2
  <2>4. ASSUME NEW d \in Clients, NEW j \in 1..Len(pipe[d])
        PROVE  j \in 1..Len(p[d]) /\ p[d][j] = pipe[d][j]
    <3>1. CASE d # c
      BY <2>1, <3>1
    <3>2. CASE d = c
      BY <2>2, <3>2
    <3> QED
      BY <3>1, <3>2
  <2>5. ASSUME NEW d \in Clients, NEW i, NEW s, ExitsAfter(pipe[d], i, s)
        PROVE  ExitsAfter(p[d], i, s)
    BY <2>4, <2>5 DEF ExitsAfter
  <2>6. ASSUME NEW f \in Frames(p) PROVE f \in Frames(pipe) \/ f = g
    <3>1. PICK d \in Clients : \E j \in 1..Len(p[d]) : f = p[d][j]
      BY InFrames
    <3> QED
      BY <2>3, <3>1, InFrames
  <2> QED
    BY <1>2, <2>3, <2>5, <2>6 DEF Written
<1> QED
  BY <1>1, <1>2

(* Call x of client c has become z, and the others are as they were.       *)
Becomes(x, c, z) ==
    /\ x \in Within(Lanes(calls, loop)) /\ x.client = c
    /\ \A y \in Within(Lanes(calls', loop')) :
          y = z \/ (y \in Within(Lanes(calls, loop)) /\ Apart(x, y))

LEMMA ServedFinds ==
    ASSUME IInv, DInv, SInv, UNCHANGED <<clientVars, frontendVars>>,
           NEW c \in Clients, NEW i \in 1..Len(calls[c]),
           NEW x, x = calls[c][i], NEW z \in Call, Alike(z, x),
           calls' = [calls EXCEPT ![c] = [calls[c] EXCEPT ![i] = z]]
    PROVE  Becomes(x, c, z)
<1> DEFINE L == Lanes(calls, loop)
           M == Lanes(calls', loop')
           s == [calls[c] EXCEPT ![i] = z]
<1>1. loop' = loop /\ calls \in [Clients -> Seq(Call)]
  BY DEF clientVars, IInv, TypeOK, BackendTypeOK
<1>2. c \in 0..MaxClients /\ c # 0 /\ \A d \in 0..MaxClients : d # 0 => d \in Clients
  BY BoundsAssumption DEF Clients
<1>3. L \in AllLanes /\ AllApart(L)
  <2>1. Waiting(calls, loop) \in Waits /\ Waiting(calls, loop).calls = calls
        /\ Waiting(calls, loop).loop = loop
    BY WaitingCallsOK DEF Waiting
  <2> QED
    BY <2>1, LanesTyped DEF DInv
<1>4. L[c] = calls[c] /\ calls' = [calls EXCEPT ![c] = s]
  BY <1>2 DEF Lanes
<1> HIDE DEF s
<1>5. M = [L EXCEPT ![c] = s]
  BY <1>1, <1>2, <1>4 DEF Lanes
<1> HIDE DEF L, M
<1>6. M = [L EXCEPT ![c] = [L[c] EXCEPT ![i] = z]] /\ i \in 1..Len(L[c]) /\ L[c][i] = x
  BY <1>4, <1>5 DEF s
<1>7. x \in Within(L)
  BY <1>2, <1>6, InLanes
<1>8. Alike(z, L[c][i])
  BY <1>6
<1>9. \A y \in Within(M) : y = z \/ (y \in Within(L) /\ Apart(x, y))
  <2>1. \A y \in Within(M) : y = z \/ (y \in Within(L) /\ Apart(L[c][i], y))
    BY <1>2, <1>3, <1>6, <1>8, LaneChanged
  <2> QED
    BY <1>6, <2>1
<1>10. x.client = c
  BY DEF SInv, LanesOwned, CallsOf
<1> QED
  BY <1>7, <1>9, <1>10 DEF L, M, Becomes

(* What is known of a call under way.                                      *)
LEMMA UnderWay ==
    ASSUME IInv, DInv, SInv, KInv, NEW x \in Within(Lanes(calls, loop))
    PROVE  /\ CallOwned(x, buf, client) /\ OpenGood(x) /\ LaunchGood(x)
           /\ SessionGood(x, buf, lastStart) /\ StartGood(x, buf, lastStart)
           /\ ServedGood(x)
           /\ OfStart(x) => x.start \in Starts
           /\ x.kind \in {"start_kernel", "stop_kernel", "close"} => x.session \in Starts
           /\ \A y \in Within(Lanes(calls, loop)) : Clear(x, y) /\ Clear(y, x)
<1>1. StartsOwned(buf, client, Within(Lanes(calls, loop)), lastStart, pipe)
  BY DEF KInv
<1>2. CallOwned(x, buf, client) /\ OpenGood(x)
  BY <1>1 DEF StartsOwned
<1>3. /\ LaunchGood(x) /\ SessionGood(x, buf, lastStart)
      /\ \A y \in Within(Lanes(calls, loop)) : Clear(x, y) /\ Clear(y, x)
  BY DEF SInv, Sessions
<1>4. StartGood(x, buf, lastStart) /\ ServedGood(x)
  BY DEF DInv, Good, CallGood
<1>5. \A s \in 1..lastStart : s \in Starts
  BY BoundsAssumption DEF IInv, TypeOK, Starts
<1>6. OfStart(x) => x.start \in Starts
  BY <1>4, <1>5 DEF StartGood
<1>7. x.kind = "stop_kernel" => OfStart(x)
  BY DEF OfStart, StartKinds
<1>8. x.kind \in {"start_kernel", "stop_kernel", "close"} => x.session \in Starts
  BY <1>3, <1>4, <1>5, <1>7 DEF SessionGood, StartGood
<1> QED
  BY <1>2, <1>3, <1>4, <1>6, <1>8

(* What session s had of a kernel or of its exit it keeps, and a launch in *)
(* it, but for x, what it has put there.                                   *)
Stays(x, s) ==
    /\ \A d \in Clients :
          slot[s] # 0 \/ Reported(s, d) \/ s \in overtaken =>
              slot'[s] # 0 \/ Reported(s, d)' \/ s \in overtaken'
    /\ \A y \in Within(Lanes(calls, loop)) :
          Apart(x, y) /\ y.kind = "start_kernel" /\ y.session = s /\ There(y) => There(y)'

(* What a step of the backend does to the buffer's session.                *)
LEMMA HeldStill ==
    ASSUME IInv, DInv, SInv, KInv, NEW c, NEW x \in Within(Lanes(calls, loop)), Effected(x, c)
    PROVE  buf.session # 0 => buf.session \in Starts /\ live'[buf.session] = live[buf.session]
<1> SUFFICES ASSUME buf.session # 0
             PROVE  buf.session \in Starts /\ live'[buf.session] = live[buf.session]
  OBVIOUS
<1>1. buf.session \in Starts
  BY BufferFields, BoundsAssumption DEF IInv, TypeOK, Starts
<1>2. SessionGood(x, buf, lastStart) /\ StartGood(x, buf, lastStart)
  BY UnderWay
<1>3. x.kind = "close" => x.session # buf.session
  BY <1>2 DEF SessionGood
<1>4. x.kind = "open_py" => x.start # buf.session
  BY <1>2 DEF StartGood, OfStart, StartKinds
<1> QED
  BY <1>1, <1>3, <1>4 DEF Effected

(* A stop in the buffer's session is that in flight, and nothing is        *)
(* launched in the session.                                                *)
LEMMA StopAlone ==
    ASSUME IInv, DInv, SInv, KInv, NEW x \in Within(Lanes(calls, loop)),
           x.kind = "stop_kernel", x.session = buf.session, buf.session \in Starts
    PROVE  /\ Stopping(buf) /\ x.start = buf.starting.id
           /\ client \in Clients /\ x.client = client
           /\ \A y \in Within(Lanes(calls, loop)) :
                 Apart(x, y) => ~(y.kind = "start_kernel" /\ y.session = buf.session)
<1>1. OfStart(x)
  BY DEF OfStart, StartKinds
<1>2. CallOwned(x, buf, client) /\ StartGood(x, buf, lastStart) /\ x.start \in Starts
  BY <1>1, UnderWay
<1>3. x.start = buf.starting.id /\ ~buf.starting.held /\ x.start # 0
  BY <1>1, <1>2 DEF StartGood, Starts
<1>4. x.client = client /\ buf.starting.kind # "start"
  BY <1>1, <1>2, <1>3 DEF CallOwned
<1>5. BufferOwns(buf, client)
  BY DEF KInv, StartsOwned
<1>6. client \in Clients /\ buf.starting.kind \in {"stop", "restart"}
  BY <1>3, <1>4, <1>5 DEF BufferOwns
<1>7. ASSUME NEW y \in Within(Lanes(calls, loop)), Apart(x, y),
             y.kind = "start_kernel", y.session = buf.session
      PROVE  FALSE
  <2>1. SessionGood(y, buf, lastStart) /\ OfStart(y)
    BY <1>7, UnderWay DEF OfStart, StartKinds
  <2> QED
    BY <1>1, <1>3, <1>7, <2>1 DEF SessionGood, Apart
<1> QED
  BY <1>3, <1>4, <1>6, <1>7 DEF Stopping

(* An old frame answers no call that is served now.                        *)
LEMMA OnceServed ==
    ASSUME NEW b, NEW T, NEW U, NEW ls, NEW x \in T, NEW z, Alike(z, x), x.stage # "answered",
           \A y \in U : y = z \/ y \in T, NEW f, Once(f, b, T, ls)
    PROVE  /\ Once(f, b, U, ls)
           /\ f.type = "reply" /\ f.call.kind \in {"start_kernel", "stop_kernel"} => f.call # z
<1>1. /\ z.kind = x.kind /\ z.start = x.start /\ (OfStart(z) <=> OfStart(x))
  BY DEF Alike, OfStart
<1> SUFFICES ASSUME f.type = "reply", f.call.kind \in {"start_kernel", "stop_kernel"}
             PROVE  Once(f, b, U, ls) /\ f.call # z
  BY DEF Once
<1>2. OfStart(f.call)
  BY DEF OfStart, StartKinds
<1>3. f.call # z
  BY <1>1, <1>2 DEF Once
<1>4. \A y \in U : OfStart(y) /\ y.start = f.call.start =>
          y.kind # "open_py" /\ (y.kind = f.call.kind => y.stage = "answered")
  BY <1>1 DEF Once
<1> QED
  BY <1>3, <1>4 DEF Once

(* The i-th call of client c is served, and answered e unless its task     *)
(* only begins.                                                            *)
LEMMA ServedStarts ==
    ASSUME IInv, DInv, SInv, KInv, UNCHANGED <<clientVars, frontendVars>>, backend' = backend,
           NEW c \in Clients, NEW i \in 1..Len(calls[c]), backend[c] = "up",
           NEW x, x = calls[c][i], x.stage # "answered", NEW z \in Call, Alike(z, x),
           calls' = [calls EXCEPT ![c] = [calls[c] EXCEPT ![i] = z]],
           Effected(x, c), x.kind = "open_py" => z.stage = "answered" /\ live'[x.start] = c,
           \A n \in Starts : Ended(n)' => Ended(n),
           buf.session \in Starts =>
               Stays(x, buf.session) \/ (x.kind = "stop_kernel" /\ x.session = buf.session),
           x.stage = "installed" => z.stage = "answered", Landed(z)',
           NEW e,
           \/ pipe' = pipe
           \/ z.stage = "answered" /\ pipe' = [pipe EXCEPT ![c] = Append(pipe[c], Reply(z, e))],
           x.kind = "stop_kernel" /\ e # "ok" => ~HasSession(c, x),
           x.kind = "start_kernel" /\ e = "ok" /\ x.session = buf.session => There(x)',
           \A s \in Starts : SlotOwned(s)'
    PROVE  KInv'
<1>0. Becomes(x, c, z)
  BY ServedFinds
<1> DEFINE L == Lanes(calls, loop)
           M == Lanes(calls', loop')
           g == Reply(z, e)
<1>1. loop' = loop /\ client' = client /\ buf' = buf /\ lastStart' = lastStart /\ Dead' = Dead
  BY DEF clientVars, frontendVars, Dead
<1>2. /\ x \in Within(L) /\ x.client = c
      /\ \A y \in Within(M) : y = z \/ (y \in Within(L) /\ Apart(x, y))
  BY <1>0 DEF Becomes
<1>3. /\ CallOwned(x, buf, client) /\ OpenGood(x)
      /\ SessionGood(x, buf, lastStart) /\ StartGood(x, buf, lastStart)
      /\ OfStart(x) => x.start \in Starts
      /\ x.kind \in {"start_kernel", "stop_kernel", "close"} => x.session \in Starts
  BY <1>2, UnderWay
<1>4. /\ z.kind = x.kind /\ z.client = c /\ z.start = x.start /\ z.session = x.session
      /\ (OfStart(z) <=> OfStart(x))
  BY <1>2 DEF Alike, OfStart
<1>5. pipe \in [Clients -> Seq(Frame)] /\ c \notin Dead
  BY DEF IInv, TypeOK, BackendTypeOK, Dead
<1>6. Written(pipe', c, g) /\ (pipe' # pipe => z.stage = "answered")
  BY <1>5, PipeWritten
<1>7. buf.session # 0 => buf.session \in Starts /\ live'[buf.session] = live[buf.session]
  BY <1>2, HeldStill
<1>8. g.type = "reply" /\ g.call = z /\ g.err = e
  BY DEF Reply
<1>9. /\ StartsOwned(buf, client, Within(L), lastStart, pipe) /\ Shown(buf, client, pipe)
      /\ GoneGood(loop)
  BY DEF KInv
<1> HIDE DEF L, M, g
<1>10. BufferOwns(buf, client) /\ BufferOwns(buf, client)'
  BY <1>1, <1>7, <1>9 DEF StartsOwned, BufferOwns
<1>11. ASSUME NEW y \in Within(L), Apart(x, y) PROVE OpenGood(y)'
  <2>1. OpenGood(y) /\ Clear(x, y) /\ (OfStart(y) => y.start \in Starts)
    BY <1>2, UnderWay DEF L
  <2>2. CASE y.kind = "open_py"
    <3>1. OfStart(y) /\ (x.kind = "open_py" => OfStart(x))
      BY <2>2 DEF OfStart, StartKinds
    <3>2. x.kind = "close" => x.session # y.start
      BY <2>1, <2>2 DEF Clear
    <3>3. x.kind = "open_py" => x.start # y.start
      BY <1>11, <3>1 DEF Apart
    <3>4. live'[y.start] = live[y.start] /\ y.start \in Starts
      BY <2>1, <3>1, <3>2, <3>3 DEF Effected
    <3> QED
      BY <1>1, <2>1, <2>2, <3>4 DEF OpenGood
  <2>3. CASE y.kind # "open_py"
    <3>1. y.kind = "start_kernel" => OfStart(y)
      BY DEF OfStart, StartKinds
    <3> QED
      BY <1>1, <2>1, <2>3, <3>1 DEF OpenGood, Unstarted
  <2> QED
    BY <2>2, <2>3
<1>12. OpenGood(z)'
  <2>1. x.kind \in {"open_py", "start_kernel"} => OfStart(x)
    BY DEF OfStart, StartKinds
  <2>2. z \in Request /\ x \in Request
    BY PendingCall DEF Call
  <2>3. Unstarted(z) => Unstarted(x)
    BY <1>4, <2>2 DEF Unstarted, Request
  <2> QED
    BY <1>1, <1>3, <1>4, <2>1, <2>3 DEF OpenGood, Unstarted
<1>13. \A y \in Within(M) : CallOwned(y, buf, client)' /\ OpenGood(y)'
  <2>1. CallOwned(z, buf, client)'
    BY <1>1, <1>2, <1>3, <1>4 DEF CallOwned
  <2>2. ASSUME NEW y \in Within(L), Apart(x, y) PROVE CallOwned(y, buf, client)'
    <3>1. CallOwned(y, buf, client)
      BY <1>9, <2>2 DEF StartsOwned
    <3> SUFFICES ASSUME OfStart(y), y.start = buf.starting.id, y.kind = "start_kernel",
                        y.stage = "installed"
                 PROVE  There(y)'
      BY <1>1, <3>1 DEF CallOwned, Landed
    <3>2. There(y)
      BY <3>1 DEF CallOwned, Landed
    <3>3. y.session = buf.session /\ buf.session \in Starts
      BY <2>2, UnderWay DEF L, SessionGood
    <3>4. ~(x.kind = "stop_kernel" /\ x.session = buf.session)
      BY <1>2, <2>2, <3>3, StopAlone DEF L
    <3> QED
      BY <2>2, <3>2, <3>3, <3>4 DEF Stays, L
  <2> QED
    BY <1>2, <1>11, <1>12, <2>1, <2>2
<1>14. ASSUME NEW f \in Frames(pipe)
       PROVE  /\ Once(f, buf, Within(M), lastStart)
              /\ f.type = "reply" /\ f.call.kind \in {"start_kernel", "stop_kernel"} => f.call # z
  <2>1. Once(f, buf, Within(L), lastStart)
    BY <1>9 DEF StartsOwned
  <2>2. \A y \in Within(M) : y = z \/ y \in Within(L)
    BY <1>2
  <2> QED
    BY <1>2, <2>1, <2>2, OnceServed
<1>15. z.stage = "answered" => Once(g, buf, Within(M), lastStart)
  <2> SUFFICES ASSUME z.stage = "answered", z.kind \in {"start_kernel", "stop_kernel"}
               PROVE  /\ z.start \in 1..lastStart
                      /\ buf.starting.held => z.start # buf.starting.id
                      /\ \A y \in Within(M) : OfStart(y) /\ y.start = z.start =>
                            y.kind # "open_py" /\ (y.kind = z.kind => y.stage = "answered")
    BY <1>8 DEF Once
  <2>1. OfStart(x)
    BY <1>4 DEF OfStart, StartKinds
  <2>2. \A y \in Within(M) : OfStart(y) /\ y.start = x.start => y = z
    BY <1>2, <2>1 DEF Apart
  <2> QED
    BY <1>3, <1>4, <2>1, <2>2 DEF StartGood
<1>16. \A f \in Frames(pipe') : Once(f, buf, Within(M), lastStart)
  BY <1>6, <1>14, <1>15 DEF Written
<1>17. ASSUME NEW d \in Clients, NEW j, buf.session \in Starts, Stays(x, buf.session),
              Present(buf.session, d, pipe[d], j)
       PROVE  Present(buf.session, d, pipe[d], j)'
  BY <1>1, <1>6, <1>17 DEF Present, Stays, Written
<1>18. ASSUME NEW d \in Clients, NEW j \in 1..Len(pipe'[d]),
              pipe'[d][j].type = "reply", pipe'[d][j].call \in Within(M)
       PROVE  ReplyGood(pipe[d], j, d, buf)'
  <2> DEFINE f == pipe'[d][j]
  <2> SUFFICES ASSUME f.call.session = buf.session, f.call.client = d
               PROVE  /\ f.call.kind = "stop_kernel" /\ f.err # "ok" => d \in Dead
                      /\ f.call.kind = "start_kernel" /\ f.err = "ok" =>
                            Present(buf.session, d, pipe[d], j)'
    BY <1>1 DEF ReplyGood
  <2>1. CASE j \in 1..Len(pipe[d]) /\ f = pipe[d][j]
    <3>1. f \in Frames(pipe)
      BY <2>1, InFrames
    <3> SUFFICES ASSUME f.call.kind \in {"start_kernel", "stop_kernel"}
                 PROVE  /\ f.call.kind = "stop_kernel" /\ f.err # "ok" => d \in Dead
                        /\ f.call.kind = "start_kernel" /\ f.err = "ok" =>
                              Present(buf.session, d, pipe[d], j)'
      OBVIOUS
    <3>2. f.call # z
      BY <1>14, <1>18, <3>1
    <3>3. f.call \in Within(L) /\ Apart(x, f.call)
      BY <1>2, <1>18, <3>2
    <3>4. ReplyGood(pipe[d], j, d, buf)
      BY <1>9, <1>18, <2>1, <3>3 DEF StartsOwned, RepliesGood
    <3>5. f.call.kind = "start_kernel" => buf.session \in Starts
      BY <3>3, UnderWay DEF L
    <3>6. f.call.kind = "start_kernel" => Stays(x, buf.session)
      BY <1>2, <3>3, <3>5, StopAlone DEF L
    <3> HIDE DEF f
    <3> QED
      BY <1>17, <2>1, <3>4, <3>5, <3>6 DEF ReplyGood
  <2>2. CASE d = c /\ f = g /\ pipe' # pipe
    <3>1. f.call = z /\ f.err = e /\ z.session = buf.session
      BY <1>8, <2>2
    <3>2. ~(x.kind = "stop_kernel" /\ e # "ok")
      <4> SUFFICES ASSUME x.kind = "stop_kernel" PROVE HasSession(c, x)
        OBVIOUS
      <4>1. x.session = buf.session /\ buf.session \in Starts
        BY <1>3, <1>4, <3>1
      <4>2. client = c
        BY <1>2, <4>1, StopAlone DEF L
      <4>3. buf.session # 0
        BY <4>1 DEF Starts
      <4> QED
        BY <1>5, <1>10, <4>1, <4>2, <4>3 DEF HasSession, BufferOwns
    <3>3. ASSUME x.kind = "start_kernel", e = "ok"
          PROVE  Present(buf.session, c, pipe[c], j)'
      <4>1. There(x)' /\ x.start \in Starts /\ x.session = buf.session
        BY <1>3, <1>4, <3>1, <3>3 DEF OfStart, StartKinds
      <4>2. x.start # 0
        BY <4>1 DEF Starts
      <4> QED
        BY <1>1, <1>2, <4>1, <4>2 DEF There, Reports, Present, Reported
    <3> HIDE DEF f
    <3> QED
      BY <1>4, <2>2, <3>1, <3>2, <3>3
  <2> HIDE DEF f
  <2> QED
    BY <1>6, <2>1, <2>2 DEF Written, f
<1>19. \A n \in Starts : n > lastStart => Unborn(n)'
  <2> SUFFICES ASSUME NEW n \in Starts, n > lastStart PROVE Unborn(n)'
    OBVIOUS
  <2>1. Unborn(n)
    BY <1>9 DEF StartsOwned
  <2>2. lastStart \in Nat /\ n \in Nat
    BY BoundsAssumption DEF IInv, TypeOK, Starts
  <2>3. x.kind = "open_py" => n # x.start
    BY <1>3, <2>2 DEF StartGood, OfStart, StartKinds
  <2>4. live'[n] \in {live[n], 0}
    BY <2>3 DEF Effected
  <2> QED
    BY <2>1, <2>4 DEF Unborn
<1>20. Shown(buf, client, pipe)'
  <2> SUFFICES ASSUME buf.started, ~Stopping(buf) PROVE Present(buf.session, client, pipe[client], 0)'
    BY <1>1 DEF Shown
  <2>1. buf.session # 0 /\ buf.session \in Starts /\ client \in Clients
    BY <1>7, <1>10 DEF BufferOwns
  <2>2. Stays(x, buf.session)
    BY <1>2, <2>1, StopAlone DEF L
  <2> QED
    BY <1>1, <1>9, <1>17, <2>1, <2>2 DEF Shown
<1>21. StartsOwned(buf, client, Within(L), lastStart, pipe)'
  <2>1. \A y \in Within(M) : CallOwned(y, buf, client)' /\ OpenGood(y)'
    BY <1>13
  <2>2. (\A d \in Clients : \A j \in 1..Len(pipe'[d]) :
             pipe'[d][j].type = "reply" /\ pipe'[d][j].call \in Within(M) =>
                 ReplyGood(pipe[d], j, d, buf)')
    BY <1>18
  <2>3. (\A f \in Frames(pipe') : Once(f, buf', Within(M), lastStart'))
    BY <1>1, <1>16
  <2>4. (\A n \in Starts : n > lastStart' => Unborn(n)')
    BY <1>1, <1>19
  <2> QED
    BY <1>10, <2>1, <2>2, <2>3, <2>4 DEF StartsOwned, RepliesGood, L, M
<1>22. GoneGood(loop)'
  BY <1>1, <1>9 DEF GoneGood
<1>23. (\A s \in Starts : SlotOwned(s))'
  OBVIOUS
<1> QED
  BY <1>20, <1>21, <1>22, <1>23 DEF KInv, L

LEMMA AnswerStarts ==
    ASSUME IInv, DInv, SInv, KInv, UNCHANGED <<clientVars, frontendVars>>, backend' = backend,
           NEW c \in Clients, NEW i \in 1..Len(calls[c]), backend[c] = "up",
           NEW x, x = calls[c][i], x.stage # "answered", NEW e, Answer(c, i, e),
           Effected(x, c), x.kind = "open_py" => live'[x.start] = c,
           \A n \in Starts : Ended(n)' => Ended(n),
           buf.session \in Starts =>
               Stays(x, buf.session) \/ (x.kind = "stop_kernel" /\ x.session = buf.session),
           x.kind = "stop_kernel" /\ e # "ok" => ~HasSession(c, x),
           x.kind = "start_kernel" /\ e = "ok" /\ x.session = buf.session => There(x)',
           \A s \in Starts : SlotOwned(s)'
    PROVE  KInv'
<1> DEFINE z == [x EXCEPT !.stage = "answered"]
<1>1. x \in Call
  BY PendingCall
<1>2. z \in Call /\ Alike(z, x) /\ z.stage = "answered"
  BY <1>1, StageFields
<1>3. /\ calls' = [calls EXCEPT ![c] = [calls[c] EXCEPT ![i] = z]]
      /\ pipe' = [pipe EXCEPT ![c] = Append(pipe[c], Reply(z, e))]
  BY DEF Answer
<1>4. Landed(z)'
  BY <1>2 DEF Landed
<1> HIDE DEF z
<1> QED
  BY <1>2, <1>3, <1>4, ServedStarts

LEMMA QuietStays ==
    ASSUME slot' = slot, kernel' = kernel, overtaken' = overtaken, Dead' = Dead
    PROVE  /\ \A x, s : Stays(x, s)
           /\ \A x : There(x) => There(x)'
BY DEF Stays, Reported, There, Reports

(* A launch in the buffer's session that is not answered is there.         *)
LEMMA LaunchedThere ==
    ASSUME IInv, DInv, SInv, KInv, NEW c \in Clients, NEW i \in 1..Len(calls[c]),
           NEW x, x = calls[c][i], x.kind = "start_kernel", x.stage = "installed",
           x.session = buf.session
    PROVE  There(x)
<1>1. x \in Within(Lanes(calls, loop))
  <2>1. c \in 0..MaxClients /\ Lanes(calls, loop)[c] = calls[c]
    BY BoundsAssumption DEF Clients, Lanes
  <2> QED
    BY <2>1, InLanes
<1>2. CallOwned(x, buf, client) /\ SessionGood(x, buf, lastStart) /\ OfStart(x)
  BY <1>1, UnderWay DEF OfStart, StartKinds
<1> QED
  BY <1>2 DEF CallOwned, SessionGood, Landed

(* A call whose service starts and ends no kernel or session.              *)
LEMMA QuietStarts ==
    ASSUME IInv, DInv, SInv, KInv, UNCHANGED <<clientVars, frontendVars>>, backend' = backend,
           NEW c \in Clients, NEW i \in 1..Len(calls[c]), backend[c] = "up",
           NEW x, x = calls[c][i], x.stage # "answered", x.kind # "open_py",
           UNCHANGED <<live, slot, kernel, overtaken>>, NEW e,
           e # "ok" \/ x.kind # "start_kernel" \/ x.stage = "installed",
           x.kind = "stop_kernel" /\ e # "ok" => ~HasSession(c, x),
           \/ Answer(c, i, e)
           \/ \E z \in Call : /\ Alike(z, x) /\ x.stage = "sent" /\ z.stage = "begun"
                              /\ calls' = [calls EXCEPT ![c] = [calls[c] EXCEPT ![i] = z]]
                              /\ pipe' = pipe
    PROVE  KInv'
<1>1. Effected(x, c)
  BY DEF Effected
<1>2. Stays(x, buf.session) /\ Dead' = Dead /\ \A y : There(y) => There(y)'
  <2>1. Dead' = Dead
    BY DEF Dead
  <2> QED
    BY <2>1, QuietStays
<1>3. \A s \in Starts : SlotOwned(s)'
  BY DEF KInv, SlotOwned
<1>4. \A n \in Starts : Ended(n)' => Ended(n)
  BY DEF Ended
<1>5. CASE Answer(c, i, e)
  <2>1. x.kind = "start_kernel" /\ e = "ok" /\ x.session = buf.session => There(x)'
    BY <1>2, LaunchedThere
  <2> QED
    BY <1>1, <1>2, <1>3, <1>4, <1>5, <2>1, AnswerStarts
<1>6. ASSUME NEW z \in Call, Alike(z, x), x.stage = "sent", z.stage = "begun", pipe' = pipe,
             calls' = [calls EXCEPT ![c] = [calls[c] EXCEPT ![i] = z]]
      PROVE  KInv'
  <2> DEFINE f == "err"
  <2>1. f # "ok" /\ Landed(z)'
    BY <1>6 DEF Landed
  <2> QED
    BY <1>1, <1>2, <1>3, <1>4, <1>6, <2>1, ServedStarts
<1> QED
  BY <1>5, <1>6

LEMMA OpenPyStarts ==
    ASSUME IInv, DInv, SInv, KInv, UNCHANGED <<clientVars, frontendVars>>,
           NEW c \in Clients, NEW i \in 1..Len(calls[c]), OpenPy(c, i)
    PROVE  KInv'
<1> DEFINE x == calls[c][i]
<1>1. /\ x.kind = "open_py" /\ x.stage = "sent" /\ backend[c] = "up" /\ Answer(c, i, "ok")
      /\ live' = [live EXCEPT ![x.start] = c]
      /\ backend' = backend /\ slot' = slot /\ kernel' = kernel /\ overtaken' = overtaken
  BY DEF OpenPy, Pending
<1>2. live \in [Starts -> 0..MaxClients]
  BY DEF IInv, TypeOK, BackendTypeOK
<1>3. x \in Within(Lanes(calls, loop))
  <2>1. c \in 0..MaxClients /\ Lanes(calls, loop)[c] = calls[c]
    BY BoundsAssumption DEF Clients, Lanes
  <2> QED
    BY <2>1, InLanes
<1>4. x.start \in Starts /\ live[x.start] = 0
  <2>1. OpenGood(x) /\ (OfStart(x) => x.start \in Starts)
    BY <1>3, UnderWay
  <2> QED
    BY <1>1, <2>1 DEF OpenGood, OfStart, StartKinds
<1>5. Effected(x, c) /\ live'[x.start] = c
  BY <1>1, <1>2, <1>4 DEF Effected
<1>6. \A s \in Starts : SlotOwned(s)'
  <2> SUFFICES ASSUME NEW s \in Starts PROVE SlotOwned(s)'
    OBVIOUS
  <2>1. SlotOwned(s)
    BY DEF KInv
  <2>2. CASE s = x.start
    BY <1>1, <1>4, <2>1, <2>2 DEF SlotOwned
  <2>3. CASE s # x.start
    <3>1. live'[s] = live[s]
      BY <1>1, <1>2, <2>3
    <3> QED
      BY <1>1, <2>1, <3>1 DEF SlotOwned
  <2> QED
    BY <2>2, <2>3
<1>7. Stays(x, buf.session)
  <2>1. Dead' = Dead
    BY <1>1 DEF Dead
  <2> QED
    BY <1>1, <2>1, QuietStays
<1> HIDE DEF x
<1>8. x = calls[c][i]
  BY DEF x
<1>9. x.stage # "answered" /\ x.kind \notin {"stop_kernel", "start_kernel"}
      /\ \A n \in Starts : Ended(n)' => Ended(n)
  BY <1>1 DEF Ended
<1> QED
  BY <1>1, <1>5, <1>6, <1>7, <1>8, <1>9, AnswerStarts

(* A kernel that is killed is not noticed to have exited.                  *)
LEMMA KilledKernels ==
    ASSUME IInv, NEW k, NEW n \in Starts
    PROVE  /\ Kill(k)[n].session = kernel[n].session /\ Kill(k)[n].client = kernel[n].client
           /\ Kill(k)[n].st \in {"exited", "reporting"} => Ended(n)
           /\ n # k => Kill(k)[n] = kernel[n]
<1>1. kernel \in [Starts -> KernelRecord]
  BY DEF IInv, TypeOK, BackendTypeOK
<1>2. CASE k \in Starts
  <2> DEFINE t == IF kernel[k].st = "exited" THEN "exited" ELSE "gone"
             g == [kernel[k] EXCEPT !.st = t]
  <2>1. /\ g.session = kernel[k].session /\ g.client = kernel[k].client
        /\ g.st \in {"exited", "reporting"} => Ended(k)
    BY <1>1, <1>2 DEF KernelRecord, Ended
  <2>2. Kill(k) = [kernel EXCEPT ![k] = g]
    BY <1>2 DEF Kill
  <2> HIDE DEF g
  <2> QED
    BY <1>1, <2>1, <2>2 DEF Ended
<1>3. CASE k \notin Starts
  BY <1>3 DEF Kill, Ended
<1> QED
  BY <1>2, <1>3

(* Killing the kernel of another session leaves that of s.                 *)
LEMMA KilledStays ==
    ASSUME IInv, DInv, NEW x, NEW s \in Starts, NEW t \in Starts, s # t, slot'[s] = slot[s],
           \A n \in Starts : kernel[n].st = "reporting" => kernel'[n] = Kill(slot[t])[n],
           Dead' = Dead, s \in overtaken => s \in overtaken',
           \A y \in Within(Lanes(calls, loop)) : y.kind = "start_kernel" => y.start \in Starts
    PROVE  Stays(x, s)
<1>1. ASSUME NEW k \in Starts, kernel[k].st = "reporting", kernel[k].session = s
      PROVE  kernel'[k] = kernel[k]
  <2>1. slot[t] # 0 => kernel[slot[t]].session = t
    BY DEF DInv, SlotsGood
  <2>2. k # slot[t]
    BY <1>1, <2>1 DEF Starts
  <2> QED
    BY <1>1, <2>2, KilledKernels
<1>2. ASSUME NEW d \in Clients, Reported(s, d) PROVE Reported(s, d)'
  <2>1. PICK k \in Starts : /\ kernel[k].st = "reporting" /\ kernel[k].session = s
                            /\ kernel[k].client = d
    BY <1>2 DEF Reported
  <2> QED
    BY <1>1, <2>1 DEF Reported
<1>3. ASSUME NEW y \in Within(Lanes(calls, loop)), y.kind = "start_kernel", y.session = s, There(y)
      PROVE  There(y)'
  <2>1. Reports(y) => Reports(y)'
    BY <1>1, <1>3 DEF Reports
  <2> QED
    BY <1>3, <2>1 DEF There
<1> QED
  BY <1>2, <1>3 DEF Stays

(* The start of a launch under way.                                        *)
LEMMA LaunchStarts ==
    ASSUME IInv, DInv, SInv, KInv
    PROVE  \A y \in Within(Lanes(calls, loop)) : y.kind = "start_kernel" => y.start \in Starts
BY UnderWay DEF OfStart, StartKinds

(* The kernel of session t is killed and leaves its slot.                  *)
LEMMA KilledOwned ==
    ASSUME IInv, KInv, NEW t \in Starts, slot' = [slot EXCEPT ![t] = 0], kernel' = Kill(slot[t]),
           \A s \in Starts : s # t => live'[s] = live[s]
    PROVE  \A s \in Starts : SlotOwned(s)'
<1> SUFFICES ASSUME NEW s \in Starts PROVE SlotOwned(s)'
  OBVIOUS
<1>1. slot \in [Starts -> 0..MaxStarts] /\ SlotOwned(s)
  BY DEF IInv, TypeOK, BackendTypeOK, KInv
<1>2. CASE s = t
  BY <1>1, <1>2 DEF SlotOwned
<1>3. CASE s # t
  <2>1. slot'[s] = slot[s] /\ live'[s] = live[s]
    BY <1>1, <1>3
  <2>2. slot[s] # 0 => slot[s] \in Starts
    BY <1>1, BoundsAssumption DEF Starts
  <2>3. slot[s] # 0 => kernel'[slot[s]].client = kernel[slot[s]].client
    BY <2>2, KilledKernels
  <2> QED
    BY <1>1, <2>1, <2>3 DEF SlotOwned
<1> QED
  BY <1>2, <1>3

LEMMA CloseStarts ==
    ASSUME IInv, DInv, SInv, KInv, UNCHANGED <<clientVars, frontendVars>>,
           NEW c \in Clients, NEW i \in 1..Len(calls[c]), Close(c, i)
    PROVE  KInv'
<1> DEFINE x == calls[c][i]
<1>1. /\ x.kind = "close" /\ x.stage = "sent" /\ backend[c] = "up" /\ Answer(c, i, "ok")
      /\ backend' = backend /\ overtaken' = overtaken /\ Dead' = Dead
  BY DEF Close, Pending, Dead
<1>2. /\ live \in [Starts -> 0..MaxClients] /\ slot \in [Starts -> 0..MaxStarts]
  BY DEF IInv, TypeOK, BackendTypeOK
<1>3. x \in Within(Lanes(calls, loop))
  <2>1. c \in 0..MaxClients /\ Lanes(calls, loop)[c] = calls[c]
    BY BoundsAssumption DEF Clients, Lanes
  <2> QED
    BY <2>1, InLanes
<1>4. x.session # buf.session
  BY <1>1, <1>3, UnderWay DEF SessionGood
<1>5. CASE HasSession(c, x)
  <2>1. /\ live' = [live EXCEPT ![x.session] = 0] /\ slot' = [slot EXCEPT ![x.session] = 0]
        /\ kernel' = Kill(slot[x.session]) /\ x.session \in Starts
    BY <1>5 DEF Close, HasSession
  <2>2. Effected(x, c) /\ \A s \in Starts : s # x.session => live'[s] = live[s]
    BY <1>1, <1>2, <2>1 DEF Effected
  <2>3. \A s \in Starts : SlotOwned(s)'
    BY <2>1, <2>2, KilledOwned
  <2>4. buf.session \in Starts => Stays(x, buf.session)
    BY <1>1, <1>2, <1>4, <2>1, KilledStays, LaunchStarts
  <2>5. \A n \in Starts : Ended(n)' => Ended(n)
    BY <2>1, KilledKernels DEF Ended
  <2> HIDE DEF x
  <2>6. x = calls[c][i] /\ x.stage # "answered"
        /\ x.kind \notin {"stop_kernel", "start_kernel", "open_py"}
    BY <1>1 DEF x
  <2> QED
    BY <1>1, <2>2, <2>3, <2>4, <2>5, <2>6, AnswerStarts
<1>6. CASE ~HasSession(c, x)
  <2>1. UNCHANGED <<live, slot, kernel>>
    BY <1>6 DEF Close
  <2> HIDE DEF x
  <2>2. x = calls[c][i] /\ x.stage # "answered"
        /\ x.kind \notin {"stop_kernel", "start_kernel", "open_py"}
    BY <1>1 DEF x
  <2> QED
    BY <1>1, <2>1, <2>2, QuietStarts
<1> QED
  BY <1>5, <1>6

LEMMA StopKernelStarts ==
    ASSUME IInv, DInv, SInv, KInv, UNCHANGED <<clientVars, frontendVars>>,
           NEW c \in Clients, NEW i \in 1..Len(calls[c]), StopKernel(c, i)
    PROVE  KInv'
<1> DEFINE x == calls[c][i]
<1>1. /\ x.kind = "stop_kernel" /\ x.stage = "sent" /\ backend[c] = "up" /\ backend' = backend
      /\ live' = live /\ overtaken' = overtaken /\ Dead' = Dead
  BY DEF StopKernel, Pending, Dead
<1>2. slot \in [Starts -> 0..MaxStarts]
  BY DEF IInv, TypeOK, BackendTypeOK
<1>3. CASE HasSession(c, x)
  <2>1. /\ slot' = [slot EXCEPT ![x.session] = 0]
        /\ kernel' = Kill(slot[x.session]) /\ x.session \in Starts /\ Answer(c, i, "ok")
    BY <1>3 DEF StopKernel, HasSession
  <2>2. Effected(x, c)
    BY <1>1 DEF Effected
  <2>3. \A s \in Starts : SlotOwned(s)'
    BY <1>1, <2>1, KilledOwned
  <2>4. buf.session \in Starts /\ x.session # buf.session => Stays(x, buf.session)
    BY <1>1, <1>2, <2>1, KilledStays, LaunchStarts
  <2>5. \A n \in Starts : Ended(n)' => Ended(n)
    BY <2>1, KilledKernels DEF Ended
  <2> HIDE DEF x
  <2>6. x = calls[c][i] /\ x.stage # "answered" /\ x.kind \notin {"start_kernel", "open_py"}
    BY <1>1 DEF x
  <2> QED
    BY <1>1, <2>1, <2>2, <2>3, <2>4, <2>5, <2>6, AnswerStarts
<1>4. CASE ~HasSession(c, x)
  <2>1. UNCHANGED <<live, slot, kernel>> /\ Answer(c, i, "err")
    BY <1>1, <1>4 DEF StopKernel
  <2>2. ~HasSession(c, x)
    BY <1>4
  <2> HIDE DEF x
  <2>3. x = calls[c][i] /\ x.stage # "answered" /\ x.kind \notin {"start_kernel", "open_py"}
    BY <1>1 DEF x
  <2> QED
    BY <1>1, <2>1, <2>2, <2>3, QuietStarts
<1> QED
  BY <1>3, <1>4

LEMMA InstallStarts ==
    ASSUME IInv, DInv, SInv, KInv, UNCHANGED <<clientVars, frontendVars>>,
           NEW c \in Clients, NEW i \in 1..Len(calls[c]), StartKernelInstall(c, i)
    PROVE  KInv'
<1>0. PICK x : x = calls[c][i]
  OBVIOUS
<1> DEFINE h == [st |-> "running", session |-> x.session, client |-> c]
           g == Kill(slot[x.session])
           z == [x EXCEPT !.stage = "installed"]
<1>1. /\ x.kind = "start_kernel" /\ x.stage = "begun" /\ backend[c] = "up"
      /\ backend' = backend /\ live' = live /\ pipe' = pipe
      /\ calls' = [calls EXCEPT ![c] = [calls[c] EXCEPT ![i] = z]]
      /\ overtaken' = overtaken \ {x.session} /\ Dead' = Dead
      /\ slot' = [slot EXCEPT ![x.session] = x.start]
      /\ kernel' = [g EXCEPT ![x.start] = h]
  BY <1>0 DEF StartKernelInstall, Pending, Dead
<1>2. slot \in [Starts -> 0..MaxStarts] /\ kernel \in [Starts -> KernelRecord]
  BY DEF IInv, TypeOK, BackendTypeOK
<1>3. x \in Within(Lanes(calls, loop))
  <2>1. c \in 0..MaxClients /\ Lanes(calls, loop)[c] = calls[c]
    BY BoundsAssumption DEF Clients, Lanes
  <2> QED
    BY <1>0, <2>1, InLanes
<1>4. /\ OpenGood(x) /\ LaunchGood(x) /\ ServedGood(x)
      /\ OfStart(x) => x.start \in Starts
      /\ x.kind \in {"start_kernel", "stop_kernel", "close"} => x.session \in Starts
  BY <1>3, UnderWay
<1>5. /\ x.start \in Starts /\ x.session \in Starts /\ x.start # 0
      /\ ~Ended(x.start) /\ \A s \in Starts : slot[s] # x.start
  BY <1>1, <1>4 DEF OfStart, StartKinds, OpenGood, ServedGood, Unstarted, Fresh, Starts
<1>6. live[x.session] = c /\ c # 0
  <2>1. x.client = c
    BY <1>0 DEF SInv, LanesOwned, CallsOf
  <2> QED
    BY <1>1, <1>4, <2>1 DEF LaunchGood, Clients
<1>7. DOMAIN g = Starts
  BY <1>2 DEF Kill
<1>8. ASSUME NEW n \in Starts
      PROVE  /\ g[n].client = kernel[n].client
             /\ g[n].st \in {"exited", "reporting"} => Ended(n)
  BY KilledKernels
<1>9. h.st = "running" /\ h.client = c
  OBVIOUS
<1>10. \A s \in Starts : kernel[s].st = "reporting" => s # x.start
  BY <1>5 DEF Ended
<1>11. ASSUME buf.session \in Starts, \A n \in Starts : n # x.start => kernel'[n] = g[n]
       PROVE  Stays(x, buf.session)
  <2>1. CASE buf.session = x.session
    <3>1. slot'[buf.session] # 0
      BY <1>1, <1>2, <1>5, <2>1
    <3>2. ASSUME NEW y \in Within(Lanes(calls, loop)), Apart(x, y), y.kind = "start_kernel"
          PROVE  y.session # buf.session
      <4>1. Clear(x, y) /\ OfStart(x) /\ OfStart(y)
        BY <1>1, <1>3, <3>2, UnderWay DEF OfStart, StartKinds
      <4> QED
        BY <1>1, <2>1, <3>2, <4>1 DEF Clear, Apart
    <3> QED
      BY <3>1, <3>2 DEF Stays
  <2>2. CASE buf.session # x.session
    <3>1. slot'[buf.session] = slot[buf.session]
      BY <1>1, <1>2, <1>11, <2>2
    <3>2. \A n \in Starts : kernel[n].st = "reporting" => kernel'[n] = Kill(slot[x.session])[n]
      BY <1>10, <1>11
    <3>3. buf.session \in overtaken => buf.session \in overtaken'
      BY <1>1, <2>2
    <3> QED
      BY <1>1, <1>5, <1>11, <2>2, <3>1, <3>2, <3>3, KilledStays, LaunchStarts
  <2> QED
    BY <2>1, <2>2
<1> HIDE DEF g, h
<1>12. kernel'[x.start] = h /\ \A n \in Starts : n # x.start => kernel'[n] = g[n]
  BY <1>1, <1>5, <1>7
<1>13. \A n \in Starts : Ended(n)' => Ended(n)
  BY <1>8, <1>9, <1>12 DEF Ended
<1>14. \A s \in Starts : SlotOwned(s)'
  <2> SUFFICES ASSUME NEW s \in Starts PROVE SlotOwned(s)'
    OBVIOUS
  <2>1. CASE s = x.session
    <3>1. slot'[s] = x.start
      BY <1>1, <1>2, <2>1
    <3> QED
      BY <1>1, <1>6, <1>9, <1>12, <2>1, <3>1 DEF SlotOwned
  <2>2. CASE s # x.session
    <3>1. slot'[s] = slot[s] /\ slot[s] # x.start /\ (slot[s] # 0 => slot[s] \in Starts)
      BY <1>1, <1>2, <1>5, <2>2, BoundsAssumption DEF Starts
    <3>2. SlotOwned(s)
      BY DEF KInv
    <3> QED
      BY <1>1, <1>8, <1>12, <3>1, <3>2 DEF SlotOwned
  <2> QED
    BY <2>1, <2>2
<1>15. Effected(x, c) /\ z \in Call /\ Alike(z, x)
  BY <1>0, <1>1, PendingCall, StageFields DEF Effected
<1> HIDE DEF z
<1>16. Landed(z)'
  <2>1. slot'[x.session] = x.start
    BY <1>1, <1>2, <1>5
  <2>2. slot'[z.session] = z.start
    BY <1>15, <2>1 DEF Alike
  <2> QED
    BY <2>2 DEF Landed, There
<1> DEFINE f == "err"
<1>17. f # "ok"
  OBVIOUS
<1> QED
  BY <1>0, <1>1, <1>11, <1>12, <1>13, <1>14, <1>15, <1>16, <1>17, ServedStarts

LEMMA LookupStarts ==
    ASSUME IInv, DInv, SInv, KInv, UNCHANGED <<clientVars, frontendVars>>,
           NEW c \in Clients, NEW i \in 1..Len(calls[c]),
           StartKernelLookup(c, i) \/ ExecuteLookup(c, i)
    PROVE  KInv'
<1> DEFINE x == calls[c][i]
<1>1. /\ x \in Call /\ source \in [Starts -> 0..MaxRuns]
  BY PendingCall DEF IInv, TypeOK, BackendTypeOK
<1>2. /\ UNCHANGED <<live, slot, kernel, overtaken>> /\ backend' = backend /\ backend[c] = "up"
      /\ x.kind \in {"start_kernel", "execute"} /\ x.stage = "sent"
  BY DEF StartKernelLookup, ExecuteLookup, Pending, serverVars
<1>3. \/ Answer(c, i, "err")
      \/ \E z \in Call : /\ Alike(z, x) /\ x.stage = "sent" /\ z.stage = "begun"
                         /\ calls' = [calls EXCEPT ![c] = [calls[c] EXCEPT ![i] = z]]
                         /\ pipe' = pipe
  <2>1. CASE StartKernelLookup(c, i) /\ ~Answer(c, i, "err")
    <3> DEFINE z == [x EXCEPT !.stage = "begun"]
    <3>1. z \in Call /\ Alike(z, x) /\ z.stage = "begun"
      BY <1>1, StageFields
    <3>2. calls' = [calls EXCEPT ![c] = [calls[c] EXCEPT ![i] = z]] /\ pipe' = pipe
      BY <2>1 DEF StartKernelLookup
    <3> HIDE DEF z
    <3> QED
      BY <1>2, <3>1, <3>2
  <2>2. CASE ExecuteLookup(c, i) /\ ~Answer(c, i, "err")
    <3> DEFINE z == [x EXCEPT !.stage = "begun", !.source = source[x.session]]
    <3>1. x.session \in Starts
      BY <2>2 DEF ExecuteLookup, HasSession
    <3>2. calls' = [calls EXCEPT ![c] = [calls[c] EXCEPT ![i] = z]] /\ pipe' = pipe
      BY <2>2 DEF ExecuteLookup
    <3>3. source[x.session] \in 0..MaxRuns
      BY <1>1, <3>1
    <3>4. x \in Request /\ x.kind = "execute" /\ x.run # 0
      BY <1>1, <2>2 DEF Call, ExecuteLookup, Pending
    <3>5. z \in Request /\ Alike(z, x) /\ z.kind = "execute" /\ z.stage = "begun"
      BY <3>3, <3>4 DEF Request, Alike
    <3>6. z \in Call
      BY <3>4, <3>5 DEF Call, Alike
    <3> HIDE DEF z
    <3> QED
      BY <1>2, <3>2, <3>5, <3>6
  <2> QED
    BY <2>1, <2>2
<1> HIDE DEF x
<1>4. x = calls[c][i] /\ x.stage # "answered" /\ x.kind \notin {"stop_kernel", "open_py"}
  BY <1>2 DEF x
<1>5. \E e : e # "ok" /\ (\/ Answer(c, i, e)
                          \/ \E z \in Call :
                                /\ Alike(z, x) /\ x.stage = "sent" /\ z.stage = "begun"
                                /\ calls' = [calls EXCEPT ![c] = [calls[c] EXCEPT ![i] = z]]
                                /\ pipe' = pipe)
  <2> DEFINE e == "err"
  <2>1. e # "ok"
    OBVIOUS
  <2> QED
    BY <1>3, <2>1
<1> QED
  BY <1>2, <1>4, <1>5, QuietStarts

LEMMA ServeStarts ==
    ASSUME IInv, DInv, SInv, KInv, UNCHANGED <<clientVars, frontendVars>>,
           NEW c \in Clients, Serve(c)
    PROVE  KInv'
<1>1. PICK i \in 1..Len(calls[c]) :
          \/ OpenPy(c, i) \/ Close(c, i) \/ StartKernelInstall(c, i) \/ StopKernel(c, i)
          \/ StartKernelLookup(c, i) \/ ExecuteLookup(c, i)
          \/ StartKernelDone(c, i) \/ StartKernelFails(c, i) \/ UpdateCellSource(c, i)
          \/ ExecuteSend(c, i) \/ ExecuteSilent(c, i)
  BY DEF Serve
<1>2. CASE OpenPy(c, i) \/ Close(c, i) \/ StartKernelInstall(c, i) \/ StopKernel(c, i)
  BY <1>2, OpenPyStarts, CloseStarts, InstallStarts, StopKernelStarts
<1>3. CASE StartKernelLookup(c, i) \/ ExecuteLookup(c, i)
  BY <1>3, LookupStarts
<1>4. CASE \/ StartKernelDone(c, i) \/ StartKernelFails(c, i) \/ UpdateCellSource(c, i)
           \/ ExecuteSend(c, i) \/ ExecuteSilent(c, i)
  <2> DEFINE x == calls[c][i]
  <2>1. /\ x.kind \notin {"open_py", "stop_kernel"} /\ backend[c] = "up" /\ x.stage # "answered"
        /\ backend' = backend /\ UNCHANGED <<live, slot, kernel, overtaken>>
    BY <1>4 DEF StartKernelDone, StartKernelFails, UpdateCellSource, ExecuteSend, ExecuteSilent,
                Pending, serverVars
  <2>2. \E e : /\ Answer(c, i, e)
               /\ e # "ok" \/ x.kind # "start_kernel" \/ x.stage = "installed"
    <3>1. CASE StartKernelFails(c, i)
      <4> DEFINE e == "err"
      <4>1. Answer(c, i, e) /\ e # "ok"
        BY <3>1 DEF StartKernelFails
      <4> QED
        BY <4>1
    <3>2. CASE UpdateCellSource(c, i) \/ ExecuteSend(c, i) \/ ExecuteSilent(c, i)
      <4>1. x.kind # "start_kernel"
        BY <3>2 DEF UpdateCellSource, ExecuteSend, ExecuteSilent, Pending
      <4>2. \E e : Answer(c, i, e)
        BY <3>2 DEF UpdateCellSource, ExecuteSend, ExecuteSilent
      <4> QED
        BY <4>1, <4>2
    <3>3. CASE StartKernelDone(c, i)
      <4>1. x.stage = "installed" /\ (\E e : Answer(c, i, e))
        BY <3>3 DEF StartKernelDone, Pending
      <4> QED
        BY <4>1
    <3> QED
      BY <1>4, <3>1, <3>2, <3>3
  <2> HIDE DEF x
  <2>3. x = calls[c][i]
    BY DEF x
  <2> QED
    BY <2>1, <2>2, <2>3, QuietStarts
<1> QED
  BY <1>1, <1>2, <1>3, <1>4

-----------------------------------------------------------------------------
(* The steps that serve no call.                                           *)

(* What was present stays so, and nothing is called or answered.           *)
LEMMA OtherStarts ==
    ASSUME IInv, DInv, SInv, KInv, UNCHANGED frontendVars,
           \A d \in Clients : backend[d] = "dead" => backend'[d] = "dead",
           \A y \in Within(Lanes(calls', loop')) :
               y \in Within(Lanes(calls, loop)) \/ y.kind = "none",
           \A d \in Clients : \A j \in 1..Len(pipe'[d]) :
               pipe'[d][j].type = "reply" => j \in 1..Len(pipe[d]) /\ pipe'[d][j] = pipe[d][j],
           BufferOwns(buf, client)',
           \A y \in Within(Lanes(calls, loop)) : OpenGood(y)',
           \A y \in Within(Lanes(calls, loop)) :
               y.kind = "start_kernel" /\ y.stage = "installed" /\ y.client = client
                   /\ y.session = buf.session /\ There(y) => There(y)',
           \A n \in Starts : n > lastStart => Unborn(n)',
           buf.session \in Starts /\ client \in Clients =>
               \A j \in 0..Len(pipe[client]) :
                   Present(buf.session, client, pipe[client], j) =>
                       Present(buf.session, client, pipe[client], j)',
           GoneGood(loop)', \A s \in Starts : SlotOwned(s)'
    PROVE  KInv'
<1> DEFINE L == Lanes(calls, loop)
           M == Lanes(calls', loop')
<1>1. client' = client /\ buf' = buf /\ lastStart' = lastStart /\ Dead \subseteq Dead'
  BY DEF frontendVars, Dead
<1>2. \A y \in Within(M) : y \in Within(L) \/ y.kind = "none"
  OBVIOUS
<1>3. /\ StartsOwned(buf, client, Within(L), lastStart, pipe) /\ Shown(buf, client, pipe)
  BY DEF KInv
<1>4. pipe \in [Clients -> Seq(Frame)]
  BY DEF IInv, TypeOK, BackendTypeOK
<1>5. ASSUME NEW y \in Within(L), y.kind = "start_kernel", y.session = buf.session
      PROVE  buf.session \in Starts /\ y.client = client
  <2>1. OfStart(y)
    BY <1>5 DEF OfStart, StartKinds
  <2>2. CallOwned(y, buf, client) /\ SessionGood(y, buf, lastStart) /\ y.session \in Starts
    BY <1>5, UnderWay
  <2> QED
    BY <1>5, <2>1, <2>2 DEF CallOwned, SessionGood
<1> HIDE DEF L, M
<1>6. \A y \in Within(M) : CallOwned(y, buf, client)' /\ OpenGood(y)'
  <2>1. ASSUME NEW y \in Within(L) PROVE CallOwned(y, buf, client)' /\ OpenGood(y)'
    <3>1. CallOwned(y, buf, client) /\ SessionGood(y, buf, lastStart)
      BY UnderWay DEF L
    <3>2. OpenGood(y)'
      BY DEF L
    <3>3. OfStart(y) /\ y.start = buf.starting.id => Landed(y)'
      BY <3>1 DEF CallOwned, SessionGood, Landed, L
    <3> QED
      BY <1>1, <3>1, <3>2, <3>3 DEF CallOwned
  <2>2. \A y : y.kind = "none" => CallOwned(y, buf, client)' /\ OpenGood(y)'
    BY DEF CallOwned, OpenGood, Unstarted, OfStart, StartKinds
  <2> QED
    BY <1>2, <2>1, <2>2
<1>7. ASSUME NEW d \in Clients, NEW j \in 1..Len(pipe'[d]),
             pipe'[d][j].type = "reply", pipe'[d][j].call \in Within(M)
      PROVE  ReplyGood(pipe[d], j, d, buf)'
  <2> DEFINE f == pipe'[d][j]
  <2>1. j \in 1..Len(pipe[d]) /\ f = pipe[d][j]
    BY <1>7
  <2>2. CASE f.call \in Within(L)
    <3>1. ReplyGood(pipe[d], j, d, buf)
      BY <1>3, <1>7, <2>1, <2>2 DEF StartsOwned, RepliesGood
    <3>2. ASSUME f.call.session = buf.session, f.call.client = d,
                 f.call.kind = "start_kernel", f.err = "ok"
          PROVE  Present(buf.session, d, pipe[d], j)'
      <4>1. Present(buf.session, d, pipe[d], j)
        BY <2>1, <3>1, <3>2 DEF ReplyGood
      <4>2. buf.session \in Starts /\ d = client
        BY <1>5, <2>2, <3>2
      <4>3. j \in 0..Len(pipe[client])
        BY <1>4, <2>1, <4>2
      <4> QED
        BY <1>1, <4>1, <4>2, <4>3
    <3> QED
      BY <1>1, <2>1, <3>1, <3>2 DEF ReplyGood
  <2>3. CASE f.call.kind = "none"
    BY <2>3 DEF ReplyGood
  <2> QED
    BY <1>2, <1>7, <2>2, <2>3
<1>8. \A f \in Frames(pipe') : Once(f, buf, Within(M), lastStart)
  <2> SUFFICES ASSUME NEW f \in Frames(pipe'), f.type = "reply"
               PROVE  Once(f, buf, Within(M), lastStart)
    BY DEF Once
  <2>1. PICK d \in Clients : \E j \in 1..Len(pipe'[d]) : f = pipe'[d][j]
    BY InFrames
  <2>2. PICK j \in 1..Len(pipe'[d]) : f = pipe'[d][j]
    BY <2>1
  <2>3. f \in Frames(pipe)
    BY <2>2, InFrames
  <2>4. Once(f, buf, Within(L), lastStart)
    BY <1>3, <2>3 DEF StartsOwned
  <2>5. \A y \in Within(M) : OfStart(y) => y \in Within(L)
    BY <1>2 DEF OfStart, StartKinds
  <2> QED
    BY <2>4, <2>5 DEF Once
<1>9. Shown(buf, client, pipe)'
  <2> SUFFICES ASSUME buf.started, ~Stopping(buf)
               PROVE  Present(buf.session, client, pipe[client], 0)'
    BY <1>1 DEF Shown
  <2>1. buf.session # 0 /\ client \in Clients
    BY <1>3 DEF StartsOwned, BufferOwns
  <2>2. buf.session \in Starts
    BY <2>1, BufferFields, BoundsAssumption DEF IInv, TypeOK, Starts
  <2>3. Present(buf.session, client, pipe[client], 0)
    BY <1>3 DEF Shown
  <2>4. 0 \in 0..Len(pipe[client])
    BY <1>4, <2>1
  <2> QED
    BY <2>1, <2>2, <2>3, <2>4
<1>10. StartsOwned(buf, client, Within(Lanes(calls, loop)), lastStart, pipe)'
  <2>1. \A y \in Within(M) : CallOwned(y, buf, client)' /\ OpenGood(y)'
    BY <1>6
  <2>2. (\A d \in Clients : \A j \in 1..Len(pipe'[d]) :
             pipe'[d][j].type = "reply" /\ pipe'[d][j].call \in Within(M) =>
                 ReplyGood(pipe[d], j, d, buf)')
    BY <1>7
  <2>3. (\A f \in Frames(pipe') : Once(f, buf', Within(M), lastStart'))
    BY <1>1, <1>8
  <2>4. (\A n \in Starts : n > lastStart' => Unborn(n)')
    BY <1>1
  <2> QED
    BY <2>1, <2>2, <2>3, <2>4 DEF StartsOwned, RepliesGood, M
<1> QED
  BY <1>9, <1>10 DEF KInv

LEMMA KernelStarts ==
    ASSUME IInv, DInv, SInv, KInv, UNCHANGED <<clientVars, frontendVars>>,
           NEW k \in Starts, PumpStep(k) \/ KernelDies(k)
    PROVE  KInv'
<1> DEFINE s == kernel[k].session
           c == kernel[k].client
           e == [type |-> "kernel_exited", err |-> "ok", call |-> [NoCall EXCEPT !.session = s]]
<1>1. /\ slot \in [Starts -> 0..MaxStarts] /\ kernel \in [Starts -> KernelRecord]
      /\ pipe \in [Clients -> Seq(Frame)] /\ lastStart \in Nat
  BY BoundsAssumption DEF IInv, TypeOK, BackendTypeOK
<1>2. /\ UNCHANGED <<backend, calls>> /\ live' = live /\ loop' = loop
      /\ buf' = buf /\ client' = client /\ lastStart' = lastStart
  BY DEF PumpStep, WatchExit, PumpTakesKernel, PumpReportsExit, KernelDies, wireVars,
         clientVars, frontendVars
<1>3. PICK t : kernel' = [kernel EXCEPT ![k].st = t] /\ overtaken \subseteq overtaken' /\
        \/ /\ kernel[k].st \in {"running", "dead"} /\ t \in {"dead", "exited"}
           /\ slot' = slot /\ pipe' = pipe
        \/ /\ kernel[k].st = "exited" /\ t = "reporting" /\ slot[s] = k
           /\ slot' = [slot EXCEPT ![s] = 0] /\ pipe' = pipe
        \/ kernel[k].st = "exited" /\ t = "gone" /\ slot' = slot /\ pipe' = pipe
        \/ /\ kernel[k].st = "reporting" /\ t = "gone" /\ slot' = slot
           /\ pipe' = [pipe EXCEPT ![c] = Append(pipe[c], e)]
           /\ Unreplied(k) => s \in overtaken'
  <2>1. CASE WatchExit(k) \/ KernelDies(k)
    BY <2>1 DEF WatchExit, KernelDies, wireVars
  <2>2. CASE PumpTakesKernel(k)
    BY <2>2 DEF PumpTakesKernel, wireVars
  <2>3. CASE PumpReportsExit(k)
    BY <2>3 DEF PumpReportsExit
  <2> QED
    BY <2>1, <2>2, <2>3 DEF PumpStep
<1>4. /\ kernel'[k].st = t
      /\ \A n \in Starts : /\ kernel'[n].session = kernel[n].session
                           /\ kernel'[n].client = kernel[n].client
                           /\ n # k => kernel'[n] = kernel[n]
  <2> DEFINE h == [kernel[k] EXCEPT !.st = t]
  <2>1. h.st = t /\ h.session = s /\ h.client = c
    BY <1>1 DEF KernelRecord
  <2>2. kernel' = [kernel EXCEPT ![k] = h]
    BY <1>3
  <2> HIDE DEF h
  <2> QED
    BY <1>1, <2>1, <2>2
<1>5. e.type = "kernel_exited" /\ ExitOf(e, s)
  BY DEF ExitOf, NoCall
<1>6. kernel[k].st \in {"running", "dead"} => s \in Starts /\ slot[s] = k
  BY DEF SInv, KernelGood
<1> HIDE DEF s, c, e
<1>7. \A n \in Starts : Ended(n)' => Ended(n) \/ \E r \in Starts : slot[r] = n
  BY <1>3, <1>4, <1>6 DEF Ended
<1>8. ASSUME NEW y \in Within(Lanes(calls, loop)) PROVE OpenGood(y)'
  <2>1. OpenGood(y) /\ ServedGood(y) /\ (OfStart(y) => y.start \in Starts)
    BY UnderWay
  <2>2. CASE y.kind \in {"open_py", "start_kernel"}
    <3>1. y.start \in Starts
      BY <2>1, <2>2 DEF OfStart, StartKinds
    <3> QED
      BY <1>2, <1>7, <2>1, <3>1 DEF OpenGood, ServedGood, Unstarted, Fresh, Dead
  <2>3. CASE y.kind \notin {"open_py", "start_kernel"}
    BY <2>3 DEF OpenGood, Unstarted
  <2> QED
    BY <2>2, <2>3
<1>9. ASSUME NEW n \in Starts, n > lastStart PROVE Unborn(n)'
  BY <1>2, <1>7, <1>9 DEF KInv, StartsOwned, Unborn, DInv, SlotsGood, Fresh
<1>10. ASSUME NEW r \in Starts PROVE SlotOwned(r)'
  <2>1. slot'[r] \in {slot[r], 0} /\ SlotOwned(r)
    BY <1>1, <1>3 DEF KInv
  <2>2. slot[r] # 0 => slot[r] \in Starts
    BY <1>1, BoundsAssumption DEF Starts
  <2> QED
    BY <1>2, <1>4, <2>1, <2>2 DEF SlotOwned
<1>11. /\ \A d \in Clients : d # c => pipe'[d] = pipe[d]
       /\ c \in Clients => pipe'[c] = pipe[c] \/ pipe'[c] = Append(pipe[c], e)
       /\ c \in Clients /\ kernel[k].st = "reporting" => pipe'[c] = Append(pipe[c], e)
  BY <1>1, <1>3
<1>12. ASSUME c \in Clients, pipe'[c] = Append(pipe[c], e)
       PROVE  /\ Len(pipe'[c]) = Len(pipe[c]) + 1 /\ Len(pipe[c]) \in Nat
              /\ pipe'[c][Len(pipe[c]) + 1] = e
              /\ \A j \in 1..Len(pipe[c]) : pipe'[c][j] = pipe[c][j]
  BY <1>1, <1>12
<1>13. ASSUME NEW d \in Clients, NEW j \in 1..Len(pipe'[d]), pipe'[d][j].type = "reply"
       PROVE  j \in 1..Len(pipe[d]) /\ pipe'[d][j] = pipe[d][j]
  <2>1. CASE pipe'[d] = pipe[d]
    BY <2>1
  <2>2. CASE d = c /\ pipe'[c] = Append(pipe[c], e)
    <3>1. j \in 1..(Len(pipe[c]) + 1) /\ j # Len(pipe[c]) + 1
      BY <1>5, <1>12, <1>13, <2>2
    <3>2. j \in 1..Len(pipe[c])
      BY <1>12, <2>2, <3>1
    <3> QED
      BY <1>12, <2>2, <3>2
  <2> QED
    BY <1>11, <2>1, <2>2
<1>14. ASSUME NEW d \in Clients, NEW j, NEW r, ExitsAfter(pipe[d], j, r)
       PROVE  ExitsAfter(pipe[d], j, r)'
  <2>1. CASE pipe'[d] = pipe[d]
    BY <1>14, <2>1 DEF ExitsAfter
  <2>2. CASE d = c /\ pipe'[c] = Append(pipe[c], e)
    <3>1. PICK m \in 1..Len(pipe[c]) : j < m /\ ExitOf(pipe[c][m], r)
      BY <1>14, <2>2 DEF ExitsAfter
    <3>2. m \in 1..Len(pipe'[c]) /\ pipe'[c][m] = pipe[c][m]
      BY <1>12, <2>2, <3>1
    <3> QED
      BY <2>2, <3>1, <3>2 DEF ExitsAfter
  <2> QED
    BY <1>11, <2>1, <2>2
<1>15. ASSUME buf.session \in Starts, client \in Clients,
              NEW j \in 0..Len(pipe[client]), Present(buf.session, client, pipe[client], j)
       PROVE  Present(buf.session, client, pipe[client], j)'
  <2>1. CASE \/ client \in Dead \/ ExitsAfter(pipe[client], j, buf.session)
             \/ buf.session \in overtaken
    BY <1>2, <1>3, <1>14, <1>15, <2>1 DEF Present, Dead
  <2>2. CASE Reported(buf.session, client)
    <3>1. PICK n \in Starts : /\ kernel[n].st = "reporting" /\ kernel[n].session = buf.session
                              /\ kernel[n].client = client
      BY <2>2 DEF Reported
    <3>2. CASE n # k
      BY <1>2, <1>4, <3>1, <3>2 DEF Present, Reported
    <3>3. CASE n = k
      <4>1. c = client /\ s = buf.session /\ pipe'[c] = Append(pipe[c], e)
        BY <1>11, <1>15, <3>1, <3>3 DEF c, s
      <4>2. /\ Len(pipe[c]) + 1 \in 1..Len(pipe'[c]) /\ j < Len(pipe[c]) + 1
            /\ pipe'[c][Len(pipe[c]) + 1] = e
        BY <1>12, <1>15, <4>1
      <4>3. ExitsAfter(pipe'[c], j, s)
        BY <1>5, <4>2 DEF ExitsAfter
      <4> QED
        BY <1>2, <4>1, <4>3 DEF Present
    <3> QED
      BY <3>2, <3>3
  <2>3. CASE slot[buf.session] # 0 /\ client \notin Dead
    <3>1. CASE slot'[buf.session] # 0
      BY <1>2, <3>1 DEF Present
    <3>2. CASE slot'[buf.session] = 0
      <4>1. slot[buf.session] = k /\ s = buf.session /\ t = "reporting"
        BY <1>1, <1>3, <1>15, <2>3, <3>2
      <4>2. c = live[buf.session]
        BY <1>15, <2>3, <4>1 DEF KInv, SlotOwned, c
      <4>3. live[buf.session] = client
        BY <1>15, <2>3 DEF KInv, StartsOwned, BufferOwns, Starts
      <4>4. Reported(buf.session, client)'
        BY <1>2, <1>4, <4>1, <4>2, <4>3 DEF Reported, c, s
      <4> QED
        BY <1>2, <4>4 DEF Present
    <3> QED
      BY <3>1, <3>2
  <2> QED
    BY <1>15, <2>1, <2>2, <2>3 DEF Present
<1>16. ASSUME NEW y \in Within(Lanes(calls, loop)), y.kind = "start_kernel",
              y.stage = "installed", y.client = client, y.session = buf.session, There(y)
       PROVE  There(y)'
  <2>1. /\ y.start \in Starts /\ y.start # 0 /\ y.session \in Starts
        /\ y.session # 0 /\ client \in Clients
    <3>1. y.start \in Starts /\ y.session \in Starts
      BY <1>16, UnderWay DEF OfStart, StartKinds
    <3>2. BufferOwns(buf, client)
      BY DEF KInv, StartsOwned
    <3> QED
      BY <1>16, <3>1, <3>2 DEF BufferOwns, Starts
  <2>2. CASE y.client \in Dead \/ y.session \in overtaken
    BY <1>2, <1>3, <2>2 DEF There, Dead
  <2>3. CASE slot[y.session] = y.start /\ y.client \notin Dead
    <3>1. CASE slot'[y.session] = slot[y.session]
      BY <2>3, <3>1 DEF There
    <3>2. CASE slot'[y.session] # slot[y.session]
      <4>1. slot[y.session] = k /\ s = y.session /\ t = "reporting"
        BY <1>1, <1>3, <2>1, <3>2
      <4>2. c = live[y.session]
        BY <2>1, <2>3, <4>1 DEF KInv, SlotOwned, c
      <4>3. live[y.session] = client
        BY <1>16, <2>1, <2>3 DEF KInv, StartsOwned, BufferOwns
      <4> QED
        BY <1>4, <1>16, <2>1, <2>3, <4>1, <4>2, <4>3 DEF There, Reports, c, s
    <3> QED
      BY <3>1, <3>2
  <2>4. CASE Reports(y) /\ y.client \notin Dead
    <3>1. CASE y.start # k
      BY <1>4, <2>1, <2>4, <3>1 DEF There, Reports
    <3>2. CASE y.start = k
      <4>1. PICK d \in 0..MaxClients : \E i \in 1..Len(Lanes(calls, loop)[d]) :
                                           y = Lanes(calls, loop)[d][i]
        BY InLanes
      <4>2. PICK i \in 1..Len(Lanes(calls, loop)[d]) : y = Lanes(calls, loop)[d][i]
        BY <4>1
      <4>3. CASE d = 0
        <5>1. /\ Lanes(calls, loop)[0] = Callbacks(loop) /\ loop \in Seq(Frame)
              /\ GoneGood(loop)
          BY <4>3 DEF Lanes, KInv, IInv, TypeOK, ClientTypeOK
        <5>2. i \in 1..Len(loop) /\ y = loop[i].call
          BY <4>2, <4>3, <5>1, CallbacksTyped
        <5> QED
          BY <1>16, <2>1, <2>4, <5>1, <5>2 DEF GoneGood
      <4>4. CASE d # 0
        <5>1. /\ d \in Clients /\ Lanes(calls, loop)[d] = calls[d]
          BY <4>4, BoundsAssumption DEF Lanes, Clients
        <5>2. i \in 1..Len(calls[d]) /\ y = calls[d][i]
          BY <4>2, <5>1
        <5>3. y.client = d
          BY <5>1, <5>2 DEF SInv, LanesOwned, CallsOf
        <5>4. kernel[k].client = d /\ s = y.session /\ kernel[k].st = "reporting"
          BY <2>4, <3>2, <5>3 DEF Reports, s
        <5>5. Unreplied(k)
          BY <1>16, <3>2, <5>2, <5>4 DEF Unreplied
        <5>6. s \in overtaken'
          BY <1>3, <5>4, <5>5
        <5> QED
          BY <5>4, <5>6 DEF There
      <4> QED
        BY <4>3, <4>4
    <3> QED
      BY <3>1, <3>2
  <2> QED
    BY <1>16, <2>2, <2>3, <2>4 DEF There
<1>17. BufferOwns(buf, client)' /\ GoneGood(loop)' /\ UNCHANGED frontendVars
  BY <1>2 DEF KInv, StartsOwned, BufferOwns, GoneGood, Dead
<1>18. /\ \A d \in Clients : backend[d] = "dead" => backend'[d] = "dead"
       /\ \A y \in Within(Lanes(calls', loop')) :
             y \in Within(Lanes(calls, loop)) \/ y.kind = "none"
  BY <1>2
<1> QED
  BY <1>8, <1>9, <1>10, <1>13, <1>15, <1>16, <1>17, <1>18, OtherStarts

LEMMA BackendDiesStarts ==
    ASSUME IInv, DInv, SInv, KInv, UNCHANGED <<clientVars, frontendVars>>,
           NEW c \in Clients, BackendDies(c)
    PROVE  KInv'
<1>1. /\ backend \in [Clients -> {"unborn", "up", "dead"}] /\ live \in [Starts -> 0..MaxClients]
      /\ kernel \in [Starts -> KernelRecord] /\ slot \in [Starts -> 0..MaxStarts]
      /\ c # 0 /\ pipe \in [Clients -> Seq(Frame)]
  BY DEF IInv, TypeOK, BackendTypeOK, Clients
<1>2. /\ backend' = [backend EXCEPT ![c] = "dead"]
      /\ live' = [s \in Starts |-> IF live[s] = c THEN 0 ELSE live[s]]
      /\ slot' = [s \in Starts |-> IF slot[s] # 0 /\ kernel[slot[s]].client = c
                                   THEN 0 ELSE slot[s]]
      /\ kernel' = [k \in Starts |-> IF kernel[k].client = c
                                     THEN [kernel[k] EXCEPT !.st = "gone"]
                                     ELSE kernel[k]]
      /\ calls' = calls /\ pipe' = pipe /\ loop' = loop
      /\ client' = client /\ buf' = buf /\ lastStart' = lastStart /\ overtaken' = overtaken
  BY DEF BackendDies, wireVars, clientVars, frontendVars
<1>3. Dead' = Dead \cup {c} /\ \A d \in Clients : backend[d] = "dead" => backend'[d] = "dead"
  BY <1>1, <1>2 DEF Dead
<1>4. ASSUME NEW s \in Starts, live[s] # c PROVE live'[s] = live[s]
  BY <1>2, <1>4
<1>5. ASSUME NEW n \in Starts
      PROVE  /\ kernel'[n].session = kernel[n].session /\ kernel'[n].client = kernel[n].client
             /\ kernel[n].client # c => kernel'[n] = kernel[n]
             /\ Ended(n)' => Ended(n)
  <2> DEFINE g == [kernel[n] EXCEPT !.st = "gone"]
  <2>1. g.st = "gone" /\ g.session = kernel[n].session /\ g.client = kernel[n].client
    BY <1>1 DEF KernelRecord
  <2>2. kernel'[n] = IF kernel[n].client = c THEN g ELSE kernel[n]
    BY <1>2
  <2> HIDE DEF g
  <2> QED
    BY <2>1, <2>2 DEF Ended
<1>6. /\ StartsOwned(buf, client, Within(Lanes(calls, loop)), lastStart, pipe) /\ GoneGood(loop)
      /\ \A s \in Starts : SlotOwned(s)
  BY DEF KInv
<1>7. buf.session # 0 => buf.session \in Starts
  BY BufferFields, BoundsAssumption DEF IInv, TypeOK, Starts
<1>8. BufferOwns(buf, client)'
  <2>1. BufferOwns(buf, client)
    BY <1>6 DEF StartsOwned
  <2>2. buf.session # 0 => client \in Dead' \/ live'[buf.session] = client
    BY <1>3, <1>4, <1>7, <2>1 DEF BufferOwns
  <2> QED
    BY <1>2, <2>1, <2>2 DEF BufferOwns
<1>9. ASSUME NEW y \in Within(Lanes(calls, loop)) PROVE OpenGood(y)'
  <2>1. OpenGood(y) /\ (OfStart(y) => y.start \in Starts)
    BY UnderWay
  <2>2. CASE y.kind \in {"open_py", "start_kernel"}
    <3>1. y.start \in Starts
      BY <2>1, <2>2 DEF OfStart, StartKinds
    <3>2. live'[y.start] = live[y.start] \/ (live[y.start] = c /\ live'[y.start] = 0)
      BY <1>2, <3>1
    <3> QED
      BY <1>1, <1>3, <1>5, <2>1, <3>1, <3>2 DEF OpenGood
  <2>3. CASE y.kind \notin {"open_py", "start_kernel"}
    BY <2>3 DEF OpenGood, Unstarted
  <2> QED
    BY <2>2, <2>3
<1>10. ASSUME NEW n \in Starts, n > lastStart PROVE Unborn(n)'
  <2>1. Unborn(n)
    BY <1>6, <1>10 DEF StartsOwned
  <2>2. live'[n] = 0
    BY <1>1, <1>4, <2>1 DEF Unborn
  <2> QED
    BY <1>5, <2>1, <2>2 DEF Unborn
<1>11. ASSUME NEW s \in Starts PROVE SlotOwned(s)'
  <2>1. CASE slot'[s] = 0
    BY <2>1 DEF SlotOwned
  <2>2. CASE slot'[s] # 0
    <3>1. slot'[s] = slot[s] /\ kernel[slot[s]].client # c /\ slot[s] \in Starts
      BY <1>1, <1>2, <2>2, BoundsAssumption DEF Starts
    <3>2. live[s] # 0 /\ kernel[slot[s]].client = live[s]
      BY <1>6, <2>2, <3>1 DEF SlotOwned
    <3> QED
      BY <1>4, <1>5, <3>1, <3>2 DEF SlotOwned
  <2> QED
    BY <2>1, <2>2
<1>12. ASSUME buf.session \in Starts, client \in Clients,
              NEW j \in 0..Len(pipe[client]), Present(buf.session, client, pipe[client], j)
       PROVE  Present(buf.session, client, pipe[client], j)'
  <2>1. CASE client = c \/ client \in Dead
    BY <1>2, <1>3, <2>1 DEF Present
  <2>2. CASE client # c /\ client \notin Dead
    <3>1. slot[buf.session] # 0 => slot'[buf.session] # 0
      <4>1. slot[buf.session] # 0 => kernel[slot[buf.session]].client = live[buf.session]
        BY <1>6, <1>12 DEF SlotOwned
      <4>2. live[buf.session] = client
        BY <1>6, <1>12, <2>2 DEF StartsOwned, BufferOwns, Starts
      <4> QED
        BY <1>2, <1>12, <2>2, <4>1, <4>2
    <3>2. Reported(buf.session, client) => Reported(buf.session, client)'
      BY <1>2, <1>5, <2>2 DEF Reported
    <3> QED
      BY <1>2, <1>12, <2>2, <3>1, <3>2 DEF Present, ExitsAfter
  <2> QED
    BY <2>1, <2>2
<1>13. ASSUME NEW y \in Within(Lanes(calls, loop)), y.kind = "start_kernel",
              y.client = client, y.session = buf.session, There(y)
       PROVE  There(y)'
  <2>1. CASE y.client = c \/ y.client \in Dead \/ y.session \in overtaken
    BY <1>2, <1>3, <2>1 DEF There
  <2>2. CASE y.client # c /\ y.client \notin Dead /\ y.session \notin overtaken
    <3>1. y.start \in Starts /\ y.session \in Starts /\ y.start # 0
      BY <1>13, UnderWay DEF OfStart, StartKinds, Starts
    <3>2. slot[y.session] = y.start => slot'[y.session] = y.start
      <4>1. slot[y.session] = y.start => kernel[slot[y.session]].client = live[y.session]
        BY <1>6, <3>1 DEF SlotOwned
      <4>2. live[y.session] = client
        BY <1>6, <1>13, <2>2, <3>1 DEF StartsOwned, BufferOwns, Starts
      <4> QED
        BY <1>2, <1>13, <2>2, <3>1, <4>1, <4>2
    <3>3. Reports(y) => Reports(y)'
      BY <1>5, <2>2, <3>1 DEF Reports
    <3> QED
      BY <1>13, <2>2, <3>2, <3>3 DEF There
  <2> QED
    BY <2>1, <2>2
<1>14. GoneGood(loop)'
  BY <1>2, <1>3, <1>6 DEF GoneGood
<1>15. /\ \A y \in Within(Lanes(calls', loop')) :
             y \in Within(Lanes(calls, loop)) \/ y.kind = "none"
       /\ \A d \in Clients : \A j \in 1..Len(pipe'[d]) :
             pipe'[d][j].type = "reply" => j \in 1..Len(pipe[d]) /\ pipe'[d][j] = pipe[d][j]
  BY <1>2
<1>16. UNCHANGED frontendVars
  OBVIOUS
<1> QED
  BY <1>3, <1>8, <1>9, <1>10, <1>11, <1>12, <1>13, <1>14, <1>15, <1>16, OtherStarts

(* What is present stays so while the backends do nothing.                 *)
LEMMA StillStarts ==
    ASSUME IInv, DInv, SInv, KInv, UNCHANGED <<frontendVars, serverVars, backend>>,
           \A y \in Within(Lanes(calls', loop')) :
               y \in Within(Lanes(calls, loop)) \/ y.kind = "none",
           \A d \in Clients : pipe'[d] = pipe[d] \/ (d \in Dead /\ pipe'[d] = <<>>),
           GoneGood(loop)'
    PROVE  KInv'
<1>1. /\ buf' = buf /\ client' = client /\ lastStart' = lastStart /\ Dead' = Dead
      /\ live' = live /\ slot' = slot /\ kernel' = kernel /\ backend' = backend
      /\ overtaken' = overtaken
  BY DEF frontendVars, serverVars, Dead
<1>2. /\ StartsOwned(buf, client, Within(Lanes(calls, loop)), lastStart, pipe)
      /\ \A s \in Starts : SlotOwned(s)
  BY DEF KInv
<1>3. BufferOwns(buf, client)' /\ \A s \in Starts : SlotOwned(s)'
  BY <1>1, <1>2 DEF StartsOwned, BufferOwns, SlotOwned
<1>4. \A y \in Within(Lanes(calls, loop)) : OpenGood(y)'
  BY <1>1, <1>2 DEF StartsOwned, OpenGood, Ended
<1>5. \A n \in Starts : n > lastStart => Unborn(n)'
  BY <1>1, <1>2 DEF StartsOwned, Unborn, Ended
<1>6. ASSUME client \in Clients, NEW j \in 0..Len(pipe[client]),
             Present(buf.session, client, pipe[client], j)
      PROVE  Present(buf.session, client, pipe[client], j)'
  <2>1. CASE client \in Dead
    BY <1>1, <2>1 DEF Present
  <2>2. CASE client \notin Dead
    <3>1. pipe'[client] = pipe[client]
      BY <1>6, <2>2
    <3> QED
      BY <1>1, <1>6, <3>1 DEF Present, Reported, ExitsAfter
  <2> QED
    BY <2>1, <2>2
<1>7. \A d \in Clients : \A j \in 1..Len(pipe'[d]) :
          pipe'[d][j].type = "reply" => j \in 1..Len(pipe[d]) /\ pipe'[d][j] = pipe[d][j]
  OBVIOUS
<1>8. \A d \in Clients : backend[d] = "dead" => backend'[d] = "dead"
  BY <1>1
<1>9. UNCHANGED frontendVars
  OBVIOUS
<1>10. \A y : There(y) => There(y)'
  BY <1>1, QuietStays
<1> QED
  BY <1>3, <1>4, <1>5, <1>6, <1>7, <1>8, <1>9, <1>10, OtherStarts

LEMMA ExitCallbackStarts ==
    ASSUME IInv, DInv, SInv, KInv, UNCHANGED frontendVars, NEW c \in Clients, ExitCallback(c)
    PROVE  KInv'
<1> DEFINE L == Lanes(calls, loop)
           M == Lanes(calls', loop')
           x == [NoCall EXCEPT !.client = c]
           f == [type |-> "on_exit", err |-> "ok", call |-> x]
<1>1. loop' = Append(loop, f) /\ UNCHANGED <<backend, serverVars>> /\ calls' = calls /\ pipe' = pipe
  BY DEF ExitCallback, wireVars
<1>2. loop \in Seq(Frame) /\ calls \in [Clients -> Seq(Call)]
  BY DEF IInv, TypeOK, BackendTypeOK, ClientTypeOK
<1>3. c \in 0..MaxClients /\ 0 \in 0..MaxClients
  BY BoundsAssumption DEF Clients
<1>4. x \in Call /\ x.kind = "none" /\ x.client = c
  BY <1>3, NoCallTyped DEF NoCall, Call, Request
<1>5. f \in Frame /\ f.type = "on_exit" /\ f.call = x
  BY <1>4 DEF Frame
<1> HIDE DEF f, x
<1>6. \A y \in Within(M) : y = x \/ y \in Within(L)
  <2>1. Callbacks(loop') = Append(Callbacks(loop), x)
    BY <1>1, <1>2, <1>5, CallbacksAppend
  <2>2. L[0] = Callbacks(loop) /\ M[0] = Callbacks(loop')
    BY <1>3 DEF Lanes
  <2>3. \A d \in 0..MaxClients : d # 0 => M[d] = L[d]
    BY <1>1 DEF Lanes
  <2>4. L[0] \in Seq(Call)
    BY <1>2, <2>2, CallbacksTyped
  <2> HIDE DEF L, M
  <2> SUFFICES ASSUME NEW d \in 0..MaxClients, NEW j \in 1..Len(M[d])
               PROVE  M[d][j] = x \/ M[d][j] \in Within(L)
    BY InLanes
  <2>5. CASE d # 0
    BY <2>3, <2>5, InLanes
  <2>6. CASE d = 0
    <3>1. M[0][j] = x \/ (j \in 1..Len(L[0]) /\ M[0][j] = L[0][j])
      BY <1>4, <2>1, <2>2, <2>4, <2>6
    <3> QED
      BY <1>3, <2>6, <3>1, InLanes
  <2> QED
    BY <2>5, <2>6
<1>7. GoneGood(loop)'
  <2>1. \A j \in 1..Len(loop') : loop'[j] = f \/ (j \in 1..Len(loop) /\ loop'[j] = loop[j])
    BY <1>1, <1>2, <1>5
  <2>2. GoneGood(loop) /\ Dead' = Dead /\ c \in Dead
    BY <1>1 DEF KInv, Dead, ExitCallback
  <2> QED
    BY <1>4, <1>5, <2>1, <2>2 DEF GoneGood
<1>8. UNCHANGED <<frontendVars, serverVars, backend>>
  BY <1>1
<1>9. \A y \in Within(M) : y \in Within(L) \/ y.kind = "none"
  BY <1>4, <1>6
<1> QED
  BY <1>1, <1>7, <1>8, <1>9, StillStarts

LEMMA CloseClientStarts ==
    ASSUME IInv, IInv', DInv, SInv, KInv, UNCHANGED frontendVars, NEW c \in Clients, CloseClient(c)
    PROVE  KInv'
<1>1. /\ backend[c] = "dead" /\ pipe' = [pipe EXCEPT ![c] = <<>>]
      /\ UNCHANGED <<backend, serverVars>>
  BY DEF CloseClient
<1>2. /\ Within(Lanes(calls', loop')) \subseteq Within(Lanes(calls, loop))
      /\ \A j \in 1..Len(loop') :
            \/ j \in 1..Len(loop) /\ loop'[j] = loop[j]
            \/ \E i \in 1..Len(calls[c]) : loop'[j].call = calls[c][i]
  BY CloseClientMoves
<1>3. \A i \in 1..Len(calls[c]) : calls[c][i].client = c
  BY DEF SInv, LanesOwned, CallsOf
<1>4. GoneGood(loop)'
  <2>1. GoneGood(loop) /\ Dead' = Dead /\ c \in Dead
    BY <1>1 DEF KInv, Dead
  <2> QED
    BY <1>2, <1>3, <2>1 DEF GoneGood
<1>5. \A d \in Clients : pipe'[d] = pipe[d] \/ (d \in Dead /\ pipe'[d] = <<>>)
  <2>1. pipe \in [Clients -> Seq(Frame)]
    BY DEF IInv, TypeOK, BackendTypeOK
  <2> QED
    BY <1>1, <2>1 DEF Dead
<1>6. UNCHANGED <<frontendVars, serverVars, backend>>
  BY <1>1
<1> QED
  BY <1>2, <1>4, <1>5, <1>6, StillStarts

LEMMA InitStarts == Init => KInv
<1> SUFFICES ASSUME Init PROVE KInv
  OBVIOUS
<1>1. /\ calls = [c \in Clients |-> <<>>] /\ pipe = [c \in Clients |-> <<>>] /\ loop = <<>>
      /\ live = [s \in Starts |-> 0] /\ slot = [s \in Starts |-> 0]
      /\ kernel = [k \in Starts |-> [st |-> "none", session |-> 0, client |-> 0]]
      /\ buf = DefaultBufferState
  BY DEF Init, BackendInit, ClientInit
<1>2. \A x \in Within(Lanes(calls, loop)) : FALSE
  <2>1. Len(Callbacks(loop)) = 0
    <3>1. loop \in Seq(Frame) /\ Len(loop) = 0
      BY <1>1
    <3> QED
      BY <3>1, CallbacksTyped
  <2>2. \A c \in 0..MaxClients : Len(Lanes(calls, loop)[c]) = 0
    BY <1>1, <2>1, BoundsAssumption DEF Lanes, Clients
  <2> QED
    BY <2>2, InLanes
<1>3. \A f \in Frames(pipe) : FALSE
  BY <1>1, InFrames
<1>4. /\ buf.session = 0 /\ ~buf.started /\ buf.starting.id = 0
      /\ ~buf.starting.launching /\ ~buf.starting.held
  BY <1>1 DEF DefaultBufferState, NoStart
<1>5. BufferOwns(buf, client) /\ Shown(buf, client, pipe)
  BY <1>4 DEF BufferOwns, Shown
<1>6. RepliesGood(pipe, Within(Lanes(calls, loop)), buf)
  BY <1>2 DEF RepliesGood
<1>7. \A n \in Starts : Unborn(n) /\ SlotOwned(n)
  BY <1>1 DEF Unborn, Ended, SlotOwned
<1>8. GoneGood(loop)
  BY <1>1 DEF GoneGood
<1> QED
  BY <1>2, <1>3, <1>5, <1>6, <1>7, <1>8 DEF KInv, StartsOwned

LEMMA StepStarts ==
    ASSUME IInv, IInv', DInv, SInv, KInv, [Next]_vars
    PROVE  KInv'
<1>1. CASE UserCommand
  BY <1>1, UserCommandStarts
<1>2. CASE EventLoop
  BY <1>2, EventLoopStarts
<1>3. CASE \E c \in Clients : Serve(c) /\ UNCHANGED <<clientVars, frontendVars>>
  BY <1>3, ServeStarts
<1>4. CASE \E k \in Starts : (PumpStep(k) \/ KernelDies(k)) /\ UNCHANGED <<clientVars, frontendVars>>
  BY <1>4, KernelStarts
<1>5. CASE \E c \in Clients : BackendDies(c) /\ UNCHANGED <<clientVars, frontendVars>>
  BY <1>5, BackendDiesStarts
<1>6. CASE \E c \in Clients : Gone(c) /\ UNCHANGED frontendVars
  BY <1>6, ExitCallbackStarts, CloseClientStarts DEF Gone
<1>7. CASE UNCHANGED vars
  <2>1. /\ UNCHANGED <<frontendVars, serverVars, backend>> /\ calls' = calls /\ loop' = loop
        /\ pipe' = pipe
    BY <1>7 DEF vars, serverVars, wireVars, clientVars, frontendVars
  <2>2. GoneGood(loop)'
    BY <2>1 DEF KInv, GoneGood, Dead
  <2> QED
    BY <2>1, <2>2, StillStarts
<1>8. Backends \/ Crashes => \/ \E c \in Clients : Serve(c) /\ UNCHANGED <<clientVars, frontendVars>>
                             \/ \E k \in Starts : /\ PumpStep(k) \/ KernelDies(k)
                                                  /\ UNCHANGED <<clientVars, frontendVars>>
                             \/ \E c \in Clients : /\ BackendDies(c)
                                                   /\ UNCHANGED <<clientVars, frontendVars>>
  BY DEF Backends, Crashes
<1>9. Exits => \E c \in Clients : Gone(c) /\ UNCHANGED frontendVars
  BY DEF Exits
<1> QED
  BY <1>1, <1>2, <1>3, <1>4, <1>5, <1>6, <1>7, <1>8, <1>9 DEF Next

LEMMA StartsInductive == Spec => [](IInv /\ DInv /\ SInv /\ KInv)
<1>1. IInv /\ DInv /\ SInv /\ KInv /\ [Next]_vars => IInv' /\ DInv' /\ SInv' /\ KInv'
  BY NextInductive, StepKept, StepSessions, StepStarts
<1> QED
  BY <1>1, InitInductive, InitGood, InitSessions, InitStarts, PTL DEF Spec

(* While the front end takes its kernel for started, there is a kernel in  *)
(* its session, or the news that there is none is on its way: the backend  *)
(* is dead, the pump has noticed the exit or its notification waits to be  *)
(* read, or a stop is with the backend.  The one way in which it can miss  *)
(* the news is that the exit was reported before the start was answered:   *)
(* the slot is free, and the pump runs, before start_kernel has returned.  *)
(* Every other order in which the answers of launches and the news of      *)
(* exits are written, by tasks of their own, and read is covered.          *)
THEOREM StartedKernelIsThere == Spec => []StartedSound
<1>1. ASSUME IInv, KInv, buf.started, ~Stopping(buf)
      PROVE  \/ backend[client] = "dead" \/ slot[buf.session] # 0
             \/ ExitUnderway(buf.session) \/ buf.session \in overtaken
  <2>1. Present(buf.session, client, pipe[client], 0) /\ client \in Clients
    BY <1>1 DEF KInv, Shown, StartsOwned, BufferOwns
  <2>2. ExitsAfter(pipe[client], 0, buf.session) => ExitUnderway(buf.session)
    BY <2>1 DEF ExitsAfter, ExitOf, ExitUnderway
  <2>3. Reported(buf.session, client) => ExitUnderway(buf.session)
    BY DEF Reported, ExitUnderway
  <2> QED
    BY <2>1, <2>2, <2>3 DEF Present, Dead
<1>2. IInv /\ KInv => StartedSound
  BY <1>1 DEF StartedSound, Stopping
<1> QED
  BY <1>2, StartsInductive, PTL
=============================================================================
