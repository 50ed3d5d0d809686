---------------------------- MODULE ImageProofs ----------------------------
(***************************************************************************)
(* Proofs about Images, for every value of its constants: the types of all *)
(* variables, that every output has an image of its own, and that no image *)
(* is left behind.                                                         *)
(*                                                                         *)
(* The inductive invariant IInv is about what may be under way for an      *)
(* image: one call, whose reply is in the pipe or not, or whose image is   *)
(* being transmitted.  That ids are distinct needs more than that each     *)
(* process counts: a second process starts again at 1.  It gives out no    *)
(* id: once an attach has succeeded the plugin has no process attach       *)
(* again, and one that did not has no terminal (GiverGood).  That the ids  *)
(* stay below those of the plugin is a count of the outputs that have had  *)
(* their id, Spent, each of which has it once (CountsGood).                *)
(***************************************************************************)
EXTENDS Images, SequenceTheorems, FiniteSetTheorems, TLAPS

-----------------------------------------------------------------------------
(* Calls under way, in lanes: that of the scheduled callbacks, and that of *)
(* the pending calls of each client.                                       *)

NoCall == [client |-> 0, output |-> "none", sent |-> FALSE, method |-> "none"]

Item == Call \union {NoCall}
Entry == Reply \union OnExit
CallOf(f) == IF f \in OnExit THEN NoCall ELSE f.call

Callbacks(l) == [j \in 1..Len(l) |-> CallOf(l[j])]
Lanes(cs, l) == [c \in 0..MaxClients |-> IF c = 0 THEN Callbacks(l) ELSE cs[c]]
AllLanes == [0..MaxClients -> Seq(Item)]
Within(L) == UNION {{L[c][i] : i \in 1..Len(L[c])} : c \in 0..MaxClients}

(* The calls that an image waits for; an output has one at a time.         *)
ForImage(x) == x.method \in {"kitty_attach", "kitty_transmit"}
Apart(x, y) == ForImage(x) /\ ForImage(y) => x.output # y.output

AllApart(L) ==
    \A c, d \in 0..MaxClients : \A i \in 1..Len(L[c]), j \in 1..Len(L[d]) :
        c # d \/ i # j => Apart(L[c][i], L[d][j])

-----------------------------------------------------------------------------
(* The invariant.                                                          *)

(* The calls that client c waits for.                                      *)
Asked(cs, c) == {cs[c][i] : i \in 1..Len(cs[c])}

(* Each client has its own calls; it fails them itself when it is gone.    *)
LanesGood(cs, l) ==
    /\ AllApart(Lanes(cs, l))
    /\ \A c \in Clients : \A x \in Asked(cs, c) : x.client = c
    /\ \A j \in 1..Len(l) : l[j] \notin OnExit => l[j].err = "gone"

(* A reply not read answers a pending call, and no other one does; it      *)
(* brings an id when the image was transmitted.                            *)
FrameGood(f, asked) ==
    /\ f.call \in asked
    /\ ForImage(f.call) /\ ~f.call.sent
    /\ f.image_id # 0 <=> f.call.method = "kitty_transmit" /\ f.err = "none"

FramesGood(cs, p) ==
    \A c \in Clients :
        /\ \A k \in 1..Len(p[c]) : FrameGood(p[c][k], Asked(cs, c))
        /\ \A k, j \in 1..Len(p[c]) : k # j => p[c][k].call.output # p[c][j].call.output

(* What is transmitted is for a pending call without a reply.              *)
SendingGood(cs, sd) ==
    \A c \in Clients : sd[c] # Nothing =>
        /\ sd[c].call.sent /\ sd[c].call.method = "kitty_transmit"
        /\ sd[c].call \in Asked(cs, c)

(* Images wait while their calls are under way; transmissions follow an    *)
(* attach; an image is deleted when its output was dropped.                *)
CallGood(x, im, at, fa) ==
    /\ ForImage(x) => im[x.output].status = "pending"
    /\ x.method = "kitty_transmit" => at
    /\ x.method = "kitty_clear" => fa[x.output].status = "ready"

CallsGood(L, im, at, fa) == \A x \in Within(L) : CallGood(x, im, at, fa)

FateGood(im, fa) == \A o \in Outputs : fa[o].status = "ready" => im[o].status = "ready"

(* At most one backend runs, that of the current client.                   *)
Unborn(c) == calls[c] = <<>> /\ ~tty[c] /\ next_id[c] = 1

ProcessesGood ==
    /\ running \subseteq {client}
    /\ running \intersect (exited \union closed) = {}
    /\ closed \subseteq exited \union {client}
    /\ \A j \in 1..Len(loop) : loop[j] \in OnExit => loop[j].on_exit \in exited
    /\ \A c \in Clients : c \notin running \union exited \union {client} => Unborn(c)
    /\ \A c \in Clients : sending[c] # Nothing => c \in running

(* One process gives out ids: once it has, no other can be attached.       *)
GiverGood ==
    /\ \A c \in Clients : next_id[c] # 1 =>
        /\ attached
        /\ \A d \in running \ {c} :
            ~tty[d] /\ \A x \in Asked(calls, d) : x.method # "kitty_attach"
    /\ \A c, d \in Clients : c # d => next_id[c] = 1 \/ next_id[d] = 1

(* An output that may still be given an id by a backend.                   *)
MayBegin(o, im, rn, cs, sd) ==
    \/ im[o].status = "none"
    \/ \E c \in rn : \E x \in Asked(cs, c) :
        /\ x.output = o
        /\ \/ x.method = "kitty_attach"
           \/ /\ x.method = "kitty_transmit" /\ x.sent
              /\ sd[c] # Nothing => sd[c].call.output # o

Spent(im, rn, cs, sd) == {o \in Outputs : ~MayBegin(o, im, rn, cs, sd)}
Settled(im) == {o \in Outputs : im[o].status \in {"ready", "failed"}}

CountsGood ==
    /\ \A c \in Clients :
        next_id[c] <= 1 + Cardinality(Spent(image, running, calls, sending))
    /\ next_lua_id <= FirstLuaId + Cardinality(Settled(image))

(* The output whose image has an id, or had it written.                    *)
Written(o, i, im, p) ==
    \/ im[o].image_id = i
    \/ \E c \in Clients : \E k \in 1..Len(p[c]) :
        p[c][k].call.output = o /\ p[c][k].image_id = i

Holds(o, i, im, p, sd) ==
    \/ Written(o, i, im, p)
    \/ \E c \in Clients : sd[c] # Nothing /\ sd[c].call.output = o /\ sd[c].id = i

Given(i, lua, nx) ==
    \/ FirstLuaId <= i /\ i < lua
    \/ \E c \in Clients : i < nx[c]

(* Ids are unique, and the terminal has the image until it is deleted.     *)
IdsGood ==
    /\ \A o \in Outputs, i \in Ids :
        Holds(o, i, image, pipe, sending) => Given(i, next_lua_id, next_id)
    /\ \A o, p \in Outputs, i \in Ids :
        Holds(o, i, image, pipe, sending) /\ Holds(p, i, image, pipe, sending) => o = p
    /\ \A o \in Outputs, i \in Ids : Written(o, i, image, pipe) =>
        screen[i] \in {o, "spoiled"} \/ (image[o].image_id = i /\ fate[o] # Held)

(* When no backend exits, and its terminal can be opened.                  *)
Steady == scenario.faults \intersect {"tty", "exit"} = {}

SteadyGood ==
    Steady =>
        /\ exited = {} /\ closed = {} /\ loop = <<>>
        /\ client # 0 => client \in running
        /\ ~attach_failed
        /\ attached => client \in running /\ tty[client]
        /\ \A c \in Clients : \A k \in 1..Len(pipe[c]) :
            pipe[c][k].call.method = "kitty_attach" =>
                pipe[c][k].err = "none" /\ c \in running /\ tty[c]

(* When no transmission fails either, none is mixed with another.          *)
WholeGood ==
    Steady /\ ~Faulty("decode") /\ ~Faulty("write") =>
        /\ \A c \in Clients : \A k \in 1..Len(pipe[c]) : pipe[c][k].err = "none"
        /\ loading = IF Sending THEN "open" ELSE "none"
        /\ \A i \in Ids : screen[i] # "spoiled"

(* In a terminal that shows images, each is that of an output, or its      *)
(* deletion is under way, or one of its writes failed.                     *)
LeftGood ==
    Steady /\ ~Faulty("unsupported") =>
        /\ \A o \in Outputs : image[o].status = "ready" => attached
        /\ \A i \in Ids \ unwritten : screen[i] # "absent" =>
            \E o \in Outputs : Written(o, i, image, pipe)
        /\ \A o \in Outputs : fate[o].status = "ready" /\ Releases(o, fate[o].way) =>
            \/ screen[image[o].image_id] = "absent" \/ image[o].image_id \in unwritten
            \/ \E x \in Asked(calls, client) : x.method = "kitty_clear" /\ x.output = o

IInv ==
    /\ TypeOK
    /\ LanesGood(calls, loop)
    /\ FramesGood(calls, pipe)
    /\ SendingGood(calls, sending)
    /\ CallsGood(Lanes(calls, loop), image, attached, fate)
    /\ FateGood(image, fate)
    /\ ProcessesGood
    /\ GiverGood
    /\ CountsGood
    /\ IdsGood
    /\ SteadyGood
    /\ WholeGood
    /\ LeftGood

-----------------------------------------------------------------------------
(* Lanes.                                                                  *)

LEMMA ClientNumbers ==
    /\ MaxClients \in Nat /\ 0 \in 0..MaxClients
    /\ \A c \in Clients : c \in 0..MaxClients /\ c # 0 /\ c \in Nat
    /\ \A c \in 0..MaxClients : c # 0 => c \in Clients
BY ImagesAssumption DEF Clients

LEMMA EntryFields ==
    /\ \A f \in Reply : f \notin OnExit /\ CallOf(f) = f.call /\ f.call \in Call
                       /\ f.image_id \in Ids \union {0}
    /\ \A f \in OnExit : f.on_exit \in Clients /\ f \notin Reply /\ CallOf(f) = NoCall
    /\ \A f \in Entry : CallOf(f) \in Item
<1>1. \A f \in Reply : f.call \in Call /\ f.image_id \in Ids \union {0}
  BY DEF Reply
<1>2. \A f \in OnExit : f.on_exit \in Clients
  BY DEF OnExit
<1>3. \A f \in Reply : DOMAIN f = {"call", "err", "image_id"}
  BY DEF Reply
<1>4. \A f \in OnExit : DOMAIN f = {"on_exit"}
  BY DEF OnExit
<1>5. \A f \in Reply : f \notin OnExit
  BY <1>3, <1>4
<1> QED
  BY <1>1, <1>2, <1>5 DEF CallOf, Entry, Item

LEMMA CallFields ==
    /\ \A x \in Call : /\ x.client \in Clients /\ x.output \in Outputs /\ x.sent \in BOOLEAN
                      /\ x.method \in {"kitty_attach", "kitty_transmit", "kitty_clear"}
    /\ NoCall.method = "none"
BY DEF Call, NoCall

LEMMA ApartSymmetric ==
    ASSUME NEW x, NEW y, Apart(x, y)
    PROVE  Apart(y, x)
BY DEF Apart

LEMMA InLanes ==
    ASSUME NEW L
    PROVE  /\ \A c \in 0..MaxClients : \A i \in 1..Len(L[c]) : L[c][i] \in Within(L)
           /\ \A x \in Within(L) : \E c \in 0..MaxClients : \E i \in 1..Len(L[c]) : x = L[c][i]
BY DEF Within

LEMMA CallbacksTyped ==
    ASSUME NEW l \in Seq(Entry)
    PROVE  /\ Callbacks(l) \in Seq(Item) /\ Len(Callbacks(l)) = Len(l)
           /\ \A j \in 1..Len(l) : Callbacks(l)[j] = CallOf(l[j])
<1>1. \A j \in 1..Len(l) : CallOf(l[j]) \in Item
  <2> SUFFICES ASSUME NEW j \in 1..Len(l) PROVE CallOf(l[j]) \in Item
    OBVIOUS
  <2>1. l[j] \in Entry
    OBVIOUS
  <2> QED
    BY <2>1, EntryFields
<1>2. Len(l) \in Nat
  OBVIOUS
<1> QED
  BY <1>1, <1>2 DEF Callbacks

LEMMA LanesTyped ==
    ASSUME NEW cs \in [Clients -> Seq(Call)], NEW l \in Seq(Entry)
    PROVE  /\ Lanes(cs, l) \in AllLanes
           /\ Lanes(cs, l)[0] = Callbacks(l)
           /\ \A c \in Clients : Lanes(cs, l)[c] = cs[c]
<1>1. Callbacks(l) \in Seq(Item)
  BY CallbacksTyped
<1>2. \A c \in Clients : cs[c] \in Seq(Item)
  BY DEF Item
<1> QED
  BY <1>1, <1>2, ClientNumbers DEF Lanes, AllLanes

LEMMA LaneAppended ==
    ASSUME NEW L \in AllLanes, AllApart(L), NEW c \in 0..MaxClients, NEW x \in Item,
           \A z \in Within(L) : Apart(x, z)
    PROVE  LET M == [L EXCEPT ![c] = Append(L[c], x)] IN
           /\ M \in AllLanes
           /\ AllApart(M)
           /\ \A z \in Within(M) : z = x \/ z \in Within(L)
<1> DEFINE s == Append(L[c], x)
           M == [L EXCEPT ![c] = s]
           n == Len(L[c])
<1>1. L[c] \in Seq(Item)
  BY DEF AllLanes
<1>2. n \in Nat /\ s \in Seq(Item) /\ Len(s) = n + 1 /\ s[n + 1] = x /\ \A i \in 1..n : s[i] = L[c][i]
  BY <1>1
<1>3. \A i \in 1..(n + 1) : i = n + 1 \/ i \in 1..n
  BY <1>2
<1> HIDE DEF s, n
<1>4. M \in AllLanes
  BY <1>2 DEF AllLanes
<1>5. M[c] = s /\ \A d \in 0..MaxClients : d # c => M[d] = L[d]
  BY DEF AllLanes
<1> HIDE DEF M
<1>6. \A d \in 0..MaxClients : \A i \in 1..Len(M[d]) :
          (d = c /\ i = n + 1 /\ M[d][i] = x) \/ (i \in 1..Len(L[d]) /\ M[d][i] = L[d][i])
  BY <1>2, <1>3, <1>5 DEF n
<1>7. \A d \in 0..MaxClients : \A i \in 1..Len(L[d]) : L[d][i] \in Within(L)
  BY InLanes
<1>8. AllApart(M)
  <2> SUFFICES ASSUME NEW d \in 0..MaxClients, NEW e \in 0..MaxClients,
                      NEW i \in 1..Len(M[d]), NEW j \in 1..Len(M[e]), d # e \/ i # j
               PROVE  Apart(M[d][i], M[e][j])
    BY DEF AllApart
  <2>1. CASE d = c /\ i = n + 1 /\ M[d][i] = x
    <3>1. j \in 1..Len(L[e]) /\ M[e][j] = L[e][j]
      BY <1>6, <2>1
    <3> QED
      BY <1>7, <2>1, <3>1
  <2>2. CASE i \in 1..Len(L[d]) /\ M[d][i] = L[d][i]
    <3>1. CASE j \in 1..Len(L[e]) /\ M[e][j] = L[e][j]
      BY <2>2, <3>1 DEF AllApart
    <3>2. CASE M[e][j] = x
      BY <1>7, <2>2, <3>2, ApartSymmetric
    <3> QED
      BY <1>6, <3>1, <3>2
  <2> QED
    BY <1>6, <2>1, <2>2
<1>9. \A z \in Within(M) : z = x \/ z \in Within(L)
  <2> SUFFICES ASSUME NEW d \in 0..MaxClients, NEW i \in 1..Len(M[d])
               PROVE  M[d][i] = x \/ M[d][i] \in Within(L)
    BY InLanes
  <2> QED
    BY <1>6, <1>7
<1> QED
  BY <1>4, <1>8, <1>9 DEF M, s

LEMMA WithoutTyped ==
    ASSUME NEW T, NEW s \in Seq(T), NEW i \in 1..Len(s)
    PROVE  Without(s, i) \in Seq(T)
BY DEF Without

LEMMA WithoutPlaces ==
    ASSUME NEW S, NEW s \in Seq(S), NEW i \in 1..Len(s)
    PROVE  /\ Len(Without(s, i)) = Len(s) - 1
           /\ \A j \in 1..(Len(s) - 1) : Without(s, i)[j] = s[IF j < i THEN j ELSE j + 1]
<1> DEFINE n == Len(s)
           l == SubSeq(s, 1, i - 1)
           r == SubSeq(s, i + 1, n)
<1>1. n \in Nat /\ i \in 1..n
  OBVIOUS
<1>2. l \in Seq(S) /\ Len(l) = i - 1 /\ \A j \in 1..(i - 1) : l[j] = s[j]
  OBVIOUS
<1>3. r \in Seq(S) /\ Len(r) = n - i /\ \A j \in 1..(n - i) : r[j] = s[j + i]
  OBVIOUS
<1>4. Without(s, i) = l \o r
  BY DEF Without
<1> HIDE DEF n, l, r
<1>5. Len(l \o r) = n - 1
  <2>1. Len(l \o r) = Len(l) + Len(r)
    BY <1>2, <1>3, ConcatProperties
  <2> QED
    BY <1>1, <1>2, <1>3, <2>1
<1>6. ASSUME NEW j \in 1..(n - 1) PROVE (l \o r)[j] = s[IF j < i THEN j ELSE j + 1]
  <2>1. CASE j < i
    <3>1. j \in 1..Len(l)
      BY <1>1, <1>2, <2>1
    <3>2. (l \o r)[j] = l[j]
      BY <1>2, <1>3, <3>1
    <3> QED
      BY <1>2, <2>1, <3>1, <3>2
  <2>2. CASE ~(j < i)
    <3>1. j - Len(l) \in 1..Len(r) /\ (j - Len(l)) + i = j + 1 /\ j > Len(l) /\ j <= Len(l) + Len(r)
      BY <1>1, <1>2, <1>3, <2>2
    <3>2. (l \o r)[j] = r[j - Len(l)]
      BY <1>2, <1>3, <3>1
    <3>3. r[j - Len(l)] = s[j + 1]
      BY <1>3, <3>1
    <3> QED
      BY <2>2, <3>2, <3>3
  <2> QED
    BY <2>1, <2>2
<1> QED
  BY <1>4, <1>5, <1>6 DEF n

(* A call is taken away.                                                   *)

LEMMA LaneRemoved ==
    ASSUME NEW L \in AllLanes, AllApart(L), NEW c \in 0..MaxClients, NEW i \in 1..Len(L[c])
    PROVE  LET M == [L EXCEPT ![c] = Without(L[c], i)] IN
           /\ M \in AllLanes
           /\ AllApart(M)
           /\ Within(M) \subseteq Within(L)
           /\ \A z \in Within(M) : Apart(L[c][i], z)
<1> DEFINE s == Without(L[c], i)
           M == [L EXCEPT ![c] = s]
           n == Len(L[c])
           old(j) == IF j < i THEN j ELSE j + 1
<1>1. L[c] \in Seq(Item) /\ n \in Nat
  BY DEF AllLanes
<1>2. s \in Seq(Item)
  BY <1>1, WithoutTyped
<1>3. Len(s) = n - 1 /\ \A j \in 1..(n - 1) : s[j] = L[c][old(j)]
  BY <1>1, WithoutPlaces
<1>4. \A j \in 1..(n - 1) : old(j) \in 1..n /\ old(j) # i
  BY <1>1
<1>5. \A j, h \in 1..(n - 1) : j # h => old(j) # old(h)
  BY <1>1
<1> HIDE DEF s, n, old
<1>6. M \in AllLanes
  BY <1>2 DEF AllLanes
<1>7. M[c] = s /\ \A d \in 0..MaxClients : d # c => M[d] = L[d]
  BY DEF AllLanes
<1> HIDE DEF M
<1> DEFINE at(d, j) == IF d = c THEN old(j) ELSE j
<1>8. \A d \in 0..MaxClients : \A j \in 1..Len(M[d]) :
          at(d, j) \in 1..Len(L[d]) /\ M[d][j] = L[d][at(d, j)] /\ (d # c \/ at(d, j) # i)
  BY <1>3, <1>4, <1>7 DEF n
<1>9. \A d \in 0..MaxClients : \A j, h \in 1..Len(M[d]) : j # h => at(d, j) # at(d, h)
  BY <1>3, <1>5, <1>7
<1> HIDE DEF at
<1>10. AllApart(M)
  <2> SUFFICES ASSUME NEW d \in 0..MaxClients, NEW e \in 0..MaxClients,
                      NEW j \in 1..Len(M[d]), NEW h \in 1..Len(M[e]), d # e \/ j # h
               PROVE  Apart(M[d][j], M[e][h])
    BY DEF AllApart
  <2>1. d # e \/ at(d, j) # at(e, h)
    BY <1>9
  <2> QED
    BY <1>8, <2>1 DEF AllApart
<1>11. \A z \in Within(M) : z \in Within(L) /\ Apart(L[c][i], z)
  <2> SUFFICES ASSUME NEW d \in 0..MaxClients, NEW j \in 1..Len(M[d])
               PROVE  M[d][j] \in Within(L) /\ Apart(L[c][i], M[d][j])
    BY InLanes
  <2>1. M[d][j] \in Within(L)
    BY <1>8, InLanes
  <2>2. Apart(L[c][i], M[d][j])
    BY <1>8 DEF AllApart
  <2> QED
    BY <2>1, <2>2
<1> QED
  BY <1>6, <1>10, <1>11 DEF M, s

(* A call that makes a step of its own keeps its place.                    *)
Alike(x, z) == x.method = z.method /\ x.output = z.output

LEMMA LaneChanged ==
    ASSUME NEW L \in AllLanes, AllApart(L), NEW c \in 0..MaxClients, NEW i \in 1..Len(L[c]),
           NEW x \in Item, Alike(x, L[c][i])
    PROVE  LET M == [L EXCEPT ![c] = [L[c] EXCEPT ![i] = x]] IN
           /\ M \in AllLanes
           /\ AllApart(M)
           /\ \A z \in Within(M) : z = x \/ (z \in Within(L) /\ Apart(L[c][i], z))
<1> DEFINE s == [L[c] EXCEPT ![i] = x]
           M == [L EXCEPT ![c] = s]
<1>1. L[c] \in Seq(Item)
  BY DEF AllLanes
<1>2. s \in Seq(Item) /\ Len(s) = Len(L[c]) /\ s[i] = x
      /\ \A j \in 1..Len(L[c]) : j # i => s[j] = L[c][j]
  BY <1>1
<1> HIDE DEF s
<1>3. M \in AllLanes
  BY <1>2 DEF AllLanes
<1>4. M[c] = s /\ \A d \in 0..MaxClients : d # c => M[d] = L[d]
  BY DEF AllLanes
<1> HIDE DEF M
<1>5. \A d \in 0..MaxClients : \A j \in 1..Len(M[d]) :
          /\ j \in 1..Len(L[d])
          /\ IF d = c /\ j = i THEN M[d][j] = x ELSE M[d][j] = L[d][j]
  BY <1>2, <1>4
<1>6. \A z : Apart(L[c][i], z) => Apart(x, z)
  BY DEF Apart, Alike, ForImage
<1>7. AllApart(M)
  <2> SUFFICES ASSUME NEW d \in 0..MaxClients, NEW e \in 0..MaxClients,
                      NEW j \in 1..Len(M[d]), NEW h \in 1..Len(M[e]), d # e \/ j # h
               PROVE  Apart(M[d][j], M[e][h])
    BY DEF AllApart
  <2>1. Apart(L[d][j], L[e][h])
    BY <1>5 DEF AllApart
  <2>2. CASE d = c /\ j = i
    BY <1>5, <1>6, <2>1, <2>2
  <2>3. CASE e = c /\ h = i
    <3>1. Apart(x, L[d][j])
      BY <1>6, <2>1, <2>3, ApartSymmetric
    <3> QED
      BY <1>5, <2>3, <3>1, ApartSymmetric
  <2>4. CASE ~(d = c /\ j = i) /\ ~(e = c /\ h = i)
    BY <1>5, <2>1, <2>4
  <2> QED
    BY <2>2, <2>3, <2>4
<1>8. ASSUME NEW z \in Within(M), z # x PROVE z \in Within(L) /\ Apart(L[c][i], z)
  <2>1. PICK d \in 0..MaxClients : \E j \in 1..Len(M[d]) : z = M[d][j]
    BY InLanes
  <2>2. PICK j \in 1..Len(M[d]) : z = M[d][j]
    BY <2>1
  <2>3. j \in 1..Len(L[d]) /\ ~(d = c /\ j = i) /\ z = L[d][j]
    BY <1>5, <1>8, <2>2
  <2>4. Apart(L[c][i], z)
    BY <2>3 DEF AllApart
  <2> QED
    BY <2>3, <2>4, InLanes
<1> QED
  BY <1>3, <1>7, <1>8 DEF M, s

-----------------------------------------------------------------------------
(* What a change of the buffer state leaves good.                          *)

LEMMA CallbacksAppend ==
    ASSUME NEW l \in Seq(Entry), NEW f \in Entry
    PROVE  Callbacks(Append(l, f)) = Append(Callbacks(l), CallOf(f))
<1> DEFINE m == Append(l, f)
           n == Len(l)
<1>1. n \in Nat /\ m \in Seq(Entry) /\ Len(m) = n + 1 /\ m[n + 1] = f /\ \A i \in 1..n : m[i] = l[i]
  OBVIOUS
<1>2. CallOf(f) \in Item
  BY EntryFields
<1>3. Callbacks(l) \in Seq(Item) /\ Len(Callbacks(l)) = n /\ \A j \in 1..n : Callbacks(l)[j] = CallOf(l[j])
  BY CallbacksTyped
<1>4. Callbacks(m) \in Seq(Item) /\ Len(Callbacks(m)) = n + 1
      /\ \A j \in 1..(n + 1) : Callbacks(m)[j] = CallOf(m[j])
  BY <1>1, CallbacksTyped
<1> HIDE DEF m, n
<1> DEFINE s == Append(Callbacks(l), CallOf(f))
<1>5. s \in Seq(Item) /\ Len(s) = n + 1 /\ s[n + 1] = CallOf(f) /\ \A j \in 1..n : s[j] = CallOf(l[j])
  BY <1>2, <1>3
<1> HIDE DEF s
<1>6. \A j \in 1..(n + 1) : Callbacks(m)[j] = s[j]
  <2>1. \A j \in 1..(n + 1) : j = n + 1 \/ j \in 1..n
    BY <1>1
  <2> QED
    BY <1>1, <1>4, <1>5, <2>1
<1>7. Callbacks(m) = s
  BY <1>4, <1>5, <1>6, SeqEqual
<1> QED
  BY <1>7 DEF m, s

LEMMA CallbacksTail ==
    ASSUME NEW l \in Seq(Entry), l # <<>>
    PROVE  /\ Callbacks(Tail(l)) = Without(Callbacks(l), 1)
           /\ 1 \in 1..Len(Callbacks(l)) /\ Callbacks(l)[1] = CallOf(Head(l))
           /\ Tail(l) \in Seq(Entry)
<1> DEFINE n == Len(l)
           m == Tail(l)
           s == Callbacks(l)
           t == Without(s, 1)
<1>1. n \in Nat /\ n > 0 /\ m \in Seq(Entry) /\ Len(m) = n - 1 /\ \A j \in 1..(n - 1) : m[j] = l[j + 1]
  OBVIOUS
<1>2. s \in Seq(Item) /\ Len(s) = n /\ \A j \in 1..n : s[j] = CallOf(l[j])
  BY CallbacksTyped
<1>3. Callbacks(m) \in Seq(Item) /\ Len(Callbacks(m)) = n - 1
      /\ \A j \in 1..(n - 1) : Callbacks(m)[j] = CallOf(m[j])
  BY <1>1, CallbacksTyped
<1>4. 1 \in 1..n /\ Head(l) = l[1]
  BY <1>1
<1> HIDE DEF s, m, n
<1>5. t \in Seq(Item) /\ Len(t) = n - 1
      /\ \A j \in 1..(n - 1) : t[j] = s[IF j < 1 THEN j ELSE j + 1]
  BY <1>2, <1>4, WithoutTyped, WithoutPlaces
<1> HIDE DEF t
<1>6. \A j \in 1..(n - 1) : Callbacks(m)[j] = t[j]
  <2> SUFFICES ASSUME NEW j \in 1..(n - 1) PROVE Callbacks(m)[j] = t[j]
    OBVIOUS
  <2>1. ~(j < 1) /\ j + 1 \in 1..n
    BY <1>1
  <2>2. t[j] = s[j + 1]
    BY <1>5, <2>1
  <2> QED
    BY <1>1, <1>2, <1>3, <2>1, <2>2
<1>7. Callbacks(m) = t
  BY <1>3, <1>5, <1>6, SeqEqual
<1> QED
  BY <1>1, <1>2, <1>4, <1>7 DEF s, m, t

(* A handler finds what was under way without the call of its frame.       *)

(* The pending calls of a client become callbacks.                         *)
LEMMA LaneFailed ==
    ASSUME NEW cs \in [Clients -> Seq(Call)], NEW l \in Seq(Entry),
           AllApart(Lanes(cs, l)), NEW c \in Clients,
           NEW g \in Seq(Entry), Len(g) = Len(cs[c]),
           \A i \in 1..Len(cs[c]) : CallOf(g[i]) = cs[c][i]
    PROVE  LET M == Lanes([cs EXCEPT ![c] = <<>>], l \o g) IN
           /\ AllApart(M)
           /\ Within(M) \subseteq Within(Lanes(cs, l))
<1> DEFINE L == Lanes(cs, l)
           ds == [cs EXCEPT ![c] = <<>>]
           m == l \o g
           M == Lanes(ds, m)
           n == Len(l)
           t == Len(cs[c])
<1>1. /\ L \in AllLanes /\ L[0] = Callbacks(l)
      /\ AllApart(L)
      /\ \A d \in Clients : L[d] = cs[d]
  BY LanesTyped
<1>2. c \in 0..MaxClients /\ c # 0 /\ 0 \in 0..MaxClients
      /\ \A d \in 0..MaxClients : d # 0 => d \in Clients
  BY ClientNumbers
<1>3. ds \in [Clients -> Seq(Call)] /\ ds[c] = <<>>
      /\ \A d \in Clients : d # c => ds[d] = cs[d]
  OBVIOUS
<1>4. cs[c] \in Seq(Call) /\ t \in Nat /\ n \in Nat
  OBVIOUS
<1>5. Len(g) = t /\ \A i \in 1..t : CallOf(g[i]) = cs[c][i]
  OBVIOUS
<1>6. /\ m \in Seq(Entry) /\ Len(m) = n + t
      /\ \A i \in 1..(n + t) : m[i] = IF i <= n THEN l[i] ELSE g[i - n]
  <2>1. /\ Len(l \o g) = Len(l) + Len(g)
        /\ \A i \in 1..(Len(l) + Len(g)) :
              (l \o g)[i] = IF i <= Len(l) THEN l[i] ELSE g[i - Len(l)]
    <3> HIDE DEF n, t, m
    <3> QED
      BY ConcatProperties
  <2>2. Len(g) = t /\ Len(l) = n
    BY <1>5
  <2>3. m \in Seq(Entry)
    OBVIOUS
  <2> QED
    BY <2>1, <2>2, <2>3
<1> HIDE DEF m, ds
<1>7. /\ L[c] = cs[c] /\ Len(L[0]) = n
      /\ \A i \in 1..n : L[0][i] = CallOf(l[i])
  BY <1>1, CallbacksTyped
<1>8. /\ M[c] = <<>> /\ M[0] = Callbacks(m)
      /\ \A d \in 0..MaxClients : d # 0 /\ d # c => M[d] = L[d]
  BY <1>1, <1>2, <1>3, <1>6, LanesTyped
<1>9. /\ Len(M[0]) = n + t
      /\ \A i \in 1..(n + t) : M[0][i] = IF i <= n THEN L[0][i] ELSE L[c][i - n]
  <2>1. Len(Callbacks(m)) = n + t /\ \A i \in 1..(n + t) : Callbacks(m)[i] = CallOf(m[i])
    BY <1>1, <1>6, CallbacksTyped
  <2>2. ASSUME NEW i \in 1..(n + t)
        PROVE  CallOf(m[i]) = IF i <= n THEN L[0][i] ELSE L[c][i - n]
    <3>1. CASE i <= n
      BY <1>4, <1>6, <1>7, <3>1
    <3>2. CASE ~(i <= n)
      <4>1. i - n \in 1..t
        BY <1>4, <3>2
      <4> QED
        BY <1>5, <1>6, <1>7, <3>2, <4>1
    <3> QED
      BY <3>1, <3>2
  <2> QED
    BY <1>8, <2>1, <2>2
<1> HIDE DEF L, M
(* Every place of the new lanes is one of the old lanes.                   *)
<1>10. ASSUME NEW d \in 0..MaxClients, NEW i \in 1..Len(M[d])
       PROVE  \/ ~(d = 0 /\ i > n) /\ d # c /\ i \in 1..Len(L[d]) /\ M[d][i] = L[d][i]
              \/ d = 0 /\ i > n /\ i - n \in 1..Len(L[c]) /\ M[d][i] = L[c][i - n]
  <2>1. CASE d = 0 /\ i <= n
    BY <1>2, <1>4, <1>7, <1>9, <2>1
  <2>2. CASE d = 0 /\ ~(i <= n)
    BY <1>4, <1>7, <1>9, <2>2
  <2>3. CASE d = c
    BY <1>8, <2>3
  <2>4. CASE d # 0 /\ d # c
    BY <1>8, <2>4
  <2> QED
    BY <2>1, <2>2, <2>3, <2>4
<1>11. AllApart(M)
  <2> SUFFICES ASSUME NEW d \in 0..MaxClients, NEW e \in 0..MaxClients,
                      NEW i \in 1..Len(M[d]), NEW j \in 1..Len(M[e]), d # e \/ i # j
               PROVE  Apart(M[d][i], M[e][j])
    BY DEF AllApart
  <2>1. i \in Nat /\ j \in Nat
    OBVIOUS
  <2>2. CASE d = 0 /\ i > n /\ e = 0 /\ j > n
    <3>1. /\ i - n \in 1..Len(L[c]) /\ M[d][i] = L[c][i - n]
          /\ j - n \in 1..Len(L[c]) /\ M[e][j] = L[c][j - n] /\ i - n # j - n
      BY <1>4, <1>10, <2>1, <2>2
    <3> QED
      BY <1>1, <1>2, <3>1 DEF AllApart
  <2>3. CASE d = 0 /\ i > n /\ ~(e = 0 /\ j > n)
    <3>1. /\ i - n \in 1..Len(L[c]) /\ M[d][i] = L[c][i - n]
          /\ j \in 1..Len(L[e]) /\ M[e][j] = L[e][j] /\ e # c
      BY <1>10, <2>3
    <3> QED
      BY <1>1, <1>2, <3>1 DEF AllApart
  <2>4. CASE ~(d = 0 /\ i > n) /\ e = 0 /\ j > n
    <3>1. /\ i \in 1..Len(L[d]) /\ M[d][i] = L[d][i] /\ d # c
          /\ j - n \in 1..Len(L[c]) /\ M[e][j] = L[c][j - n]
      BY <1>10, <2>4
    <3> QED
      BY <1>1, <1>2, <3>1 DEF AllApart
  <2>5. CASE ~(d = 0 /\ i > n) /\ ~(e = 0 /\ j > n)
    <3>1. /\ i \in 1..Len(L[d]) /\ M[d][i] = L[d][i]
          /\ j \in 1..Len(L[e]) /\ M[e][j] = L[e][j]
      BY <1>10, <2>5
    <3> QED
      BY <1>1, <3>1 DEF AllApart
  <2> QED
    BY <2>2, <2>3, <2>4, <2>5
<1>12. ASSUME NEW y \in Within(M) PROVE y \in Within(L)
  <2>1. PICK d \in 0..MaxClients : \E i \in 1..Len(M[d]) : y = M[d][i]
    BY InLanes
  <2>2. PICK i \in 1..Len(M[d]) : y = M[d][i]
    BY <2>1
  <2>3. \/ i \in 1..Len(L[d]) /\ y = L[d][i]
        \/ i - n \in 1..Len(L[c]) /\ y = L[c][i - n]
    BY <1>10, <2>2
  <2>4. CASE i \in 1..Len(L[d]) /\ y = L[d][i]
    BY <2>4, InLanes
  <2>5. CASE i - n \in 1..Len(L[c]) /\ y = L[c][i - n]
    BY <1>2, <2>5, InLanes
  <2> QED
    BY <2>3, <2>4, <2>5
<1> QED
  BY <1>11, <1>12 DEF L, M, m, ds

(* Two calls that the image of one output waits for are one.               *)
LEMMA OneCall ==
    ASSUME NEW L \in AllLanes, AllApart(L), NEW x \in Within(L), NEW y \in Within(L),
           ForImage(x), ForImage(y), x.output = y.output
    PROVE  x = y
<1>1. PICK c \in 0..MaxClients : \E i \in 1..Len(L[c]) : x = L[c][i]
  BY InLanes
<1>2. PICK d \in 0..MaxClients : \E j \in 1..Len(L[d]) : y = L[d][j]
  BY InLanes
<1>3. ~ Apart(x, y)
  BY DEF Apart
<1> QED
  BY <1>1, <1>2, <1>3 DEF AllApart

LEMMA AskedWithin ==
    ASSUME NEW cs \in [Clients -> Seq(Call)], NEW l \in Seq(Entry), NEW c \in Clients
    PROVE  /\ Asked(cs, c) \subseteq Within(Lanes(cs, l))
           /\ Asked(cs, c) \subseteq Call
           /\ \A i \in 1..Len(cs[c]) : cs[c][i] \in Asked(cs, c)
<1>1. Lanes(cs, l)[c] = cs[c] /\ c \in 0..MaxClients
  BY LanesTyped, ClientNumbers
<1>2. cs[c] \in Seq(Call)
  OBVIOUS
<1>3. \A i \in 1..Len(cs[c]) : cs[c][i] \in Within(Lanes(cs, l))
  BY <1>1, InLanes
<1> QED
  BY <1>2, <1>3 DEF Asked

LEMMA AskedNone ==
    ASSUME NEW cs, NEW c, cs[c] \in Seq(Call)
    PROVE  Asked(cs, c) = {} <=> cs[c] = <<>>
<1> DEFINE s == cs[c]
<1>1. s \in Seq(Call) /\ Len(s) \in Nat
  OBVIOUS
<1>2. s = <<>> => Len(s) = 0
  OBVIOUS
<1>3. Len(s) = 0 => s = <<>>
  BY <1>1
<1>4. Len(s) # 0 => 1 \in 1..Len(s)
  BY <1>1
<1> HIDE DEF s
<1>5. Asked(cs, c) = {s[i] : i \in 1..Len(s)}
  BY DEF Asked, s
<1>6. Len(s) = 0 => Asked(cs, c) = {}
  BY <1>5
<1>7. Len(s) # 0 => Asked(cs, c) # {}
  BY <1>4, <1>5
<1> QED
  BY <1>2, <1>3, <1>6, <1>7 DEF s

LEMMA AskedElsewhere ==
    ASSUME NEW cs, NEW ds, NEW c, cs[c] = ds[c]
    PROVE  Asked(cs, c) = Asked(ds, c)
BY DEF Asked

(* What Client:call leaves under way.                                      *)
LEMMA SendKeeps ==
    ASSUME NEW x \in Call, NEW cs \in [Clients -> Seq(Call)], NEW l \in Seq(Entry),
           Send(x, Waiting(cs, l)), LanesGood(cs, l),
           \A z \in Within(Lanes(cs, l)) : Apart(x, z),
           NEW p, FramesGood(cs, p), NEW sd, SendingGood(cs, sd)
    PROVE  /\ calls' \in [Clients -> Seq(Call)] /\ loop' \in Seq(Entry)
           /\ LanesGood(calls', loop') /\ FramesGood(calls', p) /\ SendingGood(calls', sd)
           /\ \A z \in Within(Lanes(calls', loop')) : z = x \/ z \in Within(Lanes(cs, l))
           /\ \A c \in Clients :
                /\ Asked(cs, c) \subseteq Asked(calls', c)
                /\ \A z \in Asked(calls', c) : z \in Asked(cs, c) \/ (z = x /\ c = x.client)
<1> DEFINE f == [call |-> x, err |-> "gone", image_id |-> 0]
           L == Lanes(cs, l)
           M == Lanes(calls', loop')
<1>1. f \in Reply /\ f.err = "gone" /\ f.call = x
  BY DEF Reply
<1> HIDE DEF f
<1>2. f \in Entry /\ CallOf(f) = x /\ f \notin OnExit
  BY <1>1, EntryFields DEF Entry
<1>3. /\ L \in AllLanes /\ AllApart(L) /\ L[0] = Callbacks(l) /\ x \in Item
      /\ \A z \in Within(L) : Apart(x, z)
      /\ \A c \in Clients : L[c] = cs[c]
  BY LanesTyped DEF LanesGood, Item
<1>4. x.client \in Clients /\ x.client \in 0..MaxClients /\ x.client # 0 /\ 0 \in 0..MaxClients
  BY CallFields, ClientNumbers
<1>5. CASE x.client \in exited \union closed
  <2>1. loop' = Append(l, f) /\ calls' = cs
    BY <1>5 DEF Send, Waiting, f
  <2>2. loop' \in Seq(Entry) /\ Callbacks(loop') = Append(Callbacks(l), x)
    BY <1>2, <2>1, CallbacksAppend
  <2>3. Len(loop') = Len(l) + 1 /\ Len(l) \in Nat /\ loop'[Len(l) + 1] = f
        /\ \A i \in 1..Len(l) : loop'[i] = l[i]
    BY <1>2, <2>1
  <2>4. M = [L EXCEPT ![0] = Append(L[0], x)]
    BY <1>3, <1>4, <2>1, <2>2, ClientNumbers DEF Lanes
  <2>5. AllApart(M) /\ \A z \in Within(M) : z = x \/ z \in Within(L)
    <3> HIDE DEF L, M
    <3> QED
      BY <1>3, <1>4, <2>4, LaneAppended
  <2>6. \A j \in 1..Len(loop') : loop'[j] \notin OnExit => loop'[j].err = "gone"
    BY <1>1, <2>3 DEF LanesGood
  <2> QED
    BY <2>1, <2>2, <2>5, <2>6 DEF LanesGood
<1>6. CASE x.client \notin exited \union closed
  <2>1. loop' = l /\ calls' = [cs EXCEPT ![x.client] = Append(cs[x.client], x)]
    BY <1>6 DEF Send, Waiting
  <2> DEFINE n == Len(cs[x.client])
             s == Append(cs[x.client], x)
  <2>2. n \in Nat /\ s \in Seq(Call) /\ Len(s) = n + 1 /\ s[n + 1] = x /\ \A i \in 1..n : s[i] = cs[x.client][i]
    BY <1>4
  <2>3. /\ calls' \in [Clients -> Seq(Call)] /\ calls'[x.client] = s
        /\ \A c \in Clients : c # x.client => calls'[c] = cs[c]
    BY <1>4, <2>1, <2>2
  <2>4. M = [L EXCEPT ![x.client] = Append(L[x.client], x)]
    BY <1>3, <1>4, <2>1, ClientNumbers DEF Lanes
  <2>5. AllApart(M) /\ \A z \in Within(M) : z = x \/ z \in Within(L)
    <3> HIDE DEF L, M
    <3> QED
      BY <1>3, <1>4, <2>4, LaneAppended
  <2> HIDE DEF s
  <2>6. ASSUME NEW c \in Clients
        PROVE  /\ Asked(cs, c) \subseteq Asked(calls', c)
               /\ \A z \in Asked(calls', c) : z \in Asked(cs, c) \/ (z = x /\ c = x.client)
    <3>1. CASE c # x.client
      BY <2>3, <3>1 DEF Asked
    <3>2. CASE c = x.client
      <4>1. calls'[c] = s
        BY <2>3, <3>2
      <4>2. \A i \in 1..(n + 1) : i = n + 1 \/ i \in 1..n
        BY <2>2
      <4>3. \A i \in 1..n : i \in 1..(n + 1)
        BY <2>2
      <4> QED
        BY <2>2, <3>2, <4>1, <4>2, <4>3 DEF Asked
    <3> QED
      BY <3>1, <3>2
  <2>7. \A c \in Clients : \A z \in Asked(calls', c) : z.client = c
    BY <2>6 DEF LanesGood
  <2>8. FramesGood(calls', p)
    BY <2>6 DEF FramesGood, FrameGood
  <2>9. SendingGood(calls', sd)
    BY <2>6 DEF SendingGood
  <2> QED
    BY <2>1, <2>3, <2>5, <2>6, <2>7, <2>8, <2>9 DEF LanesGood
<1> QED
  BY <1>5, <1>6

(* A call is taken from those of client c, with its reply if it has one.   *)
LEMMA RemovalKeeps ==
    ASSUME NEW cs \in [Clients -> Seq(Call)], NEW l \in Seq(Entry),
           LanesGood(cs, l), NEW c \in Clients, NEW i \in 1..Len(cs[c])
    PROVE  LET ds == [cs EXCEPT ![c] = Without(cs[c], i)] IN
           /\ ds \in [Clients -> Seq(Call)] /\ LanesGood(ds, l)
           /\ cs[c][i] \in Asked(cs, c)
           /\ Within(Lanes(ds, l)) \subseteq Within(Lanes(cs, l))
           /\ \A z \in Within(Lanes(ds, l)) : Apart(cs[c][i], z)
           /\ \A d \in Clients :
                /\ Asked(ds, d) \subseteq Asked(cs, d)
                /\ \A z \in Asked(cs, d) : z = cs[c][i] \/ z \in Asked(ds, d)
<1> DEFINE s == Without(cs[c], i)
           ds == [cs EXCEPT ![c] = s]
           L == Lanes(cs, l)
           M == Lanes(ds, l)
           n == Len(cs[c])
<1>1. /\ L \in AllLanes /\ AllApart(L) /\ L[0] = Callbacks(l)
      /\ \A d \in Clients : L[d] = cs[d]
  BY LanesTyped DEF LanesGood
<1>2. c \in 0..MaxClients /\ c # 0
  BY ClientNumbers
<1>3. s \in Seq(Call)
  BY WithoutTyped
<1>4. Len(s) = n - 1 /\ n \in Nat
      /\ \A j \in 1..(n - 1) : s[j] = cs[c][IF j < i THEN j ELSE j + 1]
  BY WithoutPlaces
<1>5. /\ ds \in [Clients -> Seq(Call)] /\ ds[c] = s
      /\ \A d \in Clients : d # c => ds[d] = cs[d]
  BY <1>3
<1>6. M = [L EXCEPT ![c] = Without(L[c], i)] /\ i \in 1..Len(L[c]) /\ L[c][i] = cs[c][i]
  BY <1>1, <1>2, ClientNumbers DEF Lanes
<1> HIDE DEF M, L
<1>7. /\ AllApart(M) /\ Within(M) \subseteq Within(L)
      /\ \A z \in Within(M) : Apart(cs[c][i], z)
  BY <1>1, <1>2, <1>6, LaneRemoved
<1> HIDE DEF s, ds
<1>8. ASSUME NEW d \in Clients
      PROVE  /\ Asked(ds, d) \subseteq Asked(cs, d)
             /\ \A z \in Asked(cs, d) : z = cs[c][i] \/ z \in Asked(ds, d)
  <2>1. CASE d # c
    BY <1>5, <2>1 DEF Asked
  <2>2. CASE d = c
    <3>1. ASSUME NEW j \in 1..Len(ds[c]) PROVE \E k \in 1..n : ds[c][j] = cs[c][k]
      <4>1. (IF j < i THEN j ELSE j + 1) \in 1..n /\ j \in 1..(n - 1)
        BY <1>4, <1>5
      <4> QED
        BY <1>4, <1>5, <4>1
    <3>2. ASSUME NEW k \in 1..n, k # i PROVE \E j \in 1..Len(ds[c]) : ds[c][j] = cs[c][k]
      <4>1. CASE k < i
        <5>1. k \in 1..(n - 1) /\ s[k] = cs[c][k]
          BY <1>4, <4>1
        <5> QED
          BY <1>4, <1>5, <5>1
      <4>2. CASE ~(k < i)
        <5>1. k - 1 \in 1..(n - 1) /\ ~(k - 1 < i) /\ (k - 1) + 1 = k
          BY <1>4, <3>2, <4>2
        <5>2. s[k - 1] = cs[c][k]
          BY <1>4, <5>1
        <5> QED
          BY <1>4, <1>5, <5>1, <5>2
      <4> QED
        BY <4>1, <4>2
    <3>3. ASSUME NEW z \in Asked(ds, c) PROVE z \in Asked(cs, c)
      <4>1. PICK j \in 1..Len(ds[c]) : z = ds[c][j]
        BY DEF Asked
      <4> QED
        BY <3>1, <4>1 DEF Asked
    <3>4. ASSUME NEW z \in Asked(cs, c), z # cs[c][i] PROVE z \in Asked(ds, c)
      <4>1. PICK k \in 1..n : z = cs[c][k]
        BY DEF Asked
      <4>2. k # i
        BY <3>4, <4>1
      <4>3. PICK j \in 1..Len(ds[c]) : ds[c][j] = cs[c][k]
        BY <3>2, <4>2
      <4> QED
        BY <4>1, <4>3 DEF Asked
    <3> QED
      BY <2>2, <3>3, <3>4
  <2> QED
    BY <2>1, <2>2
<1>9. LanesGood(ds, l)
  BY <1>7, <1>8 DEF LanesGood, M
<1>10. cs[c][i] \in Asked(cs, c)
  BY DEF Asked
<1> QED
  BY <1>5, <1>7, <1>8, <1>9, <1>10 DEF M, L, ds, s

LEMMA FrameWithin ==
    ASSUME NEW p \in [Clients -> Seq(Reply)], NEW c \in Clients, NEW k \in 1..Len(p[c])
    PROVE  p[c][k] \in Reply /\ p[c][k].call \in Call /\ p[c][k].image_id \in Ids \union {0}
<1>1. p[c] \in Seq(Reply)
  OBVIOUS
<1>2. p[c][k] \in Reply
  BY <1>1
<1> QED
  BY <1>2, EntryFields

(* The oldest reply of client c is read.                                   *)
LEMMA ReadKeeps ==
    ASSUME NEW cs \in [Clients -> Seq(Call)], NEW l \in Seq(Entry),
           NEW p \in [Clients -> Seq(Reply)], NEW sd,
           LanesGood(cs, l), FramesGood(cs, p), SendingGood(cs, sd),
           NEW c \in Clients, p[c] # <<>>, NEW i \in 1..Len(cs[c]), cs[c][i] = Head(p[c]).call
    PROVE  LET ds == [cs EXCEPT ![c] = Without(cs[c], i)]
               q == [p EXCEPT ![c] = Tail(p[c])]
           IN  /\ q \in [Clients -> Seq(Reply)]
               /\ FramesGood(ds, q) /\ SendingGood(ds, sd)
               /\ Head(p[c]) \in Reply /\ FrameGood(Head(p[c]), Asked(cs, c))
               /\ \A d \in Clients : \A k \in 1..Len(q[d]) :
                    \E j \in 1..Len(p[d]) : q[d][k] = p[d][j]
               /\ \E k \in 1..Len(p[c]) : p[c][k] = Head(p[c])
               /\ \A d \in Clients : \A k \in 1..Len(p[d]) :
                    (d = c /\ p[d][k] = Head(p[c])) \/ \E j \in 1..Len(q[d]) : q[d][j] = p[d][k]
<1> DEFINE f == Head(p[c])
           ds == [cs EXCEPT ![c] = Without(cs[c], i)]
           q == [p EXCEPT ![c] = Tail(p[c])]
           n == Len(p[c])
<1>1. /\ p[c] \in Seq(Reply) /\ n \in Nat /\ n > 0 /\ f = p[c][1] /\ f \in Reply
      /\ Tail(p[c]) \in Seq(Reply) /\ Len(Tail(p[c])) = n - 1
      /\ \A j \in 1..(n - 1) : Tail(p[c])[j] = p[c][j + 1]
  OBVIOUS
<1>2. /\ q \in [Clients -> Seq(Reply)] /\ q[c] = Tail(p[c])
      /\ \A d \in Clients : d # c => q[d] = p[d]
  BY <1>1
<1>3. /\ cs[c][i] \in Asked(cs, c)
      /\ \A d \in Clients : \A z \in Asked(cs, d) : z = cs[c][i] \/ z \in Asked(ds, d)
  BY RemovalKeeps
<1>4. cs[c][i] = f.call
  OBVIOUS
<1>5. \A d \in Clients : \A z \in Asked(cs, d) : d # c => z \in Asked(ds, d)
  <2>1. \A d \in Clients : d # c => ds[d] = cs[d]
    OBVIOUS
  <2> QED
    BY <2>1 DEF Asked
<1> HIDE DEF q, ds, f
<1>6. \A j \in 1..(n - 1) : j + 1 \in 1..n /\ j + 1 # 1 /\ q[c][j] = p[c][j + 1]
  BY <1>1, <1>2
<1>7. FrameGood(f, Asked(cs, c)) /\ 1 \in 1..n
  BY <1>1 DEF FramesGood
<1>8. ASSUME NEW d \in Clients, NEW k \in 1..Len(q[d])
      PROVE  /\ \E j \in 1..Len(p[d]) : q[d][k] = p[d][j]
             /\ FrameGood(q[d][k], Asked(ds, d))
  <2>1. CASE d # c
    <3>1. q[d] = p[d]
      BY <1>2, <2>1
    <3>2. FrameGood(p[d][k], Asked(cs, d))
      BY <3>1 DEF FramesGood
    <3> QED
      BY <1>5, <2>1, <3>1, <3>2 DEF FrameGood
  <2>2. CASE d = c
    <3>1. k \in 1..(n - 1) /\ k + 1 \in 1..n /\ k + 1 # 1 /\ q[c][k] = p[c][k + 1]
      BY <1>1, <1>2, <1>6, <2>2
    <3>2. FrameGood(p[c][k + 1], Asked(cs, c)) /\ p[c][k + 1].call.output # p[c][1].call.output
      BY <1>7, <3>1 DEF FramesGood
    <3>3. p[c][k + 1].call # f.call
      BY <1>1, <3>2
    <3>4. p[c][k + 1].call \in Asked(ds, c)
      BY <1>3, <1>4, <3>2, <3>3 DEF FrameGood
    <3> QED
      BY <2>2, <3>1, <3>2, <3>4 DEF FrameGood
  <2> QED
    BY <2>1, <2>2
<1>9. ASSUME NEW d \in Clients, NEW k \in 1..Len(q[d]), NEW j \in 1..Len(q[d]), k # j
      PROVE  q[d][k].call.output # q[d][j].call.output
  <2>1. CASE d # c
    BY <1>2, <1>9, <2>1 DEF FramesGood
  <2>2. CASE d = c
    <3>1. k \in 1..(n - 1) /\ j \in 1..(n - 1) /\ k + 1 # j + 1
      BY <1>1, <1>2, <1>9, <2>2
    <3>2. /\ k + 1 \in 1..n /\ q[c][k] = p[c][k + 1]
          /\ j + 1 \in 1..n /\ q[c][j] = p[c][j + 1]
      BY <1>6, <3>1
    <3> QED
      BY <2>2, <3>1, <3>2 DEF FramesGood
  <2> QED
    BY <2>1, <2>2
<1>10. FramesGood(ds, q)
  BY <1>8, <1>9 DEF FramesGood
<1>11. SendingGood(ds, sd)
  <2>1. ~ f.call.sent
    BY <1>7 DEF FrameGood
  <2> QED
    BY <1>3, <1>4, <2>1 DEF SendingGood
<1>12. ASSUME NEW d \in Clients, NEW k \in 1..Len(p[d])
       PROVE  (d = c /\ p[d][k] = f) \/ \E j \in 1..Len(q[d]) : q[d][j] = p[d][k]
  <2>1. CASE d # c
    BY <1>2, <2>1
  <2>2. CASE d = c /\ k # 1
    <3>1. k - 1 \in 1..(n - 1) /\ (k - 1) + 1 = k
      BY <1>1, <2>2
    <3>2. q[c][k - 1] = p[c][k]
      BY <1>6, <3>1
    <3> QED
      BY <1>1, <1>2, <2>2, <3>1, <3>2
  <2>3. CASE d = c /\ k = 1
    BY <1>1, <2>3
  <2> QED
    BY <2>1, <2>2, <2>3
<1> QED
  BY <1>1, <1>2, <1>7, <1>8, <1>10, <1>11, <1>12 DEF ds, q, f

LEMMA Replaced ==
    ASSUME NEW S, NEW s \in Seq(S), NEW i \in 1..Len(s), NEW x \in S
    PROVE  /\ [s EXCEPT ![i] = x] \in Seq(S) /\ Len([s EXCEPT ![i] = x]) = Len(s)
           /\ [s EXCEPT ![i] = x][i] = x
           /\ \A j \in 1..Len(s) : j # i => [s EXCEPT ![i] = x][j] = s[j]
OBVIOUS

(* The pending calls and the replies when call i of client c is answered.  *)
Marked(cs, c, i) == [cs EXCEPT ![c] = [cs[c] EXCEPT ![i] = [cs[c][i] EXCEPT !.sent = FALSE]]]
Replied(cs, p, c, i, err, id) ==
    [p EXCEPT ![c] = Append(p[c], [call |-> [cs[c][i] EXCEPT !.sent = FALSE],
                                   err |-> err, image_id |-> id])]

(* Call i of client c is answered: cs and p become ds and q.               *)
Answered(cs, l, p, ds, q, c, i, err, id) ==
    LET a == [cs[c][i] EXCEPT !.sent = FALSE]
        f == [call |-> a, err |-> err, image_id |-> id]
    IN  /\ ds \in [Clients -> Seq(Call)] /\ q \in [Clients -> Seq(Reply)]
        /\ LanesGood(ds, l) /\ FramesGood(ds, q)
        /\ a \in Call /\ ~a.sent /\ a.method = cs[c][i].method /\ a.output = cs[c][i].output
        /\ \A z \in Within(Lanes(ds, l)) : z = a \/ z \in Within(Lanes(cs, l))
        /\ \A d \in Clients : d # c => Asked(ds, d) = Asked(cs, d)
        /\ \A z \in Asked(ds, c) : z = a \/ (z \in Asked(cs, c) /\ Apart(cs[c][i], z))
        /\ \A z \in Asked(cs, c) : z = cs[c][i] \/ z \in Asked(ds, c)
        /\ \A d \in Clients : \A k \in 1..Len(q[d]) :
             (d = c /\ q[d][k] = f) \/ \E j \in 1..Len(p[d]) : q[d][k] = p[d][j]
        /\ \E k \in 1..Len(q[c]) : q[c][k] = f
        /\ \A d \in Clients : \A k \in 1..Len(p[d]) :
             \E j \in 1..Len(q[d]) : q[d][j] = p[d][k]

(* A pending call without a reply is answered.                             *)
LEMMA AnswerKeeps ==
    ASSUME NEW cs \in [Clients -> Seq(Call)], NEW l \in Seq(Entry),
           NEW p \in [Clients -> Seq(Reply)], NEW sd,
           LanesGood(cs, l), FramesGood(cs, p), SendingGood(cs, sd),
           NEW c \in Clients, NEW i \in 1..Len(cs[c]),
           cs[c][i].sent, ForImage(cs[c][i]),
           sd[c] # Nothing => sd[c].call # cs[c][i],
           NEW err \in {"none", "error"}, NEW id \in Ids \union {0},
           id # 0 <=> cs[c][i].method = "kitty_transmit" /\ err = "none"
    PROVE  /\ Answered(cs, l, p, Marked(cs, c, i), Replied(cs, p, c, i, err, id), c, i, err, id)
           /\ SendingGood(Marked(cs, c, i), sd)
<1> DEFINE x == cs[c][i]
           a == [x EXCEPT !.sent = FALSE]
           s == [cs[c] EXCEPT ![i] = a]
           ds == [cs EXCEPT ![c] = s]
           f == [call |-> a, err |-> err, image_id |-> id]
           q == [p EXCEPT ![c] = Append(p[c], f)]
           L == Lanes(cs, l)
           M == Lanes(ds, l)
           n == Len(cs[c])
           m == Len(p[c])
<1>1. /\ L \in AllLanes /\ AllApart(L) /\ L[0] = Callbacks(l)
      /\ \A d \in Clients : L[d] = cs[d]
  BY LanesTyped DEF LanesGood
<1>2. c \in 0..MaxClients /\ c # 0
  BY ClientNumbers
<1>3. x \in Call /\ x \in Asked(cs, c) /\ x.sent /\ ForImage(x) /\ x.client = c
  BY AskedWithin DEF LanesGood
<1>4. /\ a \in Call /\ a \in Item /\ ~a.sent /\ ForImage(a) /\ Alike(a, x) /\ a.client = c
  BY <1>3 DEF Call, Item, Alike, ForImage
<1>5. f \in Reply /\ f.call = a /\ f.err = err /\ f.image_id = id
  BY <1>4 DEF Reply
<1>6. /\ s \in Seq(Call) /\ Len(s) = n /\ n \in Nat
      /\ s[i] = a /\ \A j \in 1..n : j # i => s[j] = cs[c][j]
  <2>1. a \in Call /\ cs[c] \in Seq(Call) /\ n \in Nat
    BY <1>4
  <2> HIDE DEF a
  <2> QED
    BY <2>1, Replaced
<1>7. /\ ds \in [Clients -> Seq(Call)] /\ ds[c] = s
      /\ \A d \in Clients : d # c => ds[d] = cs[d]
  BY <1>6
<1>8. M = [L EXCEPT ![c] = [L[c] EXCEPT ![i] = a]] /\ i \in 1..Len(L[c]) /\ L[c][i] = x
  BY <1>1, <1>2, ClientNumbers DEF Lanes
<1> HIDE DEF L, M, a
<1>9. /\ AllApart(M)
      /\ \A z \in Within(M) : z = a \/ (z \in Within(L) /\ Apart(x, z))
  BY <1>1, <1>2, <1>4, <1>8, LaneChanged
<1>10. Asked(cs, c) \subseteq Within(L) /\ Asked(ds, c) \subseteq Within(M)
  BY <1>7, AskedWithin DEF L, M
<1> HIDE DEF s, ds
<1>11. /\ \A z \in Asked(ds, c) : z = a \/ (z \in Asked(cs, c) /\ Apart(x, z))
       /\ \A z \in Asked(cs, c) : z = x \/ z \in Asked(ds, c)
       /\ a \in Asked(ds, c)
  <2>1. ASSUME NEW z \in Asked(ds, c), z # a PROVE z \in Asked(cs, c) /\ Apart(x, z)
    <3>1. PICK j \in 1..Len(ds[c]) : z = ds[c][j]
      BY DEF Asked
    <3>2. z = cs[c][j] /\ j \in 1..n
      BY <1>6, <1>7, <2>1, <3>1
    <3> QED
      BY <1>9, <1>10, <2>1, <3>2 DEF Asked
  <2>2. ASSUME NEW z \in Asked(cs, c), z # x PROVE z \in Asked(ds, c)
    <3>1. PICK j \in 1..n : z = cs[c][j]
      BY DEF Asked
    <3>2. z = ds[c][j] /\ j \in 1..Len(ds[c])
      BY <1>6, <1>7, <2>2, <3>1
    <3> QED
      BY <3>2 DEF Asked
  <2>3. a \in Asked(ds, c)
    <3>1. i \in 1..Len(ds[c]) /\ ds[c][i] = a
      BY <1>6, <1>7
    <3> QED
      BY <3>1 DEF Asked
  <2> QED
    BY <2>1, <2>2, <2>3
<1>12. \A d \in Clients : d # c => Asked(ds, d) = Asked(cs, d)
  BY <1>7, AskedElsewhere
<1> HIDE DEF f
<1>13. /\ m \in Nat /\ Append(p[c], f) \in Seq(Reply) /\ Len(Append(p[c], f)) = m + 1
       /\ Append(p[c], f)[m + 1] = f /\ \A k \in 1..m : Append(p[c], f)[k] = p[c][k]
  BY <1>5
<1>14. /\ q \in [Clients -> Seq(Reply)] /\ Len(q[c]) = m + 1 /\ q[c][m + 1] = f
       /\ \A k \in 1..m : q[c][k] = p[c][k]
       /\ \A d \in Clients : d # c => q[d] = p[d]
  BY <1>13
<1> HIDE DEF q, m
<1>15. \A k \in 1..(m + 1) : k = m + 1 \/ k \in 1..m
  BY <1>13
<1>16. /\ \A d \in Clients : \A k \in 1..Len(q[d]) :
             (d = c /\ q[d][k] = f) \/ \E j \in 1..Len(p[d]) : q[d][k] = p[d][j]
       /\ \E k \in 1..Len(q[c]) : q[c][k] = f
       /\ \A d \in Clients : \A k \in 1..Len(p[d]) : \E j \in 1..Len(q[d]) : q[d][j] = p[d][k]
  <2>1. ASSUME NEW d \in Clients, NEW k \in 1..Len(q[d])
        PROVE  (d = c /\ q[d][k] = f) \/ \E j \in 1..Len(p[d]) : q[d][k] = p[d][j]
    BY <1>14, <1>15 DEF m
  <2>2. ASSUME NEW d \in Clients, NEW k \in 1..Len(p[d])
        PROVE  \E j \in 1..Len(q[d]) : q[d][j] = p[d][k]
    <3>1. CASE d = c
      <4>1. k \in 1..(m + 1) /\ q[c][k] = p[c][k]
        BY <1>13, <1>14, <3>1 DEF m
      <4> QED
        BY <1>14, <3>1, <4>1
    <3>2. CASE d # c
      BY <1>14, <3>2
    <3> QED
      BY <3>1, <3>2
  <2>3. m + 1 \in 1..Len(q[c]) /\ q[c][m + 1] = f
    BY <1>13, <1>14
  <2> QED
    BY <2>1, <2>2, <2>3
<1>17. ASSUME NEW d \in Clients, NEW k \in 1..Len(p[d])
       PROVE  /\ FrameGood(p[d][k], Asked(ds, d))
              /\ d = c => p[d][k].call.output # f.call.output
  <2>1. FrameGood(p[d][k], Asked(cs, d))
    BY DEF FramesGood
  <2>2. CASE d # c
    BY <1>12, <2>1, <2>2
  <2>3. CASE d = c
    <3>1. p[d][k].call # x /\ p[d][k].call \in Asked(ds, c)
      BY <1>3, <1>11, <2>1, <2>3 DEF FrameGood
    <3>2. p[d][k].call \in Within(L) /\ x \in Within(L)
      BY <1>3, <1>10, <2>1, <2>3 DEF FrameGood
    <3>3. p[d][k].call.output # x.output
      BY <1>1, <1>3, <2>1, <3>1, <3>2, OneCall DEF FrameGood
    <3>4. FrameGood(p[d][k], Asked(ds, d))
      BY <2>1, <2>3, <3>1 DEF FrameGood
    <3> QED
      BY <1>4, <1>5, <3>3, <3>4 DEF Alike
  <2> QED
    BY <2>2, <2>3
<1>18. FrameGood(f, Asked(ds, c))
  BY <1>4, <1>5, <1>11 DEF FrameGood, Alike
<1>19. FramesGood(ds, q)
  <2>1. ASSUME NEW d \in Clients, NEW k \in 1..Len(q[d]) PROVE FrameGood(q[d][k], Asked(ds, d))
    BY <1>16, <1>17, <1>18
  <2>2. ASSUME NEW d \in Clients, NEW k \in 1..Len(q[d]), NEW j \in 1..Len(q[d]), k # j
        PROVE  q[d][k].call.output # q[d][j].call.output
    <3>1. CASE d # c
      BY <1>14, <2>2, <3>1 DEF FramesGood
    <3>2. CASE d = c
      <4>1. CASE k \in 1..m /\ j \in 1..m
        <5>1. k \in 1..Len(p[c]) /\ j \in 1..Len(p[c])
          BY <4>1 DEF m
        <5>2. p[c][k].call.output # p[c][j].call.output
          BY <2>2, <5>1 DEF FramesGood
        <5> QED
          BY <1>14, <3>2, <4>1, <5>2
      <4>2. CASE k = m + 1
        <5>1. j \in 1..m
          BY <1>14, <1>15, <2>2, <3>2, <4>2
        <5> QED
          BY <1>14, <1>17, <3>2, <4>2, <5>1 DEF m
      <4>3. CASE j = m + 1
        <5>1. k \in 1..m
          BY <1>14, <1>15, <2>2, <3>2, <4>3
        <5> QED
          BY <1>14, <1>17, <3>2, <4>3, <5>1 DEF m
      <4> QED
        BY <1>14, <1>15, <3>2, <4>1, <4>2, <4>3
    <3> QED
      BY <3>1, <3>2
  <2> QED
    BY <2>1, <2>2 DEF FramesGood
<1>20. SendingGood(ds, sd)
  BY <1>11, <1>12 DEF SendingGood
<1>21. LanesGood(ds, l)
  BY <1>4, <1>9, <1>11, <1>12 DEF LanesGood, M
<1>22. a.method = x.method /\ a.output = x.output
  BY <1>4 DEF Alike
<1> HIDE DEF x
<1>23. Answered(cs, l, p, ds, q, c, i, err, id)
  BY <1>4, <1>7, <1>9, <1>11, <1>12, <1>14, <1>16, <1>19, <1>21, <1>22
     DEF a, s, ds, f, q, L, M, x, Answered
<1> QED
  BY <1>20, <1>23 DEF a, s, ds, f, q, x, Marked, Replied

(* The oldest scheduled callback is taken.                                 *)
LEMMA CallbackKeeps ==
    ASSUME NEW cs \in [Clients -> Seq(Call)], NEW l \in Seq(Entry), l # <<>>, LanesGood(cs, l)
    PROVE  /\ Tail(l) \in Seq(Entry) /\ LanesGood(cs, Tail(l))
           /\ Head(l) \in Entry /\ Head(l) \notin OnExit => Head(l).err = "gone"
           /\ Within(Lanes(cs, Tail(l))) \subseteq Within(Lanes(cs, l))
           /\ CallOf(Head(l)) \in Within(Lanes(cs, l))
           /\ \A z \in Within(Lanes(cs, Tail(l))) : Apart(CallOf(Head(l)), z)
           /\ \A j \in 1..Len(Tail(l)) : \E k \in 1..Len(l) : Tail(l)[j] = l[k]
           /\ \E k \in 1..Len(l) : l[k] = Head(l)
<1> DEFINE L == Lanes(cs, l)
           m == Tail(l)
           M == Lanes(cs, m)
<1>1. /\ L \in AllLanes /\ AllApart(L) /\ L[0] = Callbacks(l)
      /\ \A d \in Clients : L[d] = cs[d]
  BY LanesTyped DEF LanesGood
<1>2. /\ m \in Seq(Entry) /\ Callbacks(m) = Without(Callbacks(l), 1)
      /\ 1 \in 1..Len(Callbacks(l)) /\ Callbacks(l)[1] = CallOf(Head(l))
  BY CallbacksTail
<1>3. /\ Len(m) = Len(l) - 1 /\ Len(l) \in Nat /\ Len(l) > 0 /\ Head(l) = l[1]
      /\ \A j \in 1..(Len(l) - 1) : m[j] = l[j + 1]
  OBVIOUS
<1>4. M = [L EXCEPT ![0] = Without(L[0], 1)]
  BY <1>1, <1>2, ClientNumbers DEF Lanes
<1>5. L[0][1] \in Within(L)
  BY <1>1, <1>2, ClientNumbers, InLanes
<1> HIDE DEF L, M, m
<1>6. /\ AllApart(M) /\ Within(M) \subseteq Within(L)
      /\ \A z \in Within(M) : Apart(L[0][1], z)
  <2>1. 1 \in 1..Len(L[0]) /\ 0 \in 0..MaxClients
    BY <1>1, <1>2, ClientNumbers
  <2> QED
    BY <1>1, <1>4, <2>1, LaneRemoved
<1>7. \A j \in 1..Len(m) : j + 1 \in 1..Len(l) /\ m[j] = l[j + 1]
  BY <1>3
<1>8. 1 \in 1..Len(l)
  BY <1>3
<1>9. \A j \in 1..Len(m) : m[j] \notin OnExit => m[j].err = "gone"
  BY <1>7 DEF LanesGood
<1>10. Head(l) \in Entry /\ (Head(l) \notin OnExit => Head(l).err = "gone")
  BY <1>3, <1>8 DEF LanesGood
<1>11. LanesGood(cs, m)
  BY <1>6, <1>9 DEF LanesGood, M
<1> QED
  BY <1>1, <1>2, <1>3, <1>5, <1>6, <1>7, <1>8, <1>10, <1>11 DEF L, M, m

(* The exit of a backend is scheduled.                                     *)
LEMMA ExitScheduled ==
    ASSUME NEW cs \in [Clients -> Seq(Call)], NEW l \in Seq(Entry), LanesGood(cs, l),
           NEW f \in OnExit
    PROVE  /\ Append(l, f) \in Seq(Entry) /\ LanesGood(cs, Append(l, f))
           /\ \A z \in Within(Lanes(cs, Append(l, f))) : z = NoCall \/ z \in Within(Lanes(cs, l))
           /\ \A j \in 1..Len(Append(l, f)) :
                Append(l, f)[j] = f \/ \E k \in 1..Len(l) : Append(l, f)[j] = l[k]
<1> DEFINE L == Lanes(cs, l)
           m == Append(l, f)
           M == Lanes(cs, m)
<1>1. /\ L \in AllLanes /\ AllApart(L) /\ L[0] = Callbacks(l)
      /\ \A d \in Clients : L[d] = cs[d]
  BY LanesTyped DEF LanesGood
<1>2. f \in Entry /\ CallOf(f) = NoCall /\ NoCall \in Item /\ ~ForImage(NoCall)
  BY EntryFields, CallFields DEF Entry, Item, ForImage
<1>3. m \in Seq(Entry) /\ Callbacks(m) = Append(Callbacks(l), NoCall)
  BY <1>2, CallbacksAppend
<1>4. /\ Len(m) = Len(l) + 1 /\ Len(l) \in Nat /\ m[Len(l) + 1] = f
      /\ \A j \in 1..Len(l) : m[j] = l[j]
  BY <1>2
<1>5. M = [L EXCEPT ![0] = Append(L[0], NoCall)]
  BY <1>1, <1>3, ClientNumbers DEF Lanes
<1> HIDE DEF L, M, m
<1>6. AllApart(M) /\ \A z \in Within(M) : z = NoCall \/ z \in Within(L)
  <2>1. \A z \in Within(L) : Apart(NoCall, z)
    BY <1>2 DEF Apart
  <2> QED
    BY <1>1, <1>2, <1>5, <2>1, ClientNumbers, LaneAppended
<1>7. \A j \in 1..Len(m) : m[j] = f \/ (j \in 1..Len(l) /\ m[j] = l[j])
  BY <1>4
<1>8. LanesGood(cs, m)
  BY <1>6, <1>7 DEF LanesGood, M
<1> QED
  BY <1>3, <1>6, <1>7, <1>8 DEF L, M, m

(* The failures of the pending calls of client c, as callbacks.            *)
Gone(cs, c) ==
    [i \in 1..Len(cs[c]) |-> [call |-> cs[c][i], err |-> "gone", image_id |-> 0]]

NoMoreExits(m, l) ==
    \A j \in 1..Len(m) : m[j] \in OnExit => \E k \in 1..Len(l) : m[j] = l[k]

(* The pending calls of a client fail, and its replies are lost.           *)
LEMMA CloseKeeps ==
    ASSUME NEW cs \in [Clients -> Seq(Call)], NEW l \in Seq(Entry),
           NEW p \in [Clients -> Seq(Reply)], NEW sd,
           LanesGood(cs, l), FramesGood(cs, p), SendingGood(cs, sd),
           NEW c \in Clients, sd[c] = Nothing
    PROVE  LET g == Gone(cs, c)
               ds == [cs EXCEPT ![c] = <<>>]
               q == [p EXCEPT ![c] = <<>>]
           IN  /\ ds \in [Clients -> Seq(Call)] /\ q \in [Clients -> Seq(Reply)]
               /\ l \o g \in Seq(Entry)
               /\ LanesGood(ds, l \o g) /\ FramesGood(ds, q) /\ SendingGood(ds, sd)
               /\ Within(Lanes(ds, l \o g)) \subseteq Within(Lanes(cs, l))
               /\ Asked(ds, c) = {} /\ Len(q[c]) = 0
               /\ \A d \in Clients : d # c => Asked(ds, d) = Asked(cs, d) /\ q[d] = p[d]
               /\ NoMoreExits(l \o g, l)
<1> DEFINE g == Gone(cs, c)
           ds == [cs EXCEPT ![c] = <<>>]
           q == [p EXCEPT ![c] = <<>>]
           m == l \o g
           n == Len(l)
<1>1. cs[c] \in Seq(Call) /\ Len(cs[c]) \in Nat
  OBVIOUS
<1>2. /\ g \in Seq(Entry) /\ Len(g) = Len(cs[c])
      /\ \A i \in 1..Len(cs[c]) : g[i] \in Reply /\ g[i].err = "gone" /\ g[i].call = cs[c][i]
  <2>1. \A i \in 1..Len(cs[c]) : g[i] = [call |-> cs[c][i], err |-> "gone", image_id |-> 0]
    BY DEF Gone
  <2>2. \A i \in 1..Len(cs[c]) : cs[c][i] \in Call
    BY <1>1
  <2> HIDE DEF g
  <2>3. \A i \in 1..Len(cs[c]) : g[i] \in Reply /\ g[i].err = "gone" /\ g[i].call = cs[c][i]
    <3> SUFFICES ASSUME NEW i \in 1..Len(cs[c])
                 PROVE  g[i] \in Reply /\ g[i].err = "gone" /\ g[i].call = cs[c][i]
      OBVIOUS
    <3>1. /\ g[i] = [call |-> cs[c][i], err |-> "gone", image_id |-> 0]
          /\ cs[c][i] \in Call
      BY <2>1, <2>2
    <3> QED
      BY <3>1 DEF Reply
  <2>4. \A i \in 1..Len(cs[c]) : g[i] \in Entry
    BY <2>3 DEF Entry
  <2>5. g \in Seq(Entry) /\ Len(g) = Len(cs[c])
    BY <1>1, <2>4 DEF g, Gone
  <2> QED
    BY <2>3, <2>5
<1> HIDE DEF g
<1>3. \A i \in 1..Len(cs[c]) : CallOf(g[i]) = cs[c][i] /\ g[i] \notin OnExit
  BY <1>2, EntryFields
<1>4. AllApart(Lanes(ds, m)) /\ Within(Lanes(ds, m)) \subseteq Within(Lanes(cs, l))
  <2>1. AllApart(Lanes(cs, l))
    BY DEF LanesGood
  <2> QED
    BY <1>2, <1>3, <2>1, LaneFailed
<1>5. /\ m \in Seq(Entry) /\ n \in Nat
      /\ \A j \in 1..Len(m) :
            \/ j \in 1..n /\ m[j] = l[j]
            \/ j - n \in 1..Len(cs[c]) /\ m[j] = g[j - n]
  <2>1. /\ Len(l \o g) = Len(l) + Len(g)
        /\ \A j \in 1..(Len(l) + Len(g)) :
              (l \o g)[j] = IF j <= Len(l) THEN l[j] ELSE g[j - Len(l)]
    <3> HIDE DEF n, m, ds, q
    <3>1. l \in Seq(Entry) /\ g \in Seq(Entry)
      BY <1>2
    <3> QED
      BY <3>1, ConcatProperties
  <2>2. m \in Seq(Entry) /\ n \in Nat
    BY <1>2
  <2>3. \A j \in 1..(Len(l) + Len(g)) : j <= Len(l) \/ j - Len(l) \in 1..Len(g)
    BY <1>1, <1>2, <2>2
  <2> QED
    BY <1>1, <1>2, <2>1, <2>2, <2>3
<1> HIDE DEF m
<1>6. /\ ds \in [Clients -> Seq(Call)] /\ q \in [Clients -> Seq(Reply)]
      /\ ds[c] = <<>> /\ q[c] = <<>>
      /\ \A d \in Clients : d # c => ds[d] = cs[d] /\ q[d] = p[d]
  OBVIOUS
<1> HIDE DEF ds, q
<1>7. /\ Asked(ds, c) = {} /\ Len(q[c]) = 0
      /\ \A d \in Clients : d # c => Asked(ds, d) = Asked(cs, d)
  BY <1>6 DEF Asked
<1>8. LanesGood(ds, m)
  <2>1. \A d \in Clients : \A x \in Asked(ds, d) : x.client = d
    BY <1>7 DEF LanesGood
  <2>2. ASSUME NEW j \in 1..Len(m), m[j] \notin OnExit PROVE m[j].err = "gone"
    <3>1. CASE j \in 1..n /\ m[j] = l[j]
      BY <2>2, <3>1 DEF LanesGood, n
    <3>2. CASE j - n \in 1..Len(cs[c]) /\ m[j] = g[j - n]
      BY <1>2, <3>2
    <3> QED
      BY <1>5, <3>1, <3>2
  <2> QED
    BY <1>4, <2>1, <2>2 DEF LanesGood
<1>9. FramesGood(ds, q)
  <2>1. ASSUME NEW d \in Clients
        PROVE  /\ \A k \in 1..Len(q[d]) : FrameGood(q[d][k], Asked(ds, d))
               /\ \A k, j \in 1..Len(q[d]) : k # j => q[d][k].call.output # q[d][j].call.output
    <3>1. CASE d = c
      <4>1. \A k \in 1..Len(q[d]) : FALSE
        BY <1>7, <3>1
      <4> QED
        BY <4>1
    <3>2. CASE d # c
      BY <1>6, <1>7, <3>2 DEF FramesGood
    <3> QED
      BY <3>1, <3>2
  <2> QED
    BY <2>1 DEF FramesGood
<1>10. SendingGood(ds, sd)
  BY <1>7 DEF SendingGood
<1>11. \A j \in 1..Len(m) : m[j] \in OnExit => \E k \in 1..Len(l) : m[j] = l[k]
  BY <1>3, <1>5
<1> QED
  BY <1>4, <1>5, <1>6, <1>7, <1>8, <1>9, <1>10, <1>11 DEF g, m, ds, q, NoMoreExits

-----------------------------------------------------------------------------
(* Counting ids.                                                           *)

LEMMA Sizes ==
    /\ IsFiniteSet(Outputs) /\ Cardinality(Outputs) \in Nat
    /\ FirstLuaId \in Nat /\ FirstLuaId > Cardinality(Outputs)
    /\ \A i \in Ids : i \in Nat /\ i # 0
BY ImagesAssumption, FS_CardinalityType DEF Ids

LEMMA NoFewer ==
    ASSUME NEW S, NEW T, S \subseteq T, T \subseteq Outputs
    PROVE  /\ Cardinality(S) \in Nat /\ Cardinality(T) \in Nat
           /\ Cardinality(S) <= Cardinality(T) /\ Cardinality(T) <= Cardinality(Outputs)
BY Sizes, FS_Subset, FS_CardinalityType

LEMMA OneMore ==
    ASSUME NEW S, NEW T, S \subseteq T, T \subseteq Outputs, NEW o \in T, o \notin S
    PROVE  /\ Cardinality(S) \in Nat /\ Cardinality(T) \in Nat
           /\ Cardinality(S) + 1 <= Cardinality(T)
           /\ Cardinality(S) < Cardinality(Outputs)
<1>1. IsFiniteSet(S) /\ S \cup {o} \subseteq T
  BY Sizes, FS_Subset
<1>2. Cardinality(S \cup {o}) = Cardinality(S) + 1
  BY <1>1, FS_AddElement
<1>3. Cardinality(S \cup {o}) <= Cardinality(T) /\ Cardinality(T) <= Cardinality(Outputs)
      /\ Cardinality(S) \in Nat /\ Cardinality(T) \in Nat /\ Cardinality(Outputs) \in Nat
  BY <1>1, NoFewer, Sizes
<1> QED
  BY <1>2, <1>3

(* No backend gives out an id, no output may begin that might not before.  *)
LEMMA CountsKept ==
    ASSUME TypeOK, TypeOK', CountsGood, next_id' = next_id,
           \A o \in Outputs : MayBegin(o, image', running', calls', sending') =>
                              MayBegin(o, image, running, calls, sending),
           \/ next_lua_id' <= FirstLuaId + Cardinality(Settled(image'))
           \/ /\ next_lua_id' = next_lua_id
              /\ \A o \in Outputs : image[o].status \in {"ready", "failed"} =>
                                    image'[o].status \in {"ready", "failed"}
    PROVE  CountsGood'
<1> DEFINE S == Spent(image, running, calls, sending)
           T == Spent(image', running', calls', sending')
<1>1. S \subseteq T /\ T \subseteq Outputs
  BY DEF Spent
<1>2. Cardinality(S) \in Nat /\ Cardinality(T) \in Nat /\ Cardinality(S) <= Cardinality(T)
  BY <1>1, NoFewer
<1>3. /\ \A c \in Clients : next_id[c] \in Nat /\ next_id[c] <= 1 + Cardinality(S)
      /\ next_lua_id <= FirstLuaId + Cardinality(Settled(image))
      /\ next_lua_id \in Nat /\ FirstLuaId \in Nat
  BY Sizes DEF TypeOK, CountsGood
<1> HIDE DEF S, T
<1>4. \A c \in Clients : next_id[c] <= 1 + Cardinality(T)
  BY <1>2, <1>3
<1>5. CASE next_lua_id' <= FirstLuaId + Cardinality(Settled(image'))
  BY <1>4, <1>5 DEF CountsGood, T
<1>6. CASE /\ next_lua_id' = next_lua_id
           /\ \A o \in Outputs : image[o].status \in {"ready", "failed"} =>
                                 image'[o].status \in {"ready", "failed"}
  <2>1. Settled(image) \subseteq Settled(image') /\ Settled(image') \subseteq Outputs
    BY <1>6 DEF Settled
  <2>2. /\ Cardinality(Settled(image)) \in Nat /\ Cardinality(Settled(image')) \in Nat
        /\ Cardinality(Settled(image)) <= Cardinality(Settled(image'))
    BY <2>1, NoFewer
  <2>3. next_lua_id' <= FirstLuaId + Cardinality(Settled(image'))
    BY <1>3, <1>6, <2>2
  <2> QED
    BY <1>4, <2>3 DEF CountsGood, T
<1> QED
  BY <1>5, <1>6

-----------------------------------------------------------------------------
(* Ids and the terminal.                                                   *)

LEMMA WrittenHeld ==
    \A o, i, im, p, sd : Written(o, i, im, p) => Holds(o, i, im, p, sd)
BY DEF Holds

LEMMA ImageWritten ==
    \A o, im, p : Written(o, im[o].image_id, im, p)
BY DEF Written

(* No id is new, and only images of outputs that were dropped change.      *)
LEMMA IdsKept ==
    ASSUME IdsGood,
           \A i \in Ids : Given(i, next_lua_id, next_id) => Given(i, next_lua_id', next_id'),
           \A o \in Outputs, i \in Ids :
                /\ Holds(o, i, image', pipe', sending') => Holds(o, i, image, pipe, sending)
                /\ Written(o, i, image', pipe') => Written(o, i, image, pipe),
           \A o \in Outputs : image[o].image_id # 0 =>
                /\ image'[o].image_id = image[o].image_id
                /\ fate[o] # Held => fate'[o] # Held,
           \A i \in Ids : \/ screen'[i] = screen[i]
                          \/ \E o \in Outputs : image[o].image_id = i /\ fate[o] # Held
    PROVE  IdsGood'
<1>1. ASSUME NEW o \in Outputs, NEW i \in Ids, Written(o, i, image', pipe')
      PROVE  screen'[i] \in {o, "spoiled"} \/ (image'[o].image_id = i /\ fate'[o] # Held)
  <2>1. Written(o, i, image, pipe) /\ Holds(o, i, image, pipe, sending) /\ i # 0
    BY <1>1, WrittenHeld, Sizes
  <2>2. CASE image[o].image_id = i /\ fate[o] # Held
    BY <2>1, <2>2
  <2>3. CASE screen[i] \in {o, "spoiled"} /\ screen'[i] = screen[i]
    BY <2>3
  <2>4. ASSUME NEW q \in Outputs, image[q].image_id = i, fate[q] # Held
        PROVE  image'[o].image_id = i /\ fate'[o] # Held
    <3>1. Holds(q, i, image, pipe, sending)
      BY <2>4, WrittenHeld, ImageWritten
    <3>2. q = o
      BY <2>1, <3>1 DEF IdsGood
    <3> QED
      BY <2>1, <2>4, <3>2
  <2>5. screen[i] \in {o, "spoiled"} \/ (image[o].image_id = i /\ fate[o] # Held)
    BY <2>1 DEF IdsGood
  <2> QED
    BY <2>2, <2>3, <2>4, <2>5
<1>2. \A o \in Outputs, i \in Ids :
        Holds(o, i, image', pipe', sending') => Given(i, next_lua_id', next_id')
  BY DEF IdsGood
<1>3. \A o, q \in Outputs, i \in Ids :
        Holds(o, i, image', pipe', sending') /\ Holds(q, i, image', pipe', sending') => o = q
  BY DEF IdsGood
<1> QED
  BY <1>1, <1>2, <1>3 DEF IdsGood

(* An output is given a new id.                                            *)
LEMMA IdsGiven ==
    ASSUME IdsGood, NEW n \in Ids, NEW q \in Outputs,
           ~Given(n, next_lua_id, next_id), Given(n, next_lua_id', next_id'),
           \A i \in Ids : Given(i, next_lua_id, next_id) => Given(i, next_lua_id', next_id'),
           \A o \in Outputs, i \in Ids :
                /\ Holds(o, i, image', pipe', sending') =>
                        Holds(o, i, image, pipe, sending) \/ (o = q /\ i = n)
                /\ Written(o, i, image', pipe') =>
                        \/ Written(o, i, image, pipe)
                        \/ o = q /\ i = n /\ screen'[n] \in {q, "spoiled"},
           \A o \in Outputs : image[o].image_id # 0 => image'[o].image_id = image[o].image_id,
           fate' = fate,
           \A i \in Ids : i # n => screen'[i] = screen[i]
    PROVE  IdsGood'
<1>1. \A o \in Outputs : ~Holds(o, n, image, pipe, sending)
  BY DEF IdsGood
<1>2. ASSUME NEW o \in Outputs, NEW i \in Ids, Written(o, i, image', pipe')
      PROVE  screen'[i] \in {o, "spoiled"} \/ (image'[o].image_id = i /\ fate'[o] # Held)
  <2>1. CASE Written(o, i, image, pipe)
    <3>1. i # n /\ i # 0
      BY <1>1, <2>1, WrittenHeld, Sizes
    <3>2. screen[i] \in {o, "spoiled"} \/ (image[o].image_id = i /\ fate[o] # Held)
      BY <2>1 DEF IdsGood
    <3> QED
      BY <3>1, <3>2
  <2>2. CASE o = q /\ i = n /\ screen'[n] \in {q, "spoiled"}
    BY <2>2
  <2> QED
    BY <1>2, <2>1, <2>2
<1>3. \A o \in Outputs, i \in Ids :
        Holds(o, i, image', pipe', sending') => Given(i, next_lua_id', next_id')
  BY DEF IdsGood
<1>4. \A o, p \in Outputs, i \in Ids :
        Holds(o, i, image', pipe', sending') /\ Holds(p, i, image', pipe', sending') => o = p
  BY <1>1 DEF IdsGood
<1> QED
  BY <1>2, <1>3, <1>4 DEF IdsGood

-----------------------------------------------------------------------------
(* Callbacks.                                                              *)

Images == [Outputs -> [status : Statuses, image_id : Ids \union {0}]]

(* What a callback finds: the calls cs, the callbacks l and the replies p  *)
(* that are left when frame f was taken.                                   *)
Found(f, cs, l, p) ==
    /\ f \in Reply
    /\ cs \in [Clients -> Seq(Call)] /\ l \in Seq(Entry) /\ p \in [Clients -> Seq(Reply)]
    /\ LanesGood(cs, l) /\ FramesGood(cs, p) /\ SendingGood(cs, sending)
    /\ f.call \in Within(Lanes(calls, loop))
    /\ \A z \in Within(Lanes(cs, l)) : z \in Within(Lanes(calls, loop)) /\ Apart(f.call, z)
    /\ \A c \in Clients :
        /\ Asked(cs, c) \subseteq Asked(calls, c)
        /\ \A z \in Asked(calls, c) : z = f.call \/ z \in Asked(cs, c)
        /\ \A k \in 1..Len(p[c]) : \E j \in 1..Len(pipe[c]) : p[c][k] = pipe[c][j]
        /\ \A k \in 1..Len(pipe[c]) :
            pipe[c][k] = f \/ \E j \in 1..Len(p[c]) : p[c][j] = pipe[c][k]
    /\ \A j \in 1..Len(l) : l[j] \in OnExit => \E k \in 1..Len(loop) : l[j] = loop[k]
    /\ loop = <<>> => l = <<>>
    /\ \/ f.err = "gone" /\ loop # <<>>
       \/ \E c \in Clients : /\ f.call \in Asked(calls, c)
                             /\ FrameGood(f, Asked(calls, c))
                             /\ \E k \in 1..Len(pipe[c]) : pipe[c][k] = f

stillVars == <<scenario, client, exited, closed, fate, running, tty, next_id, sending>>

(* The image of the output of f is settled, if at all.                     *)
Settles(f) ==
    /\ image' \in Images
    /\ \/ image' = image
       \/ /\ ForImage(f.call)
          /\ image'[f.call.output].status \in {"ready", "failed"}
          /\ \A q \in Outputs : q # f.call.output => image'[q] = image[q]

LEMMA FoundFields ==
    ASSUME IInv, NEW f, NEW cs, NEW l, NEW p, Found(f, cs, l, p)
    PROVE  /\ f.call \in Call /\ f.call.output \in Outputs /\ f.call.client \in Clients
           /\ CallGood(f.call, image, attached, fate)
           /\ \A z \in Within(Lanes(cs, l)) : CallGood(z, image, attached, fate)
           /\ image \in Images
           /\ ForImage(f.call) => /\ image[f.call.output].status = "pending"
                                  /\ image[f.call.output].image_id = 0
                                  /\ fate[f.call.output].status # "ready"
<1>1. f.call \in Call /\ f.call.output \in Outputs /\ f.call.client \in Clients
  BY EntryFields, CallFields DEF Found
<1>2. \A z \in Within(Lanes(calls, loop)) : CallGood(z, image, attached, fate)
  BY DEF IInv, CallsGood
<1>3. CallGood(f.call, image, attached, fate)
  BY <1>2 DEF Found
<1>4. image \in Images /\ \A o \in Outputs : image[o].status = "ready" <=> image[o].image_id # 0
  BY DEF IInv, TypeOK, Images
<1>5. \A o \in Outputs : fate[o].status = "ready" => image[o].status = "ready"
  BY DEF IInv, FateGood
<1>6. ForImage(f.call) => image[f.call.output].status = "pending"
  BY <1>3 DEF CallGood
<1> QED
  BY <1>1, <1>2, <1>3, <1>4, <1>5, <1>6 DEF Found

(* A callback that makes no call.                                          *)
LEMMA SilentKeeps ==
    ASSUME IInv, NEW f, NEW cs, NEW l, Found(f, cs, l, pipe'), calls' = cs, loop' = l,
           UNCHANGED stillVars, attached => attached', Settles(f)
    PROVE  /\ LanesGood(calls', loop') /\ FramesGood(calls', pipe')
           /\ SendingGood(calls', sending')
           /\ CallsGood(Lanes(calls', loop'), image', attached', fate')
           /\ FateGood(image', fate') /\ ProcessesGood' /\ GiverGood'
           /\ \A o \in Outputs : MayBegin(o, image', running', calls', sending') =>
                                 MayBegin(o, image, running, calls, sending)
<1>1. /\ client' = client /\ exited' = exited /\ closed' = closed /\ fate' = fate
      /\ running' = running /\ tty' = tty /\ next_id' = next_id /\ sending' = sending
  BY DEF stillVars
<1>2. LanesGood(calls', loop') /\ FramesGood(calls', pipe') /\ SendingGood(calls', sending')
  BY <1>1 DEF Found
<1>3. \A q \in Outputs : /\ image'[q].status = "none" => image[q].status = "none"
                         /\ image[q].status = "ready" => image'[q].status = "ready"
  BY FoundFields DEF Settles
<1>4. ASSUME NEW z \in Within(Lanes(calls', loop'))
      PROVE  CallGood(z, image', attached', fate')
  <2>1. CallGood(z, image, attached, fate) /\ Apart(f.call, z)
    <3>1. z \in Within(Lanes(cs, l))
      BY <1>4
    <3>2. CallGood(z, image, attached, fate)
      BY <3>1, FoundFields
    <3> QED
      BY <3>1, <3>2 DEF Found
  <2>2. ForImage(z) => z.output \in Outputs
    <3>1. z \in Item
      <4>1. Lanes(cs, l) \in AllLanes
        BY LanesTyped DEF Found
      <4>2. PICK c \in 0..MaxClients : \E i \in 1..Len(Lanes(cs, l)[c]) : z = Lanes(cs, l)[c][i]
        BY InLanes
      <4>3. Lanes(cs, l)[c] \in Seq(Item)
        BY <4>1 DEF AllLanes
      <4> QED
        BY <4>2, <4>3
    <3> QED
      BY <3>1, CallFields DEF Item, ForImage
  <2>3. ForImage(z) => image'[z.output].status = "pending"
    BY <2>1, <2>2 DEF Settles, CallGood, Apart
  <2> QED
    BY <1>1, <2>1, <2>3 DEF CallGood
<1>5. CallsGood(Lanes(calls', loop'), image', attached', fate')
  BY <1>4 DEF CallsGood
<1>6. FateGood(image', fate')
  BY <1>1, <1>3 DEF IInv, FateGood
<1>7. \A c \in Clients : Asked(calls', c) \subseteq Asked(calls, c)
  BY DEF Found
<1>8. ProcessesGood'
  <2>1. ProcessesGood
    BY DEF IInv
  <2>2. \A j \in 1..Len(loop') : loop'[j] \in OnExit => loop'[j].on_exit \in exited'
    BY <1>1, <2>1 DEF Found, ProcessesGood
  <2>3. ASSUME NEW c \in Clients, c \notin running' \union exited' \union {client'} PROVE Unborn(c)'
    <3>1. calls[c] = <<>> /\ ~tty[c] /\ next_id[c] = 1
      BY <1>1, <2>1, <2>3 DEF ProcessesGood, Unborn
    <3>2. Asked(calls', c) = {}
      <4>1. calls \in [Clients -> Seq(Call)]
        BY DEF IInv, TypeOK
      <4> QED
        BY <1>7, <3>1, <4>1, AskedNone
    <3>3. calls'[c] \in Seq(Call)
      BY DEF Found
    <3>4. calls'[c] = <<>>
      BY <3>2, <3>3, AskedNone
    <3> QED
      BY <1>1, <3>1, <3>4 DEF Unborn
  <2> QED
    BY <1>1, <2>1, <2>2, <2>3 DEF ProcessesGood
<1>9. running \subseteq Clients
  BY DEF IInv, TypeOK
<1>10. GiverGood'
  <2>1. GiverGood
    BY DEF IInv
  <2> QED
    BY <1>1, <1>7, <1>9, <2>1 DEF GiverGood
<1>11. \A o \in Outputs : MayBegin(o, image', running', calls', sending') =>
                          MayBegin(o, image, running, calls, sending)
  BY <1>1, <1>3, <1>7, <1>9 DEF MayBegin
<1> QED
  BY <1>2, <1>5, <1>6, <1>8, <1>10, <1>11

(* The plugin writes an image itself, or cannot.                           *)
LEMMA FallbackFields ==
    ASSUME TypeOK, CountsGood, NEW o \in Outputs, image[o].status \in {"none", "pending"},
           Fallback(o)
    PROVE  /\ image' \in Images /\ image'[o].status \in {"ready", "failed"}
           /\ \A q \in Outputs : q # o => image'[q] = image[q]
           /\ \A q \in Outputs : image'[q].status = "ready" <=> image'[q].image_id # 0
           /\ next_lua_id' \in FirstLuaId..(FirstLuaId + Cardinality(Outputs))
           /\ next_lua_id' <= FirstLuaId + Cardinality(Settled(image'))
           /\ next_lua_id <= next_lua_id'
           /\ screen' \in [Ids -> Outputs \union {"absent", "spoiled"}]
           /\ loading' \in {"none", "open", "mixed"}
           /\ \/ /\ ~Faulty("unsupported")
                 /\ next_lua_id \in Ids /\ next_lua_id' = next_lua_id + 1
                 /\ image'[o].status = "ready" /\ image'[o].image_id = next_lua_id
                 /\ screen'[next_lua_id] \in {o, "spoiled"}
                 /\ \A i \in Ids : i # next_lua_id => screen'[i] = screen[i]
              \/ /\ image'[o].status = "failed" /\ image'[o].image_id = 0
                 /\ screen' = screen /\ loading' = loading
           /\ unwritten' = unwritten /\ unwritten \subseteq Ids
<1>1. /\ next_lua_id \in Nat /\ FirstLuaId <= next_lua_id
      /\ next_lua_id <= FirstLuaId + Cardinality(Settled(image))
      /\ image \in Images /\ image[o].image_id = 0
      /\ \A q \in Outputs : image[q].status = "ready" <=> image[q].image_id # 0
      /\ screen \in [Ids -> Outputs \union {"absent", "spoiled"}]
      /\ loading \in {"none", "open", "mixed"}
      /\ unwritten \subseteq Ids
  BY Sizes DEF TypeOK, CountsGood, Images
<1>2. /\ FirstLuaId \in Nat /\ FirstLuaId > Cardinality(Outputs) /\ Cardinality(Outputs) \in Nat
  BY Sizes
<1>3. o \notin Settled(image) /\ Settled(image) \subseteq Outputs
  BY DEF Settled
<1>4. /\ Cardinality(Settled(image)) \in Nat /\ Cardinality(Settled(image)) < Cardinality(Outputs)
  BY <1>3, OneMore
<1>5. next_lua_id \in Ids /\ next_lua_id < FirstLuaId + Cardinality(Outputs)
  BY <1>1, <1>2, <1>4 DEF Ids
<1>6. /\ image' \in Images /\ image'[o].status \in {"ready", "failed"}
      /\ image'[o].status = "ready" <=> image'[o].image_id # 0
      /\ \A q \in Outputs : q # o => image'[q] = image[q]
      /\ next_lua_id' = next_lua_id \/ next_lua_id' = next_lua_id + 1
  <2>1. CASE image' = Ready(o, next_lua_id) /\ next_lua_id' = next_lua_id + 1
    BY <1>1, <1>5, <2>1, Sizes DEF Ready, Images, Statuses
  <2>2. CASE /\ image' = [image EXCEPT ![o].status = "failed"]
             /\ next_lua_id' = IF Faulty("unsupported") THEN next_lua_id ELSE next_lua_id + 1
    BY <1>1, <2>2 DEF Images, Statuses
  <2> QED
    BY <2>1, <2>2 DEF Fallback
<1>7. Settled(image) \subseteq Settled(image') /\ o \in Settled(image')
      /\ Settled(image') \subseteq Outputs
  BY <1>6 DEF Settled
<1>8. /\ Cardinality(Settled(image')) \in Nat
      /\ Cardinality(Settled(image)) + 1 <= Cardinality(Settled(image'))
  BY <1>3, <1>7, OneMore
<1>9. /\ next_lua_id' \in FirstLuaId..(FirstLuaId + Cardinality(Outputs))
      /\ next_lua_id' <= FirstLuaId + Cardinality(Settled(image'))
      /\ next_lua_id <= next_lua_id'
  BY <1>1, <1>2, <1>4, <1>5, <1>6, <1>8
<1>10. CASE /\ ~Faulty("unsupported")
            /\ next_lua_id' = next_lua_id + 1
            /\ image' = Ready(o, next_lua_id)
            /\ \E shown \in Shown(o) : screen' = [screen EXCEPT ![next_lua_id] = shown]
            /\ loading' = IF Sending THEN "mixed" ELSE "none"
            /\ UNCHANGED unwritten
  <2>1. PICK shown \in Shown(o) : screen' = [screen EXCEPT ![next_lua_id] = shown]
    BY <1>10
  <2>2. shown \in {o, "spoiled"}
    BY DEF Shown
  <2>3. /\ screen' \in [Ids -> Outputs \union {"absent", "spoiled"}]
        /\ screen'[next_lua_id] \in {o, "spoiled"}
        /\ \A i \in Ids : i # next_lua_id => screen'[i] = screen[i]
    BY <1>1, <1>5, <2>1, <2>2
  <2>4. image'[o].status = "ready" /\ image'[o].image_id = next_lua_id
    BY <1>1, <1>10 DEF Ready, Images
  <2> QED
    BY <1>1, <1>5, <1>6, <1>9, <1>10, <2>3, <2>4
<1>11. CASE image' = [image EXCEPT ![o].status = "failed"] /\ UNCHANGED terminalVars
  <2>1. image'[o].status = "failed" /\ image'[o].image_id = 0
    BY <1>1, <1>11 DEF Images
  <2> QED
    BY <1>1, <1>6, <1>9, <1>11, <2>1 DEF terminalVars
<1> QED
  BY <1>10, <1>11 DEF Fallback

LEMMA FallbackIds ==
    ASSUME TypeOK, CountsGood, IdsGood, NEW o \in Outputs,
           image[o].status \in {"none", "pending"}, Fallback(o),
           UNCHANGED <<next_id, sending, fate>>,
           \A c \in Clients : \A k \in 1..Len(pipe'[c]) :
                \E j \in 1..Len(pipe[c]) : pipe'[c][k] = pipe[c][j]
    PROVE  IdsGood'
<1>1. image[o].image_id = 0
  BY DEF TypeOK
<1>2. \A q \in Outputs : image[q].image_id # 0 => image'[q].image_id = image[q].image_id
  BY <1>1, FallbackFields
<1>3. next_lua_id \in Nat /\ next_lua_id' \in Nat /\ next_lua_id <= next_lua_id'
      /\ FirstLuaId <= next_lua_id /\ FirstLuaId \in Nat
      /\ \A c \in Clients : next_id[c] \in Nat /\ next_id[c] <= FirstLuaId
  BY FallbackFields, Sizes DEF TypeOK
<1>4. \A i \in Ids : Given(i, next_lua_id, next_id) => Given(i, next_lua_id', next_id')
  BY <1>3, Sizes DEF Given
<1>5. \A q \in Outputs : q # o => image'[q].image_id = image[q].image_id
  BY FallbackFields
<1>6. CASE image'[o].image_id = 0 /\ screen' = screen
  <2>1. ASSUME NEW q \in Outputs, NEW i \in Ids, Written(q, i, image', pipe')
        PROVE  Written(q, i, image, pipe)
    <3>1. image'[q].image_id = i => image[q].image_id = i
      BY <1>6, <1>5, Sizes
    <3> QED
      BY <2>1, <3>1 DEF Written
  <2>2. \A q \in Outputs, i \in Ids :
          Holds(q, i, image', pipe', sending') => Holds(q, i, image, pipe, sending)
    BY <2>1 DEF Holds
  <2> QED
    BY <1>2, <1>4, <1>6, <2>1, <2>2, IdsKept
<1>7. CASE /\ next_lua_id \in Ids /\ next_lua_id' = next_lua_id + 1
           /\ image'[o].image_id = next_lua_id
           /\ screen'[next_lua_id] \in {o, "spoiled"}
           /\ \A i \in Ids : i # next_lua_id => screen'[i] = screen[i]
  <2>1. ASSUME NEW q \in Outputs, NEW i \in Ids, Written(q, i, image', pipe')
        PROVE  \/ Written(q, i, image, pipe)
               \/ q = o /\ i = next_lua_id /\ screen'[next_lua_id] \in {o, "spoiled"}
    <3>1. image'[q].image_id = i => image[q].image_id = i \/ (q = o /\ i = next_lua_id)
      BY <1>7, <1>5
    <3> QED
      BY <1>7, <2>1, <3>1 DEF Written
  <2>2. \A q \in Outputs, i \in Ids : Holds(q, i, image', pipe', sending') =>
          Holds(q, i, image, pipe, sending) \/ (q = o /\ i = next_lua_id)
    BY <2>1 DEF Holds
  <2>3. ~Given(next_lua_id, next_lua_id, next_id) /\ Given(next_lua_id, next_lua_id', next_id')
    BY <1>3, <1>7 DEF Given
  <2> QED
    BY <1>2, <1>4, <1>7, <2>1, <2>2, <2>3, IdsGiven
<1> QED
  BY <1>6, <1>7, FallbackFields

LEMMA FoundSteady ==
    ASSUME IInv, NEW f, NEW cs, NEW l, NEW p, Found(f, cs, l, p), Steady
    PROVE  /\ l = <<>> /\ ForImage(f.call)
           /\ f.image_id # 0 <=> f.call.method = "kitty_transmit" /\ f.err = "none"
           /\ f.call.method = "kitty_attach" =>
                /\ f.err = "none"
                /\ f.call.client = client /\ client \in running /\ tty[client]
<1>1. SteadyGood /\ running \subseteq {client} /\ LanesGood(calls, loop)
  BY DEF IInv, ProcessesGood
<1>2. loop = <<>>
  BY <1>1 DEF SteadyGood
<1>3. PICK c \in Clients : /\ f.call \in Asked(calls, c)
                           /\ FrameGood(f, Asked(calls, c))
                           /\ \E k \in 1..Len(pipe[c]) : pipe[c][k] = f
  BY <1>2 DEF Found
<1>4. f.call.client = c
  BY <1>1, <1>3 DEF LanesGood
<1>5. f.call.method = "kitty_attach" => f.err = "none" /\ c \in running /\ tty[c]
  BY <1>1, <1>3 DEF SteadyGood
<1> QED
  BY <1>1, <1>2, <1>3, <1>4, <1>5 DEF Found, FrameGood

LEMMA SteadyKept ==
    ASSUME IInv, NEW f, NEW cs, NEW l, Found(f, cs, l, pipe'), UNCHANGED stillVars,
           Steady => /\ loop' = <<>> /\ attach_failed' = attach_failed
                     /\ attached' => attached \/ (client \in running /\ tty[client])
    PROVE  SteadyGood'
<1>1. SteadyGood
  BY DEF IInv
<1>2. /\ client' = client /\ exited' = exited /\ closed' = closed /\ Steady' = Steady
      /\ running' = running /\ tty' = tty
  BY DEF stillVars, Steady
<1>3. \A c \in Clients : \A k \in 1..Len(pipe'[c]) :
        \E j \in 1..Len(pipe[c]) : pipe'[c][k] = pipe[c][j]
  BY DEF Found
<1>4. Steady => \A c \in Clients : \A k \in 1..Len(pipe'[c]) :
        pipe'[c][k].call.method = "kitty_attach" =>
            pipe'[c][k].err = "none" /\ c \in running' /\ tty'[c]
  BY <1>1, <1>2, <1>3 DEF SteadyGood
<1> QED
  BY <1>1, <1>2, <1>4 DEF SteadyGood

LEMMA WholeKept ==
    ASSUME IInv, scenario' = scenario, sending' = sending,
           \A c \in Clients : \A k \in 1..Len(pipe'[c]) :
                \E j \in 1..Len(pipe[c]) : pipe'[c][k] = pipe[c][j],
           Steady /\ ~Faulty("decode") /\ ~Faulty("write") =>
                loading' = loading /\ screen' = screen
    PROVE  WholeGood'
<1>1. WholeGood
  BY DEF IInv
<1>2. /\ Steady' = Steady /\ Faulty("decode")' = Faulty("decode")
      /\ Faulty("write")' = Faulty("write") /\ Sending' = Sending
  BY DEF Steady, Faulty, Sending
<1> QED
  BY <1>1, <1>2 DEF WholeGood

(* Deletions under way stay under way, where nothing else is taken.        *)
LEMMA FoundClears ==
    ASSUME IInv, NEW f, NEW cs, NEW l, NEW p, Found(f, cs, l, p), ForImage(f.call), client \in Clients
    PROVE  \A x \in Asked(calls, client) : x.method = "kitty_clear" => x \in Asked(cs, client)
BY DEF Found, ForImage

LEMMA FoundWritten ==
    ASSUME IInv, NEW f, NEW cs, NEW l, Found(f, cs, l, pipe')
    PROVE  \A o \in Outputs, i \in Ids : Written(o, i, image, pipe) =>
                \/ Written(o, i, image, pipe') \/ (o = f.call.output /\ i = f.image_id)
<1> SUFFICES ASSUME NEW o \in Outputs, NEW i \in Ids, NEW c \in Clients,
                    NEW k \in 1..Len(pipe[c]),
                    pipe[c][k].call.output = o, pipe[c][k].image_id = i, pipe[c][k] # f
             PROVE  Written(o, i, image, pipe')
  BY DEF Written
<1>1. PICK j \in 1..Len(pipe'[c]) : pipe'[c][j] = pipe[c][k]
  BY DEF Found
<1> QED
  BY <1>1 DEF Written

LEMMA FoundNarrow ==
    ASSUME NEW f, NEW cs, NEW l, Found(f, cs, l, pipe')
    PROVE  /\ \A c \in Clients : \A k \in 1..Len(pipe'[c]) :
                \E j \in 1..Len(pipe[c]) : pipe'[c][k] = pipe[c][j]
           /\ \A o, i : Written(o, i, image, pipe') => Written(o, i, image, pipe)
<1>1. \A c \in Clients : \A k \in 1..Len(pipe'[c]) :
        \E j \in 1..Len(pipe[c]) : pipe'[c][k] = pipe[c][j]
  BY DEF Found
<1> QED
  BY <1>1 DEF Written

(* Ids stay ids of backends, and of outputs dropped.                       *)
LEMMA NothingGiven ==
    ASSUME IInv, next_id' = next_id, next_lua_id' = next_lua_id, fate' = fate, screen' = screen,
           \A o \in Outputs, i \in Ids :
                /\ Holds(o, i, image', pipe', sending') => Holds(o, i, image, pipe, sending)
                /\ Written(o, i, image', pipe') => Written(o, i, image, pipe),
           \A o \in Outputs : image[o].image_id # 0 => image'[o].image_id = image[o].image_id
    PROVE  IdsGood'
<1>1. IdsGood
  BY DEF IInv
<1> QED
  BY <1>1, IdsKept

-----------------------------------------------------------------------------
(* The handlers.                                                           *)

LEMMA ClearReplyKeeps ==
    ASSUME IInv, NEW f, NEW cs, NEW l, Found(f, cs, l, pipe'), UNCHANGED stillVars,
           f.call.method = "kitty_clear", ClearReply(Waiting(cs, l))
    PROVE  IInv'
<1>1. /\ calls' = cs /\ loop' = l /\ attached' = attached /\ attach_failed' = attach_failed
      /\ next_lua_id' = next_lua_id /\ image' = image /\ screen' = screen /\ loading' = loading
      /\ unwritten' = unwritten
  BY DEF ClearReply, Silent, Waiting, terminalVars
<1>2. /\ scenario' = scenario /\ client' = client /\ exited' = exited /\ closed' = closed
      /\ fate' = fate /\ running' = running /\ tty' = tty /\ next_id' = next_id
      /\ sending' = sending
  BY DEF stillVars
<1>3. TypeOK' /\ TypeOK
  BY <1>1, <1>2 DEF IInv, TypeOK, Found, Entry
<1>4. Settles(f)
  BY <1>1, FoundFields DEF Settles
<1>5. ~Steady
  BY FoundSteady DEF ForImage
<1>6. ~Steady'
  BY <1>2, <1>5 DEF Steady
<1>7. SteadyGood' /\ WholeGood' /\ LeftGood'
  BY <1>6 DEF SteadyGood, WholeGood, LeftGood
<1>8. \A o \in Outputs : MayBegin(o, image', running', calls', sending') =>
                         MayBegin(o, image, running, calls, sending)
  BY <1>1, <1>4, SilentKeeps
<1>9. CountsGood
  BY DEF IInv
<1>10. CountsGood'
  BY <1>1, <1>2, <1>3, <1>8, <1>9, CountsKept
<1>11. \A o \in Outputs, i \in Ids :
          /\ Holds(o, i, image', pipe', sending') => Holds(o, i, image, pipe, sending)
          /\ Written(o, i, image', pipe') => Written(o, i, image, pipe)
  BY <1>1, <1>2, FoundNarrow DEF Holds
<1>12. IdsGood'
  BY <1>1, <1>2, <1>11, NothingGiven
<1> QED
  BY <1>1, <1>3, <1>4, <1>7, <1>10, <1>12, SilentKeeps DEF IInv

LEMMA TransmittedKeeps ==
    ASSUME IInv, NEW f, NEW cs, NEW l, Found(f, cs, l, pipe'), UNCHANGED stillVars,
           f.call.method = "kitty_transmit", TransmitReply(f, Waiting(cs, l)), f.err = "none"
    PROVE  IInv'
<1> DEFINE o == f.call.output
<1>1. /\ calls' = cs /\ loop' = l /\ attached' = attached /\ attach_failed' = attach_failed
      /\ next_lua_id' = next_lua_id /\ image' = Ready(o, f.image_id) /\ screen' = screen
      /\ loading' = loading /\ unwritten' = unwritten
  BY DEF TransmitReply, Silent, Waiting, terminalVars
<1>2. /\ scenario' = scenario /\ client' = client /\ exited' = exited /\ closed' = closed
      /\ fate' = fate /\ running' = running /\ tty' = tty /\ next_id' = next_id
      /\ sending' = sending
  BY DEF stillVars
<1>3. PICK c \in Clients : /\ FrameGood(f, Asked(calls, c))
                           /\ \E k \in 1..Len(pipe[c]) : pipe[c][k] = f
  BY DEF Found
<1>4. f.image_id \in Ids /\ f.image_id # 0 /\ ForImage(f.call)
  BY <1>3, EntryFields DEF FrameGood, Found
<1>5. /\ o \in Outputs /\ image[o].status = "pending" /\ image[o].image_id = 0
      /\ image \in Images /\ attached /\ fate[o].status # "ready"
  BY <1>4, FoundFields DEF CallGood
<1>6. /\ image' \in Images /\ image'[o].status = "ready" /\ image'[o].image_id = f.image_id
      /\ \A q \in Outputs : q # o => image'[q] = image[q]
  BY <1>1, <1>4, <1>5 DEF Ready, Images, Statuses
<1> HIDE DEF o
<1>7. TypeOK' /\ TypeOK
  <2>1. TypeOK
    BY DEF IInv
  <2>2. \A q \in Outputs : image'[q].status = "ready" <=> image'[q].image_id # 0
    BY <1>4, <1>6, <2>1 DEF TypeOK
  <2> QED
    BY <1>1, <1>2, <1>6, <2>1, <2>2 DEF TypeOK, Found, Entry, Images
<1>8. Settles(f)
  BY <1>4, <1>6 DEF Settles, o
<1>9. \A q \in Outputs : MayBegin(q, image', running', calls', sending') =>
                         MayBegin(q, image, running, calls, sending)
  BY <1>1, <1>8, SilentKeeps
<1>10. CountsGood'
  <2>1. CountsGood
    BY DEF IInv
  <2>2. \A q \in Outputs : image[q].status \in {"ready", "failed"} =>
                           image'[q].status \in {"ready", "failed"}
    BY <1>6
  <2> QED
    BY <1>1, <1>2, <1>7, <1>9, <2>1, <2>2, CountsKept
<1>11. Written(o, f.image_id, image, pipe)
  BY <1>3 DEF Written, o
<1>12. \A q \in Outputs, i \in Ids :
          /\ Holds(q, i, image', pipe', sending') => Holds(q, i, image, pipe, sending)
          /\ Written(q, i, image', pipe') => Written(q, i, image, pipe)
  <2>1. ASSUME NEW q \in Outputs, NEW i \in Ids, Written(q, i, image', pipe')
        PROVE  Written(q, i, image, pipe)
    <3>1. CASE q = o /\ image'[q].image_id = i
      BY <1>6, <1>11, <3>1
    <3>2. CASE ~(q = o /\ image'[q].image_id = i)
      <4>1. Written(q, i, image, pipe')
        BY <1>6, <2>1, <3>2 DEF Written
      <4> QED
        BY <4>1, FoundNarrow
    <3> QED
      BY <3>1, <3>2
  <2> QED
    BY <1>2, <2>1 DEF Holds
<1>13. IdsGood'
  <2>1. \A q \in Outputs : image[q].image_id # 0 => image'[q].image_id = image[q].image_id
    BY <1>5, <1>6
  <2> QED
    BY <1>1, <1>2, <1>12, <2>1, NothingGiven
<1>14. SteadyGood'
  BY <1>1, FoundSteady, SteadyKept
<1>15. WholeGood'
  BY <1>1, <1>2, FoundNarrow, WholeKept
<1>16. LeftGood'
  <2>1. LeftGood /\ SteadyGood
    BY DEF IInv
  <2>2. Steady' = Steady /\ Faulty("unsupported")' = Faulty("unsupported")
    BY <1>2 DEF Steady, Faulty
  <2> SUFFICES ASSUME Steady, ~Faulty("unsupported")
               PROVE  /\ \A q \in Outputs : image'[q].status = "ready" => attached'
                      /\ \A i \in Ids \ unwritten' : screen'[i] # "absent" =>
                            \E q \in Outputs : Written(q, i, image', pipe')
                      /\ \A q \in Outputs : fate'[q].status = "ready" /\ Releases(q, fate'[q].way) =>
                            \/ screen'[image'[q].image_id] = "absent" \/ image'[q].image_id \in unwritten'
                            \/ \E x \in Asked(calls', client') :
                                x.method = "kitty_clear" /\ x.output = q
    BY <2>2 DEF LeftGood, Releases
  <2>3. ASSUME NEW i \in Ids \ unwritten', screen'[i] # "absent"
        PROVE  \E q \in Outputs : Written(q, i, image', pipe')
    <3>1. PICK q \in Outputs : Written(q, i, image, pipe)
      BY <1>1, <2>1, <2>3 DEF LeftGood
    <3>2. CASE q = f.call.output /\ i = f.image_id
      BY <1>5, <1>6, <3>2 DEF Written, o
    <3>3. CASE Written(q, i, image, pipe')
      <4>1. image[q].image_id = i => q # o
        BY <1>5, Sizes
      <4> QED
        BY <1>6, <3>3, <4>1 DEF Written
    <3> QED
      BY <3>1, <3>2, <3>3, FoundWritten
  <2>4. ASSUME NEW q \in Outputs, fate'[q].status = "ready", Releases(q, fate'[q].way)
        PROVE  \/ screen'[image'[q].image_id] = "absent" \/ image'[q].image_id \in unwritten'
               \/ \E x \in Asked(calls', client') : x.method = "kitty_clear" /\ x.output = q
    <3>1. q # o /\ image[q].status = "ready"
      BY <1>2, <1>5, <2>4 DEF IInv, FateGood
    <3>2. client \in running /\ client \in Clients
      BY <2>1, <3>1 DEF SteadyGood, LeftGood, IInv, TypeOK
    <3>3. \A x \in Asked(calls, client) : x.method = "kitty_clear" => x \in Asked(cs, client)
      BY <1>4, <3>2, FoundClears
    <3> QED
      BY <1>1, <1>2, <1>6, <2>1, <2>4, <3>1, <3>3 DEF LeftGood
  <2> QED
    BY <1>1, <1>5, <2>3, <2>4
<1> QED
  BY <1>1, <1>7, <1>8, <1>10, <1>13, <1>14, <1>15, <1>16, SilentKeeps DEF IInv

(* A reply that fails has the plugin write the image itself: that to an    *)
(* attach, which is remembered, and that to a transmission.                *)
LEMMA FailedKeeps ==
    ASSUME IInv, NEW f, NEW cs, NEW l, Found(f, cs, l, pipe'), UNCHANGED stillVars,
           ForImage(f.call), f.err # "none", calls' = cs, loop' = l,
           Fallback(f.call.output), attached' = attached,
           attach_failed' \in BOOLEAN,
           f.call.method = "kitty_transmit" => attach_failed' = attach_failed
    PROVE  IInv'
<1> DEFINE o == f.call.output
<1>1. /\ scenario' = scenario /\ client' = client /\ exited' = exited /\ closed' = closed
      /\ fate' = fate /\ running' = running /\ tty' = tty /\ next_id' = next_id
      /\ sending' = sending
  BY DEF stillVars
<1>2. /\ o \in Outputs /\ image[o].status = "pending" /\ image[o].image_id = 0
      /\ image \in Images /\ fate[o].status # "ready"
      /\ f.call.method = "kitty_transmit" => attached
  BY FoundFields DEF CallGood
<1>3. TypeOK /\ CountsGood /\ IdsGood /\ LeftGood /\ SteadyGood /\ WholeGood
  BY DEF IInv
<1>4. /\ image' \in Images /\ image'[o].status \in {"ready", "failed"}
      /\ \A q \in Outputs : q # o => image'[q] = image[q]
      /\ \A q \in Outputs : image'[q].status = "ready" <=> image'[q].image_id # 0
      /\ next_lua_id' \in FirstLuaId..(FirstLuaId + Cardinality(Outputs))
      /\ next_lua_id' <= FirstLuaId + Cardinality(Settled(image'))
      /\ screen' \in [Ids -> Outputs \union {"absent", "spoiled"}]
      /\ loading' \in {"none", "open", "mixed"}
      /\ \/ /\ next_lua_id \in Ids
            /\ image'[o].status = "ready" /\ image'[o].image_id = next_lua_id
            /\ screen'[next_lua_id] \in {o, "spoiled"}
            /\ \A i \in Ids : i # next_lua_id => screen'[i] = screen[i]
         \/ /\ image'[o].status = "failed" /\ image'[o].image_id = 0
            /\ screen' = screen /\ loading' = loading
      /\ unwritten' = unwritten
  <2>1. image[o].status \in {"none", "pending"} /\ Fallback(o)
    BY <1>2
  <2> HIDE DEF o
  <2> QED
    BY <1>2, <1>3, <2>1, FallbackFields
<1>5. IdsGood'
  <2>1. \A c \in Clients : \A k \in 1..Len(pipe'[c]) :
          \E j \in 1..Len(pipe[c]) : pipe'[c][k] = pipe[c][j]
    BY FoundNarrow
  <2> QED
    BY <1>1, <1>2, <1>3, <2>1, FallbackIds
<1>6. Settles(f)
  BY <1>4 DEF Settles
<1> HIDE DEF o
<1>7. TypeOK'
  BY <1>1, <1>3, <1>4 DEF TypeOK, Found, Entry, Images
<1>8. \A q \in Outputs : MayBegin(q, image', running', calls', sending') =>
                         MayBegin(q, image, running, calls, sending)
  BY <1>6, SilentKeeps
<1>9. CountsGood'
  BY <1>1, <1>3, <1>4, <1>7, <1>8, CountsKept
<1>10. Steady => f.call.method = "kitty_transmit" /\ attached
  BY <1>2, FoundSteady DEF ForImage
<1>11. SteadyGood'
  BY <1>10, FoundSteady, SteadyKept
<1>12. WholeGood'
  <2>1. ~(Steady /\ ~Faulty("decode") /\ ~Faulty("write"))
    <3> SUFFICES ASSUME Steady, ~Faulty("decode"), ~Faulty("write") PROVE FALSE
      OBVIOUS
    <3>1. loop = <<>>
      BY <1>3 DEF SteadyGood
    <3>2. PICK c \in Clients : \E k \in 1..Len(pipe[c]) : pipe[c][k] = f
      BY <3>1 DEF Found
    <3> QED
      BY <1>3, <3>2 DEF WholeGood
  <2>2. Steady' = Steady /\ Faulty("decode")' = Faulty("decode")
        /\ Faulty("write")' = Faulty("write")
    BY <1>1 DEF Steady, Faulty
  <2> QED
    BY <2>1, <2>2 DEF WholeGood
<1>13. LeftGood'
  <2>1. Steady' = Steady /\ Faulty("unsupported")' = Faulty("unsupported")
    BY <1>1 DEF Steady, Faulty
  <2> SUFFICES ASSUME Steady, ~Faulty("unsupported")
               PROVE  /\ \A q \in Outputs : image'[q].status = "ready" => attached'
                      /\ \A i \in Ids \ unwritten' : screen'[i] # "absent" =>
                            \E q \in Outputs : Written(q, i, image', pipe')
                      /\ \A q \in Outputs : fate'[q].status = "ready" /\ Releases(q, fate'[q].way) =>
                            \/ screen'[image'[q].image_id] = "absent" \/ image'[q].image_id \in unwritten'
                            \/ \E x \in Asked(calls', client') :
                                x.method = "kitty_clear" /\ x.output = q
    BY <2>1 DEF LeftGood, Releases
  <2>2. attached' /\ f.image_id = 0
    BY <1>10, FoundSteady
  <2>3. ASSUME NEW i \in Ids \ unwritten', screen'[i] # "absent"
        PROVE  \E q \in Outputs : Written(q, i, image', pipe')
    <3>1. CASE image'[o].image_id = i
      BY <1>2, <3>1 DEF Written
    <3>2. CASE image'[o].image_id # i
      <4>1. screen'[i] = screen[i]
        BY <1>4, <3>2
      <4>2. PICK q \in Outputs : Written(q, i, image, pipe)
        BY <1>3, <1>4, <2>3, <4>1 DEF LeftGood
      <4>3. Written(q, i, image, pipe')
        BY <2>2, <4>2, FoundWritten, Sizes
      <4>4. image[q].image_id = i => q # o
        BY <1>2, Sizes
      <4> QED
        BY <1>4, <4>3, <4>4 DEF Written
    <3> QED
      BY <3>1, <3>2
  <2>4. ASSUME NEW q \in Outputs, fate'[q].status = "ready", Releases(q, fate'[q].way)
        PROVE  \/ screen'[image'[q].image_id] = "absent" \/ image'[q].image_id \in unwritten'
               \/ \E x \in Asked(calls', client') : x.method = "kitty_clear" /\ x.output = q
    <3>1. q # o /\ image[q].status = "ready"
      BY <1>1, <1>2, <2>4 DEF IInv, FateGood
    <3>2. client \in running /\ client \in Clients
      BY <1>3, <3>1 DEF SteadyGood, LeftGood, TypeOK
    <3>3. \A x \in Asked(calls, client) : x.method = "kitty_clear" => x \in Asked(cs, client)
      BY <3>2, FoundClears
    <3>4. image[q].image_id \in Ids /\ image[q].image_id # next_lua_id
      <4>1. image[q].image_id \in Ids
        BY <1>3, <3>1 DEF TypeOK
      <4>2. Given(image[q].image_id, next_lua_id, next_id)
        BY <1>3, <4>1, WrittenHeld, ImageWritten DEF IdsGood
      <4>3. ~Given(next_lua_id, next_lua_id, next_id)
        BY <1>3, Sizes DEF Given, TypeOK
      <4> QED
        BY <4>1, <4>2, <4>3
    <3>5. screen'[image'[q].image_id] = screen[image[q].image_id]
      BY <1>4, <3>1, <3>4
    <3>6. image'[q].image_id = image[q].image_id /\ unwritten' = unwritten
      BY <1>4, <3>1
    <3>7. \/ screen[image[q].image_id] = "absent" \/ image[q].image_id \in unwritten
          \/ \E x \in Asked(calls, client) : x.method = "kitty_clear" /\ x.output = q
      BY <1>1, <1>3, <2>4 DEF LeftGood
    <3> QED
      BY <1>1, <3>3, <3>5, <3>6, <3>7
  <2> QED
    BY <2>2, <2>3, <2>4
<1> QED
  BY <1>5, <1>6, <1>7, <1>9, <1>11, <1>12, <1>13, SilentKeeps DEF IInv

(* The reply to an attach has the image transmitted.                       *)
LEMMA AttachedKeeps ==
    ASSUME IInv, NEW f, NEW cs, NEW l, Found(f, cs, l, pipe'), UNCHANGED stillVars,
           f.call.method = "kitty_attach", AttachReply(f, Waiting(cs, l)), f.err = "none"
    PROVE  IInv'
<1> DEFINE x == NewCall(f.call.client, f.call.output, "kitty_transmit")
<1>1. /\ attached' = TRUE /\ attach_failed' = attach_failed
      /\ next_lua_id' = next_lua_id /\ image' = image /\ screen' = screen /\ loading' = loading
      /\ unwritten' = unwritten
      /\ Send(x, Waiting(cs, l))
  BY DEF AttachReply, terminalVars
<1>2. /\ scenario' = scenario /\ client' = client /\ exited' = exited /\ closed' = closed
      /\ fate' = fate /\ running' = running /\ tty' = tty /\ next_id' = next_id
      /\ sending' = sending
  BY DEF stillVars
<1>3. /\ f.call \in Call /\ f.call.output \in Outputs /\ f.call.client \in Clients
      /\ image[f.call.output].status = "pending" /\ ForImage(f.call)
  BY FoundFields DEF ForImage
<1>4. /\ x \in Call /\ x.client = f.call.client /\ x.output = f.call.output
      /\ x.method = "kitty_transmit" /\ ForImage(x) /\ x.sent
  BY <1>3 DEF NewCall, Call, ForImage
<1> HIDE DEF x
<1>5. \A z \in Within(Lanes(cs, l)) : Apart(x, z)
  BY <1>3, <1>4 DEF Found, Apart
<1>6. /\ calls' \in [Clients -> Seq(Call)] /\ loop' \in Seq(Entry)
      /\ LanesGood(calls', loop') /\ FramesGood(calls', pipe') /\ SendingGood(calls', sending)
      /\ \A z \in Within(Lanes(calls', loop')) : z = x \/ z \in Within(Lanes(cs, l))
      /\ \A c \in Clients :
            /\ Asked(cs, c) \subseteq Asked(calls', c)
            /\ \A z \in Asked(calls', c) : z \in Asked(cs, c) \/ (z = x /\ c = x.client)
  BY <1>1, <1>4, <1>5, SendKeeps DEF Found
<1>7. TypeOK' /\ TypeOK
  BY <1>1, <1>2, <1>6 DEF IInv, TypeOK, Found, Entry
<1>8. CallsGood(Lanes(calls', loop'), image', attached', fate')
  <2> SUFFICES ASSUME NEW z \in Within(Lanes(calls', loop'))
               PROVE  CallGood(z, image', attached', fate')
    BY DEF CallsGood
  <2>1. CASE z = x
    BY <1>1, <1>3, <1>4, <2>1 DEF CallGood
  <2>2. CASE z \in Within(Lanes(cs, l))
    <3>1. CallGood(z, image, attached, fate)
      BY <2>2, FoundFields
    <3> QED
      BY <1>1, <1>2, <3>1 DEF CallGood
  <2> QED
    BY <1>6, <2>1, <2>2
<1>9. FateGood(image', fate')
  BY <1>1, <1>2 DEF IInv, FateGood
<1>10. \A c \in Clients : Asked(cs, c) \subseteq Asked(calls, c)
  BY DEF Found
(* A frame that brings a success was read from the pipe.                   *)
<1>11. f.call \in Asked(calls, f.call.client)
  <2>1. PICK c \in Clients : f.call \in Asked(calls, c)
    BY DEF Found
  <2>2. f.call.client = c
    BY <2>1 DEF IInv, LanesGood
  <2> QED
    BY <2>1, <2>2
<1>12. ProcessesGood'
  <2>1. ProcessesGood
    BY DEF IInv
  <2>2. ASSUME NEW j \in 1..Len(loop'), loop'[j] \in OnExit PROVE loop'[j].on_exit \in exited'
    <3>1. CASE loop' = l
      BY <1>2, <2>1, <2>2, <3>1 DEF Found, ProcessesGood
    <3>2. CASE loop' = Append(l, [call |-> x, err |-> "gone", image_id |-> 0])
      <4> DEFINE g == [call |-> x, err |-> "gone", image_id |-> 0]
      <4>1. g \in Reply
        BY <1>4 DEF Reply
      <4>2. g \notin OnExit
        BY <4>1, EntryFields
      <4> HIDE DEF g
      <4>3. l \in Seq(Entry) /\ loop' = Append(l, g)
        BY <3>2 DEF Found, g
      <4>4. Len(loop') = Len(l) + 1 /\ Len(l) \in Nat /\ loop'[Len(l) + 1] = g
            /\ \A i \in 1..Len(l) : loop'[i] = l[i]
        BY <4>3
      <4>5. j \in 1..Len(l) /\ loop'[j] = l[j]
        BY <2>2, <4>2, <4>4
      <4> QED
        <5>1. PICK k \in 1..Len(loop) : loop'[j] = loop[k]
          BY <2>2, <4>5 DEF Found
        <5> QED
          BY <1>2, <2>1, <2>2, <5>1 DEF ProcessesGood
    <3> QED
      BY <1>1, <3>1, <3>2 DEF Send, Waiting
  <2>3. ASSUME NEW c \in Clients, c \notin running' \union exited' \union {client'} PROVE Unborn(c)'
    <3>1. calls[c] = <<>> /\ ~tty[c] /\ next_id[c] = 1
      BY <1>2, <2>1, <2>3 DEF ProcessesGood, Unborn
    <3>2. calls[c] \in Seq(Call) /\ calls'[c] \in Seq(Call)
      BY <1>6, <1>7 DEF TypeOK
    <3>3. Asked(calls, c) = {}
      BY <3>1, <3>2, AskedNone
    <3>4. Asked(calls', c) = {}
      BY <1>4, <1>6, <1>10, <1>11, <3>3
    <3>5. calls'[c] = <<>>
      BY <3>2, <3>4, AskedNone
    <3> QED
      BY <1>2, <3>1, <3>5 DEF Unborn
  <2> QED
    BY <1>2, <2>1, <2>2, <2>3 DEF ProcessesGood
<1>13. running \subseteq Clients
  BY <1>7 DEF TypeOK
<1>14. GiverGood'
  <2>1. GiverGood
    BY DEF IInv
  <2>2. \A c \in Clients : \A z \in Asked(calls', c) : z.method = "kitty_attach" => z \in Asked(calls, c)
    BY <1>4, <1>6, <1>10
  <2> QED
    BY <1>1, <1>2, <1>13, <2>1, <2>2 DEF GiverGood
<1>15. CountsGood'
  <2>1. ASSUME NEW q \in Outputs, MayBegin(q, image', running', calls', sending')
        PROVE  MayBegin(q, image, running, calls, sending)
    <3>1. CASE image'[q].status = "none"
      BY <1>1, <3>1 DEF MayBegin
    <3>2. ASSUME NEW c \in running, NEW z \in Asked(calls', c), z.output = q,
                 \/ z.method = "kitty_attach"
                 \/ /\ z.method = "kitty_transmit" /\ z.sent
                    /\ sending[c] # Nothing => sending[c].call.output # q
          PROVE  MayBegin(q, image, running, calls, sending)
      <4>1. CASE z \in Asked(calls, c)
        BY <3>2, <4>1 DEF MayBegin
      <4>2. CASE z = x /\ c = x.client
        BY <1>4, <1>11, <3>2, <4>2 DEF MayBegin
      <4> QED
        BY <1>6, <1>10, <1>13, <3>2, <4>1, <4>2
    <3> QED
      BY <1>2, <2>1, <3>1, <3>2 DEF MayBegin
  <2>2. CountsGood
    BY DEF IInv
  <2> QED
    BY <1>1, <1>2, <1>7, <2>1, <2>2, CountsKept
<1>16. IdsGood'
  <2>1. \A o \in Outputs, i \in Ids :
          /\ Holds(o, i, image', pipe', sending') => Holds(o, i, image, pipe, sending)
          /\ Written(o, i, image', pipe') => Written(o, i, image, pipe)
    BY <1>1, <1>2, FoundNarrow DEF Holds
  <2> QED
    BY <1>1, <1>2, <2>1, NothingGiven
<1>17. Steady => loop' = <<>> /\ f.image_id = 0 /\ client \in running /\ tty[client]
  <2> SUFFICES ASSUME Steady
               PROVE  loop' = <<>> /\ f.image_id = 0 /\ client \in running /\ tty[client]
    OBVIOUS
  <2>1. exited = {} /\ closed = {}
    BY DEF IInv, SteadyGood
  <2>2. loop' = l
    BY <1>1, <2>1 DEF Send, Waiting
  <2> QED
    BY <2>2, FoundSteady
<1>18. SteadyGood'
  BY <1>1, <1>17, SteadyKept
<1>19. WholeGood'
  BY <1>1, <1>2, FoundNarrow, WholeKept
<1>20. LeftGood'
  <2>1. LeftGood /\ SteadyGood
    BY DEF IInv
  <2>2. Steady' = Steady /\ Faulty("unsupported")' = Faulty("unsupported")
    BY <1>2 DEF Steady, Faulty
  <2> SUFFICES ASSUME Steady, ~Faulty("unsupported")
               PROVE  /\ \A i \in Ids \ unwritten' : screen'[i] # "absent" =>
                            \E q \in Outputs : Written(q, i, image', pipe')
                      /\ \A q \in Outputs : fate'[q].status = "ready" /\ Releases(q, fate'[q].way) =>
                            \/ screen'[image'[q].image_id] = "absent" \/ image'[q].image_id \in unwritten'
                            \/ \E z \in Asked(calls', client') :
                                z.method = "kitty_clear" /\ z.output = q
    BY <1>1, <2>2 DEF LeftGood, Releases
  <2>3. \A i \in Ids \ unwritten' : screen'[i] # "absent" => \E q \in Outputs : Written(q, i, image', pipe')
    BY <1>1, <1>17, <2>1, FoundWritten, Sizes DEF LeftGood
  <2>4. client \in Clients
    BY <1>13, <1>17
  <2>5. \A z \in Asked(calls, client) : z.method = "kitty_clear" => z \in Asked(calls', client)
    BY <1>3, <1>6, <2>4, FoundClears
  <2> QED
    BY <1>1, <1>2, <2>1, <2>3, <2>5 DEF LeftGood
<1> QED
  BY <1>2, <1>6, <1>7, <1>8, <1>9, <1>12, <1>14, <1>15, <1>16, <1>18, <1>19, <1>20 DEF IInv

LEMMA HandleKeeps ==
    ASSUME IInv, NEW f, NEW cs, NEW l, Found(f, cs, l, pipe'), HandleReply(f, Waiting(cs, l))
    PROVE  IInv'
<1>1. UNCHANGED stillVars
  BY DEF HandleReply, stillVars, serverVars
<1>2. CASE f.call.method = "kitty_clear" /\ ClearReply(Waiting(cs, l))
  BY <1>1, <1>2, ClearReplyKeeps
<1>3. CASE f.call.method = "kitty_attach" /\ AttachReply(f, Waiting(cs, l))
  <2>1. CASE f.err = "none"
    BY <1>1, <1>3, <2>1, AttachedKeeps
  <2>2. CASE f.err # "none"
    <3>1. /\ attach_failed' = TRUE /\ attached' = attached /\ Fallback(f.call.output)
          /\ calls' = cs /\ loop' = l
      BY <1>3, <2>2 DEF AttachReply, Silent, Waiting
    <3> QED
      BY <1>1, <1>3, <2>2, <3>1, FailedKeeps DEF ForImage
  <2> QED
    BY <2>1, <2>2
<1>4. CASE f.call.method = "kitty_transmit" /\ TransmitReply(f, Waiting(cs, l))
  <2>1. CASE f.err = "none"
    BY <1>1, <1>4, <2>1, TransmittedKeeps
  <2>2. CASE f.err # "none"
    <3>1. /\ attach_failed' = attach_failed /\ attached' = attached /\ Fallback(f.call.output)
          /\ calls' = cs /\ loop' = l
      BY <1>4, <2>2 DEF TransmitReply, Silent, Waiting
    <3>2. attach_failed' \in BOOLEAN
      BY <3>1 DEF IInv, TypeOK
    <3> QED
      BY <1>1, <1>4, <2>2, <3>1, <3>2, FailedKeeps DEF ForImage
  <2> QED
    BY <2>1, <2>2
<1> QED
  BY <1>2, <1>3, <1>4 DEF HandleReply

LEMMA ReadReplyKeeps ==
    ASSUME IInv, NEW c \in Clients, ReadReply(c)
    PROVE  IInv'
<1> DEFINE f == Head(pipe[c])
<1>1. /\ calls \in [Clients -> Seq(Call)] /\ loop \in Seq(Entry)
      /\ pipe \in [Clients -> Seq(Reply)]
      /\ LanesGood(calls, loop) /\ FramesGood(calls, pipe) /\ SendingGood(calls, sending)
  BY DEF IInv, TypeOK, Entry
<1>2. pipe[c] # <<>> /\ pipe' = [pipe EXCEPT ![c] = Tail(pipe[c])]
  BY DEF ReadReply
<1>3. PICK i \in 1..Len(calls[c]) :
        /\ calls[c][i] = f.call
        /\ HandleReply(f, Waiting([calls EXCEPT ![c] = Without(calls[c], i)], loop))
  BY DEF ReadReply
<1> DEFINE cs == [calls EXCEPT ![c] = Without(calls[c], i)]
<1> HIDE DEF f
<1>4. /\ cs \in [Clients -> Seq(Call)] /\ LanesGood(cs, loop)
      /\ f.call \in Asked(calls, c)
      /\ Within(Lanes(cs, loop)) \subseteq Within(Lanes(calls, loop))
      /\ \A z \in Within(Lanes(cs, loop)) : Apart(f.call, z)
      /\ \A d \in Clients :
            /\ Asked(cs, d) \subseteq Asked(calls, d)
            /\ \A z \in Asked(calls, d) : z = f.call \/ z \in Asked(cs, d)
  BY <1>1, <1>3, RemovalKeeps
<1>5. /\ pipe' \in [Clients -> Seq(Reply)]
      /\ FramesGood(cs, pipe') /\ SendingGood(cs, sending)
      /\ f \in Reply /\ FrameGood(f, Asked(calls, c))
      /\ \A d \in Clients : \A k \in 1..Len(pipe'[d]) :
            \E j \in 1..Len(pipe[d]) : pipe'[d][k] = pipe[d][j]
      /\ \E k \in 1..Len(pipe[c]) : pipe[c][k] = f
      /\ \A d \in Clients : \A k \in 1..Len(pipe[d]) :
            (d = c /\ pipe[d][k] = f) \/ \E j \in 1..Len(pipe'[d]) : pipe'[d][j] = pipe[d][k]
  <2> DEFINE p2 == [pipe EXCEPT ![c] = Tail(pipe[c])]
             h == Head(pipe[c])
  <2>1. calls[c][i] = h.call
    BY <1>3 DEF f
  <2>2. /\ p2 \in [Clients -> Seq(Reply)]
        /\ FramesGood(cs, p2) /\ SendingGood(cs, sending)
        /\ h \in Reply /\ FrameGood(h, Asked(calls, c))
        /\ \A d \in Clients : \A k \in 1..Len(p2[d]) :
              \E j \in 1..Len(pipe[d]) : p2[d][k] = pipe[d][j]
        /\ \E k \in 1..Len(pipe[c]) : pipe[c][k] = h
        /\ \A d \in Clients : \A k \in 1..Len(pipe[d]) :
              (d = c /\ pipe[d][k] = h) \/ \E j \in 1..Len(p2[d]) : p2[d][j] = pipe[d][k]
    BY <1>1, <1>2, <2>1, ReadKeeps
  <2>3. pipe' = p2 /\ f = h
    BY <1>2 DEF f
  <2> HIDE DEF p2, h, cs
  <2> QED
    BY <2>2, <2>3
<1>6. HandleReply(f, Waiting(cs, loop))
  BY <1>3
<1> HIDE DEF cs
<1>7. f.call \in Within(Lanes(calls, loop))
  BY <1>1, <1>4, AskedWithin
<1>8. Found(f, cs, loop, pipe')
  BY <1>1, <1>4, <1>5, <1>7 DEF Found
<1> QED
  BY <1>6, <1>8, HandleKeeps

LEMMA CallbackReplyKeeps ==
    ASSUME IInv, loop # <<>>, Head(loop) \notin OnExit,
           HandleReply(Head(loop), Waiting(calls, Tail(loop))), pipe' = pipe
    PROVE  IInv'
<1> DEFINE f == Head(loop)
           l == Tail(loop)
<1>1. /\ calls \in [Clients -> Seq(Call)] /\ loop \in Seq(Entry)
      /\ pipe \in [Clients -> Seq(Reply)]
      /\ LanesGood(calls, loop) /\ FramesGood(calls, pipe) /\ SendingGood(calls, sending)
  BY DEF IInv, TypeOK, Entry
<1>2. /\ l \in Seq(Entry) /\ LanesGood(calls, l)
      /\ f \in Entry /\ f.err = "gone"
      /\ Within(Lanes(calls, l)) \subseteq Within(Lanes(calls, loop))
      /\ CallOf(f) \in Within(Lanes(calls, loop))
      /\ \A z \in Within(Lanes(calls, l)) : Apart(CallOf(f), z)
      /\ \A j \in 1..Len(l) : \E k \in 1..Len(loop) : l[j] = loop[k]
  BY <1>1, CallbackKeeps
<1>3. HandleReply(f, Waiting(calls, l)) /\ f \notin OnExit
  OBVIOUS
<1> HIDE DEF f, l
<1>4. f \in Reply /\ CallOf(f) = f.call
  BY <1>2, <1>3, EntryFields DEF Entry
<1>5. Found(f, calls, l, pipe')
  BY <1>1, <1>2, <1>4 DEF Found
<1> QED
  BY <1>3, <1>5, HandleKeeps

-----------------------------------------------------------------------------
(* Processes come and go.                                                  *)

LEMMA SpawnKeeps ==
    ASSUME IInv, NEW c \in Clients, Spawn(c)
    PROVE  IInv'
<1>1. /\ client = 0 /\ c \notin running \union exited
      /\ client' = c /\ running' = running \union {c}
      /\ UNCHANGED <<scenario, exited, closed, attached, attach_failed, next_lua_id, image,
                     fate, calls, pipe, loop, tty, next_id, sending, screen, loading,
                     unwritten>>
  BY DEF Spawn, wireVars, terminalVars
<1>2. /\ TypeOK /\ ProcessesGood /\ GiverGood /\ CountsGood /\ IdsGood
      /\ SteadyGood /\ WholeGood /\ LeftGood /\ FateGood(image, fate)
  BY DEF IInv
<1>3. /\ \A d \in Clients : d # 0 /\ d \in 0..MaxClients
      /\ running \subseteq Clients /\ closed \subseteq Clients /\ running \subseteq {0}
      /\ closed \subseteq exited \union {0}
  BY <1>1, <1>2, ClientNumbers DEF TypeOK, ProcessesGood
<1>4. running = {} /\ running' = {c} /\ c \notin closed
  BY <1>1, <1>3
<1>5. Unborn(c) /\ Asked(calls, c) = {}
  <2>1. Unborn(c) /\ calls[c] \in Seq(Call)
    BY <1>1, <1>2, <1>3 DEF ProcessesGood, TypeOK
  <2> QED
    BY <2>1, AskedNone DEF Unborn
<1>6. TypeOK'
  BY <1>1, <1>2, <1>3 DEF TypeOK
<1>7. ProcessesGood'
  <2>1. ASSUME NEW d \in Clients, d \notin running' \union exited' \union {client'} PROVE Unborn(d)'
    <3>1. Unborn(d)
      BY <1>1, <1>2, <1>3, <2>1 DEF ProcessesGood
    <3> QED
      BY <1>1, <3>1 DEF Unborn
  <2> QED
    BY <1>1, <1>2, <1>3, <1>4, <2>1 DEF ProcessesGood
<1>8. GiverGood'
  BY <1>1, <1>2, <1>4, <1>5 DEF GiverGood, Unborn
<1>9. CountsGood'
  <2>1. \A o \in Outputs : MayBegin(o, image', running', calls', sending') =>
                           MayBegin(o, image, running, calls, sending)
    BY <1>1, <1>4, <1>5 DEF MayBegin
  <2> QED
    BY <1>1, <1>2, <1>6, <2>1, CountsKept
<1>10. IdsGood'
  BY <1>1, <1>2 DEF IdsGood
<1>11. SteadyGood' /\ (Steady => ~attached)
  BY <1>1, <1>2, <1>4 DEF SteadyGood, Steady
<1>12. WholeGood'
  BY <1>1, <1>2 DEF WholeGood, Steady, Faulty, Sending
<1>13. LeftGood'
  BY <1>1, <1>2, <1>11 DEF LeftGood, Steady, Faulty, Releases, FateGood
<1> QED
  BY <1>1, <1>6, <1>7, <1>8, <1>9, <1>10, <1>11, <1>12, <1>13 DEF IInv

LEMMA ExitCallbackKeeps ==
    ASSUME IInv, NEW c \in Clients, ExitCallback(c)
    PROVE  IInv'
<1> DEFINE f == [on_exit |-> c]
<1>1. /\ client = c /\ c \notin running \union exited
      /\ exited' = exited \union {c} /\ loop' = Append(loop, f)
      /\ UNCHANGED <<scenario, client, closed, attached, attach_failed, next_lua_id, image,
                     fate, calls, pipe, running, tty, next_id, sending, screen, loading,
                     unwritten>>
  BY DEF ExitCallback, serverVars, terminalVars
<1>2. /\ TypeOK /\ ProcessesGood /\ GiverGood /\ CountsGood /\ IdsGood /\ SteadyGood
      /\ LanesGood(calls, loop) /\ FramesGood(calls, pipe) /\ SendingGood(calls, sending)
      /\ CallsGood(Lanes(calls, loop), image, attached, fate) /\ FateGood(image, fate)
  BY DEF IInv
<1>3. f \in OnExit /\ f.on_exit = c
  BY DEF OnExit
<1> HIDE DEF f
<1>4. calls \in [Clients -> Seq(Call)] /\ loop \in Seq(Entry)
  BY <1>2 DEF TypeOK, Entry
<1>5. /\ loop' \in Seq(Entry) /\ LanesGood(calls, loop')
      /\ \A z \in Within(Lanes(calls, loop')) : z = NoCall \/ z \in Within(Lanes(calls, loop))
      /\ \A j \in 1..Len(loop') : loop'[j] = f \/ \E k \in 1..Len(loop) : loop'[j] = loop[k]
  BY <1>1, <1>2, <1>3, <1>4, ExitScheduled
<1>6. TypeOK'
  BY <1>1, <1>2, <1>5 DEF TypeOK, Entry
<1>7. CallsGood(Lanes(calls', loop'), image', attached', fate')
  <2>1. CallGood(NoCall, image, attached, fate)
    BY CallFields DEF CallGood, ForImage
  <2> QED
    BY <1>1, <1>2, <1>5, <2>1 DEF CallsGood
<1>8. ProcessesGood'
  <2>1. ASSUME NEW j \in 1..Len(loop'), loop'[j] \in OnExit PROVE loop'[j].on_exit \in exited'
    BY <1>1, <1>2, <1>3, <1>5, <2>1 DEF ProcessesGood
  <2>2. ASSUME NEW d \in Clients, d \notin running' \union exited' \union {client'} PROVE Unborn(d)'
    <3>1. Unborn(d)
      BY <1>1, <1>2, <2>2 DEF ProcessesGood
    <3> QED
      BY <1>1, <3>1 DEF Unborn
  <2> QED
    BY <1>1, <1>2, <2>1, <2>2 DEF ProcessesGood
<1>9. ~Steady'
  <2>1. client # 0
    BY <1>1, ClientNumbers
  <2>2. ~Steady
    BY <1>1, <1>2, <2>1 DEF SteadyGood
  <2> QED
    BY <1>1, <2>2 DEF Steady
<1>10. SteadyGood' /\ WholeGood' /\ LeftGood'
  BY <1>9 DEF SteadyGood, WholeGood, LeftGood
<1>11. GiverGood' /\ CountsGood' /\ IdsGood' /\ FateGood(image', fate')
  BY <1>1, <1>2 DEF GiverGood, CountsGood, IdsGood
<1> QED
  BY <1>1, <1>2, <1>5, <1>6, <1>7, <1>8, <1>10, <1>11 DEF IInv

LEMMA BackendExitKeeps ==
    ASSUME IInv, RunCallback, Head(loop) \in OnExit, BackendExit(Head(loop).on_exit),
           loop' = Tail(loop),
           UNCHANGED <<scenario, exited, closed, next_lua_id, image, fate, calls,
                       serverVars, terminalVars>>
    PROVE  IInv'
<1> DEFINE c == Head(loop).on_exit
<1>1. /\ loop # <<>> /\ loop' = Tail(loop) /\ client' = IF client = c THEN 0 ELSE client
      /\ UNCHANGED <<scenario, exited, closed, attached, attach_failed, next_lua_id, image,
                     fate, calls, pipe, running, tty, next_id, sending, screen, loading,
                     unwritten>>
  BY DEF RunCallback, BackendExit, serverVars, terminalVars
<1>2. /\ TypeOK /\ ProcessesGood /\ GiverGood /\ CountsGood /\ IdsGood /\ SteadyGood
      /\ LanesGood(calls, loop) /\ FramesGood(calls, pipe) /\ SendingGood(calls, sending)
      /\ CallsGood(Lanes(calls, loop), image, attached, fate) /\ FateGood(image, fate)
  BY DEF IInv
<1>3. calls \in [Clients -> Seq(Call)] /\ loop \in Seq(Entry)
  BY <1>2 DEF TypeOK, Entry
<1>4. /\ loop' \in Seq(Entry) /\ LanesGood(calls, loop')
      /\ Within(Lanes(calls, loop')) \subseteq Within(Lanes(calls, loop))
      /\ \A j \in 1..Len(loop') : \E k \in 1..Len(loop) : loop'[j] = loop[k]
      /\ \E k \in 1..Len(loop) : loop[k] = Head(loop)
  BY <1>1, <1>2, <1>3, CallbackKeeps
<1>5. c \in exited
  BY <1>2, <1>4 DEF ProcessesGood
<1> HIDE DEF c
<1>6. TypeOK'
  BY <1>1, <1>2, <1>4, ClientNumbers DEF TypeOK, Entry
<1>7. CallsGood(Lanes(calls', loop'), image', attached', fate')
  BY <1>1, <1>2, <1>4 DEF CallsGood
<1>8. ProcessesGood'
  <2>1. ASSUME NEW j \in 1..Len(loop'), loop'[j] \in OnExit PROVE loop'[j].on_exit \in exited'
    BY <1>1, <1>2, <1>4, <2>1 DEF ProcessesGood
  <2>2. ASSUME NEW d \in Clients, d \notin running' \union exited' \union {client'} PROVE Unborn(d)'
    <3>1. Unborn(d)
      BY <1>1, <1>2, <1>5, <2>2 DEF ProcessesGood
    <3> QED
      BY <1>1, <3>1 DEF Unborn
  <2> QED
    BY <1>1, <1>2, <1>5, <2>1, <2>2 DEF ProcessesGood
<1>9. ~Steady
  BY <1>1, <1>2 DEF SteadyGood
<1>10. SteadyGood' /\ WholeGood' /\ LeftGood'
  BY <1>1, <1>9 DEF SteadyGood, WholeGood, LeftGood, Steady
<1>11. GiverGood' /\ CountsGood' /\ IdsGood' /\ FateGood(image', fate')
  BY <1>1, <1>2 DEF GiverGood, CountsGood, IdsGood
<1> QED
  BY <1>1, <1>2, <1>4, <1>6, <1>7, <1>8, <1>10, <1>11 DEF IInv

LEMMA RunCallbackKeeps ==
    ASSUME IInv, RunCallback
    PROVE  IInv'
<1>1. CASE Head(loop) \in OnExit
  <2>1. \/ /\ BackendExit(Head(loop).on_exit) /\ loop' = Tail(loop)
           /\ UNCHANGED <<scenario, exited, closed, next_lua_id, image, fate, calls,
                          serverVars, terminalVars>>
        \/ Head(loop) \notin OnExit
    BY DEF RunCallback
  <2> QED
    BY <1>1, <2>1, BackendExitKeeps
<1>2. CASE Head(loop) \notin OnExit
  <2>1. loop # <<>> /\ HandleReply(Head(loop), Waiting(calls, Tail(loop))) /\ pipe' = pipe
    BY <1>2 DEF RunCallback
  <2> QED
    BY <1>2, <2>1, CallbackReplyKeeps
<1> QED
  BY <1>1, <1>2

LEMMA ExitKeeps ==
    ASSUME IInv, NEW c \in Clients, Exit(c)
    PROVE  IInv'
<1>1. /\ c \in running /\ running' = running \ {c} /\ sending' = [sending EXCEPT ![c] = Nothing]
      /\ UNCHANGED <<scenario, client, exited, closed, attached, attach_failed, next_lua_id,
                     image, fate, calls, pipe, loop, tty, next_id, screen, loading,
                     unwritten>>
      /\ Faulty("exit")
  BY DEF Exit, luaVars, wireVars, terminalVars
<1>2. /\ TypeOK /\ ProcessesGood /\ GiverGood /\ CountsGood /\ IdsGood
      /\ LanesGood(calls, loop) /\ FramesGood(calls, pipe) /\ SendingGood(calls, sending)
      /\ CallsGood(Lanes(calls, loop), image, attached, fate) /\ FateGood(image, fate)
  BY DEF IInv
<1>3. /\ sending'[c] = Nothing /\ \A d \in Clients : d # c => sending'[d] = sending[d]
      /\ sending' \in [Clients -> Transmission \union {Nothing}]
  BY <1>1, <1>2 DEF TypeOK
<1>4. TypeOK'
  BY <1>1, <1>2, <1>3 DEF TypeOK
<1>5. SendingGood(calls', sending')
  BY <1>1, <1>2, <1>3 DEF SendingGood
<1>6. ProcessesGood'
  <2>1. c = client
    BY <1>1, <1>2 DEF ProcessesGood
  <2>2. ASSUME NEW d \in Clients, d \notin running' \union exited' \union {client'} PROVE Unborn(d)'
    <3>1. Unborn(d)
      BY <1>1, <1>2, <2>1, <2>2 DEF ProcessesGood
    <3> QED
      BY <1>1, <3>1 DEF Unborn
  <2>3. \A d \in Clients : sending'[d] # Nothing => d \in running'
    BY <1>1, <1>2, <1>3 DEF ProcessesGood
  <2> QED
    BY <1>1, <1>2, <2>2, <2>3 DEF ProcessesGood
<1>7. GiverGood'
  BY <1>1, <1>2 DEF GiverGood
<1>8. CountsGood'
  <2>1. running \subseteq Clients
    BY <1>2 DEF TypeOK
  <2>2. \A o \in Outputs : MayBegin(o, image', running', calls', sending') =>
                           MayBegin(o, image, running, calls, sending)
    BY <1>1, <1>3, <2>1 DEF MayBegin
  <2> QED
    BY <1>1, <1>2, <1>4, <2>2, CountsKept
<1>9. IdsGood'
  <2>1. \A o \in Outputs, i \in Ids :
          /\ Holds(o, i, image', pipe', sending') => Holds(o, i, image, pipe, sending)
          /\ Written(o, i, image', pipe') => Written(o, i, image, pipe)
    BY <1>1, <1>3 DEF Holds
  <2> QED
    BY <1>1, <2>1, NothingGiven
<1>10. SteadyGood' /\ WholeGood' /\ LeftGood'
  BY <1>1 DEF SteadyGood, WholeGood, LeftGood, Steady, Faulty
<1> QED
  BY <1>1, <1>2, <1>4, <1>5, <1>6, <1>7, <1>8, <1>9, <1>10 DEF IInv

LEMMA CloseClientKeeps ==
    ASSUME IInv, NEW c \in Clients, CloseClient(c)
    PROVE  IInv'
<1> DEFINE g == Gone(calls, c)
           ds == [calls EXCEPT ![c] = <<>>]
           q == [pipe EXCEPT ![c] = <<>>]
           m == loop \o g
<1>1. /\ c \notin running \union closed /\ (client = c \/ c \in exited)
      /\ closed' = closed \union {c}
      /\ loop' = m /\ calls' = ds /\ pipe' = q
      /\ UNCHANGED <<scenario, client, exited, attached, attach_failed, next_lua_id, image,
                     fate, running, tty, next_id, sending, screen, loading,
                     unwritten>>
  BY DEF CloseClient, Gone, serverVars, terminalVars
<1>2. /\ TypeOK /\ ProcessesGood /\ GiverGood /\ CountsGood /\ IdsGood /\ SteadyGood
      /\ LanesGood(calls, loop) /\ FramesGood(calls, pipe) /\ SendingGood(calls, sending)
      /\ CallsGood(Lanes(calls, loop), image, attached, fate) /\ FateGood(image, fate)
  BY DEF IInv
<1>3. /\ calls \in [Clients -> Seq(Call)] /\ loop \in Seq(Entry)
      /\ pipe \in [Clients -> Seq(Reply)] /\ sending[c] = Nothing
  BY <1>1, <1>2 DEF TypeOK, Entry, ProcessesGood
<1>4. /\ ds \in [Clients -> Seq(Call)] /\ q \in [Clients -> Seq(Reply)] /\ m \in Seq(Entry)
      /\ LanesGood(ds, m) /\ FramesGood(ds, q) /\ SendingGood(ds, sending)
      /\ Within(Lanes(ds, m)) \subseteq Within(Lanes(calls, loop))
      /\ Asked(ds, c) = {} /\ Len(q[c]) = 0
      /\ \A d \in Clients : d # c => Asked(ds, d) = Asked(calls, d) /\ q[d] = pipe[d]
      /\ \A j \in 1..Len(m) : m[j] \in OnExit => \E k \in 1..Len(loop) : m[j] = loop[k]
  <2>1. /\ ds \in [Clients -> Seq(Call)] /\ q \in [Clients -> Seq(Reply)] /\ m \in Seq(Entry)
        /\ LanesGood(ds, m) /\ FramesGood(ds, q) /\ SendingGood(ds, sending)
        /\ Within(Lanes(ds, m)) \subseteq Within(Lanes(calls, loop))
    BY <1>2, <1>3, CloseKeeps
  <2>2. /\ Asked(ds, c) = {} /\ Len(q[c]) = 0
        /\ \A d \in Clients : d # c => Asked(ds, d) = Asked(calls, d) /\ q[d] = pipe[d]
    BY <1>2, <1>3, CloseKeeps
  <2>3. NoMoreExits(m, loop)
    BY <1>2, <1>3, CloseKeeps
  <2> HIDE DEF g, ds, q, m
  <2> QED
    BY <2>1, <2>2, <2>3 DEF NoMoreExits
<1>5. \A d \in Clients : d # c => ds[d] = calls[d]
  BY <1>3
<1> HIDE DEF g, ds, q, m
<1>6. TypeOK'
  BY <1>1, <1>2, <1>4 DEF TypeOK, Entry
<1>7. CallsGood(Lanes(calls', loop'), image', attached', fate')
  BY <1>1, <1>2, <1>4 DEF CallsGood
<1>8. ProcessesGood'
  <2>1. ASSUME NEW j \in 1..Len(loop'), loop'[j] \in OnExit PROVE loop'[j].on_exit \in exited'
    BY <1>1, <1>2, <1>4, <2>1 DEF ProcessesGood
  <2>2. ASSUME NEW d \in Clients, d \notin running' \union exited' \union {client'} PROVE Unborn(d)'
    <3>1. Unborn(d) /\ d # c
      BY <1>1, <1>2, <2>2 DEF ProcessesGood
    <3> QED
      BY <1>1, <1>5, <3>1 DEF Unborn
  <2> QED
    BY <1>1, <1>2, <2>1, <2>2 DEF ProcessesGood
<1>9. running \subseteq Clients /\ c \notin running
  BY <1>1, <1>2 DEF TypeOK
<1>10. GiverGood'
  BY <1>1, <1>2, <1>4, <1>9 DEF GiverGood
<1>11. CountsGood'
  <2>1. \A o \in Outputs : MayBegin(o, image', running', calls', sending') =>
                           MayBegin(o, image, running, calls, sending)
    BY <1>1, <1>4, <1>9 DEF MayBegin
  <2> QED
    BY <1>1, <1>2, <1>6, <2>1, CountsKept
<1>12. IdsGood'
  <2>1. \A d \in Clients : \A k \in 1..Len(pipe'[d]) : pipe'[d] = pipe[d]
    BY <1>1, <1>4
  <2>2. \A o \in Outputs, i \in Ids : Written(o, i, image', pipe') => Written(o, i, image, pipe)
    <3> SUFFICES ASSUME NEW o \in Outputs, NEW i \in Ids, NEW d \in Clients,
                        NEW k \in 1..Len(pipe'[d]),
                        pipe'[d][k].call.output = o, pipe'[d][k].image_id = i
                 PROVE  Written(o, i, image, pipe)
      BY <1>1 DEF Written
    <3> QED
      BY <2>1 DEF Written
  <2> QED
    BY <1>1, <2>2, NothingGiven DEF Holds
<1>13. ~Steady'
  <2>1. c # 0
    BY ClientNumbers
  <2>2. ~Steady
    BY <1>1, <1>2, <2>1 DEF SteadyGood
  <2> QED
    BY <1>1, <2>2 DEF Steady
<1>14. SteadyGood' /\ WholeGood' /\ LeftGood' /\ FateGood(image', fate')
  BY <1>1, <1>2, <1>13 DEF SteadyGood, WholeGood, LeftGood
<1> QED
  BY <1>1, <1>2, <1>4, <1>6, <1>7, <1>8, <1>10, <1>11, <1>12, <1>14 DEF IInv

-----------------------------------------------------------------------------
(* The user: outputs are displayed and dropped.                            *)

(* A call that is sent is pending, or fails in a callback.                 *)
LEMMA SentProcesses ==
    ASSUME IInv, NEW x \in Call, x.client = client, client \in Clients,
           Send(x, Waiting(calls, loop)),
           calls' \in [Clients -> Seq(Call)],
           \A c \in Clients : \A z \in Asked(calls', c) :
                z \in Asked(calls, c) \/ (z = x /\ c = client),
           UNCHANGED <<client, exited, closed, running, sending, tty, next_id>>
    PROVE  ProcessesGood' /\ (Steady => loop' = <<>>)
<1>1. /\ ProcessesGood /\ SteadyGood
      /\ calls \in [Clients -> Seq(Call)] /\ loop \in Seq(Entry)
  BY DEF IInv, TypeOK, Entry
<1> DEFINE g == [call |-> x, err |-> "gone", image_id |-> 0]
<1>2. loop' = loop \/ (loop' = Append(loop, g) /\ x.client \in exited \union closed)
  BY DEF Send, Waiting
<1>3. Steady => loop' = <<>>
  BY <1>1, <1>2 DEF SteadyGood
<1>4. g \in Reply
  BY DEF Reply
<1>5. g \notin OnExit
  BY <1>4, EntryFields
<1> HIDE DEF g
<1>6. ASSUME NEW j \in 1..Len(loop'), loop'[j] \in OnExit PROVE loop'[j].on_exit \in exited
  <2>1. CASE loop' = loop
    BY <1>1, <1>6, <2>1 DEF ProcessesGood
  <2>2. CASE loop' = Append(loop, g)
    <3>1. Len(loop') = Len(loop) + 1 /\ Len(loop) \in Nat /\ loop'[Len(loop) + 1] = g
          /\ \A i \in 1..Len(loop) : loop'[i] = loop[i]
      BY <1>1, <2>2
    <3>2. j \in 1..Len(loop) /\ loop'[j] = loop[j]
      BY <1>5, <1>6, <3>1
    <3> QED
      BY <1>1, <1>6, <3>2 DEF ProcessesGood
  <2> QED
    BY <1>2, <2>1, <2>2
<1>7. ASSUME NEW c \in Clients, c \notin running \union exited \union {client}
      PROVE  calls'[c] = <<>> /\ ~tty[c] /\ next_id[c] = 1
  <2>1. calls[c] = <<>> /\ ~tty[c] /\ next_id[c] = 1
    BY <1>1, <1>7 DEF ProcessesGood, Unborn
  <2>2. Asked(calls, c) = {}
    BY <1>1, <2>1, AskedNone
  <2>3. Asked(calls', c) = {}
    BY <1>7, <2>2
  <2>4. calls'[c] = <<>>
    BY <2>3, AskedNone
  <2> QED
    BY <2>1, <2>4
<1> QED
  BY <1>1, <1>3, <1>6, <1>7 DEF ProcessesGood, Unborn

LEMMA DisplayKeeps ==
    ASSUME IInv, NEW o \in Outputs, Display(o)
    PROVE  IInv'
<1>1. /\ client # 0 /\ image[o].status = "none" /\ fate[o] = Held
      /\ UNCHANGED <<scenario, client, exited, closed, attached, attach_failed, fate, pipe,
                     running, tty, next_id, sending>>
  BY DEF Display, serverVars
<1>2. /\ TypeOK /\ ProcessesGood /\ GiverGood /\ CountsGood /\ IdsGood
      /\ SteadyGood /\ WholeGood /\ LeftGood
      /\ LanesGood(calls, loop) /\ FramesGood(calls, pipe) /\ SendingGood(calls, sending)
      /\ CallsGood(Lanes(calls, loop), image, attached, fate) /\ FateGood(image, fate)
  BY DEF IInv
<1>3. /\ calls \in [Clients -> Seq(Call)] /\ loop \in Seq(Entry)
      /\ client \in Clients /\ running \subseteq Clients
      /\ image \in Images /\ image[o].image_id = 0 /\ fate[o].status = "none"
  BY <1>1, <1>2, ClientNumbers DEF TypeOK, Entry, Images, Held
<1>4. \A z \in Within(Lanes(calls, loop)) : ForImage(z) => z.output # o
  BY <1>1, <1>2 DEF CallsGood, CallGood
<1>5. /\ Steady' = Steady /\ Faulty("unsupported")' = Faulty("unsupported")
  BY <1>1 DEF Steady, Faulty
<1>6. \A c \in Clients : \A k \in 1..Len(pipe'[c]) :
        \E j \in 1..Len(pipe[c]) : pipe'[c][k] = pipe[c][j]
  BY <1>1
<1>7. CASE ~attached /\ (attach_failed \/ Faulty("unsupported"))
  <2>1. Fallback(o) /\ calls' = calls /\ loop' = loop
    BY <1>7 DEF Display
  <2>2. /\ image' \in Images /\ image'[o].status \in {"ready", "failed"}
        /\ \A q \in Outputs : q # o => image'[q] = image[q]
        /\ \A q \in Outputs : image'[q].status = "ready" <=> image'[q].image_id # 0
        /\ next_lua_id' \in FirstLuaId..(FirstLuaId + Cardinality(Outputs))
        /\ next_lua_id' <= FirstLuaId + Cardinality(Settled(image'))
        /\ screen' \in [Ids -> Outputs \union {"absent", "spoiled"}]
        /\ loading' \in {"none", "open", "mixed"}
        /\ Faulty("unsupported") => screen' = screen /\ loading' = loading
        /\ unwritten' = unwritten
    BY <1>1, <1>2, <2>1, FallbackFields
  <2>3. TypeOK'
    BY <1>1, <1>2, <2>1, <2>2 DEF TypeOK, Images
  <2>4. CallsGood(Lanes(calls', loop'), image', attached', fate')
    <3> SUFFICES ASSUME NEW z \in Within(Lanes(calls, loop))
                 PROVE  CallGood(z, image', attached', fate')
      BY <2>1 DEF CallsGood
    <3>1. CallGood(z, image, attached, fate)
      BY <1>2 DEF CallsGood
    <3>2. ForImage(z) => z.output \in Outputs
      <4>1. z \in Call \/ z = NoCall
        <5>1. Lanes(calls, loop) \in AllLanes
          BY <1>3, LanesTyped
        <5>2. PICK c \in 0..MaxClients : \E i \in 1..Len(Lanes(calls, loop)[c]) :
                z = Lanes(calls, loop)[c][i]
          BY InLanes
        <5> HIDE DEF Lanes
        <5>3. Lanes(calls, loop)[c] \in Seq(Item)
          BY <5>1 DEF AllLanes
        <5>4. z \in Item
          BY <5>2, <5>3
        <5> QED
          BY <5>4 DEF Item
      <4> QED
        BY <4>1, CallFields DEF ForImage
    <3> QED
      BY <1>1, <1>4, <2>2, <3>1, <3>2 DEF CallGood
  <2>5. FateGood(image', fate')
    BY <1>1, <1>2, <1>3, <2>2 DEF FateGood
  <2>6. CountsGood'
    <3>1. \A q \in Outputs : MayBegin(q, image', running', calls', sending') =>
                             MayBegin(q, image, running, calls, sending)
      <4> SUFFICES ASSUME NEW q \in Outputs, image'[q].status = "none"
                   PROVE  image[q].status = "none"
        BY <1>1, <2>1 DEF MayBegin
      <4> QED
        BY <1>1, <2>2
    <3> QED
      BY <1>1, <1>2, <2>2, <2>3, <3>1, CountsKept
  <2>7. IdsGood'
    BY <1>1, <1>2, <1>6, <2>1, FallbackIds
  <2>8. Steady => Faulty("unsupported")
    BY <1>2, <1>7 DEF SteadyGood
  <2>9. SteadyGood'
    BY <1>1, <1>2, <1>5, <2>1 DEF SteadyGood
  <2>10. WholeGood'
    BY <1>1, <1>6, <2>2, <2>8, WholeKept
  <2>11. LeftGood'
    BY <1>5, <2>8 DEF LeftGood
  <2>12. ProcessesGood' /\ GiverGood'
    BY <1>1, <1>2, <2>1 DEF ProcessesGood, Unborn, GiverGood
  <2> QED
    BY <1>1, <1>2, <2>1, <2>3, <2>4, <2>5, <2>6, <2>7, <2>9, <2>10, <2>11, <2>12 DEF IInv
<1>8. CASE ~(~attached /\ (attach_failed \/ Faulty("unsupported")))
  <2> DEFINE x == NewCall(client, o, IF attached THEN "kitty_transmit" ELSE "kitty_attach")
  <2>1. /\ image' = [image EXCEPT ![o].status = "pending"]
        /\ Send(x, Waiting(calls, loop))
        /\ next_lua_id' = next_lua_id /\ screen' = screen /\ loading' = loading /\ unwritten' = unwritten
    BY <1>8 DEF Display, terminalVars
  <2>2. /\ x \in Call /\ x.client = client /\ x.output = o /\ x.sent /\ ForImage(x)
        /\ x.method = "kitty_transmit" => attached
        /\ x.method = "kitty_attach" => ~attached
        /\ x.method # "kitty_clear"
    BY <1>3 DEF NewCall, Call, ForImage
  <2> HIDE DEF x
  <2>3. \A z \in Within(Lanes(calls, loop)) : Apart(x, z)
    BY <1>4, <2>2 DEF Apart
  <2>4. /\ calls' \in [Clients -> Seq(Call)] /\ loop' \in Seq(Entry)
        /\ LanesGood(calls', loop') /\ FramesGood(calls', pipe) /\ SendingGood(calls', sending)
        /\ \A z \in Within(Lanes(calls', loop')) : z = x \/ z \in Within(Lanes(calls, loop))
        /\ \A c \in Clients :
              /\ Asked(calls, c) \subseteq Asked(calls', c)
              /\ \A z \in Asked(calls', c) : z \in Asked(calls, c) \/ (z = x /\ c = x.client)
    BY <1>2, <1>3, <2>1, <2>2, <2>3, SendKeeps
  <2>5. /\ image' \in Images /\ image'[o].status = "pending" /\ image'[o].image_id = 0
        /\ \A q \in Outputs : q # o => image'[q] = image[q]
    BY <1>3, <2>1 DEF Images, Statuses
  <2>6. TypeOK'
    <3>1. \A q \in Outputs : image'[q].status = "ready" <=> image'[q].image_id # 0
      BY <1>2, <2>5 DEF TypeOK
    <3> QED
      BY <1>1, <1>2, <2>1, <2>4, <2>5, <3>1 DEF TypeOK, Images, Entry
  <2>7. ProcessesGood' /\ (Steady => loop' = <<>>)
    BY <1>1, <1>3, <2>1, <2>2, <2>4, SentProcesses
  <2>8. CallsGood(Lanes(calls', loop'), image', attached', fate')
    <3> SUFFICES ASSUME NEW z \in Within(Lanes(calls', loop'))
                 PROVE  CallGood(z, image', attached', fate')
      BY DEF CallsGood
    <3>1. CASE z = x
      BY <1>1, <2>2, <2>5, <3>1 DEF CallGood
    <3>2. CASE z \in Within(Lanes(calls, loop))
      <4>1. CallGood(z, image, attached, fate)
        BY <1>2, <3>2 DEF CallsGood
      <4>2. ForImage(z) => image'[z.output].status = "pending"
        BY <2>1, <2>5, <4>1, <1>3 DEF CallGood, Images
      <4> QED
        BY <1>1, <4>1, <4>2 DEF CallGood
    <3> QED
      BY <2>4, <3>1, <3>2
  <2>9. FateGood(image', fate')
    BY <1>1, <1>2, <1>3, <2>5 DEF FateGood
  <2>10. GiverGood'
    <3>1. attached => \A c \in Clients : \A z \in Asked(calls', c) :
            z.method = "kitty_attach" => z \in Asked(calls, c)
      BY <2>2, <2>4
    <3> QED
      BY <1>1, <1>2, <1>3, <3>1 DEF GiverGood
  <2>11. CountsGood'
    <3>1. ASSUME NEW q \in Outputs, MayBegin(q, image', running', calls', sending')
          PROVE  MayBegin(q, image, running, calls, sending)
      <4>1. CASE q = o
        BY <1>1, <4>1 DEF MayBegin
      <4>2. CASE q # o
        <5>1. \A c \in running : \A z \in Asked(calls', c) : z.output = q => z \in Asked(calls, c)
          BY <1>3, <2>2, <2>4, <4>2
        <5> QED
          BY <1>1, <2>5, <3>1, <4>2, <5>1 DEF MayBegin
      <4> QED
        BY <4>1, <4>2
    <3>2. \A q \in Outputs : image[q].status \in {"ready", "failed"} =>
                             image'[q].status \in {"ready", "failed"}
      BY <1>1, <2>5
    <3> QED
      BY <1>1, <1>2, <2>1, <2>6, <3>1, <3>2, CountsKept
  <2>12. \A q \in Outputs : image'[q].image_id = image[q].image_id
    BY <1>3, <2>5
  <2>13. \A q \in Outputs : \A i :
            Written(q, i, image', pipe') <=> Written(q, i, image, pipe)
    BY <1>1, <2>12 DEF Written
  <2>14. IdsGood'
    BY <1>1, <2>1, <2>12, <2>13, NothingGiven DEF Holds
  <2>15. SteadyGood'
    BY <1>1, <1>2, <1>5, <2>7 DEF SteadyGood
  <2>16. WholeGood'
    BY <1>1, <1>6, <2>1, WholeKept
  <2>17. LeftGood'
    <3> SUFFICES ASSUME Steady, ~Faulty("unsupported")
                 PROVE  /\ \A q \in Outputs : image'[q].status = "ready" => attached'
                        /\ \A i \in Ids \ unwritten' : screen'[i] # "absent" =>
                              \E q \in Outputs : Written(q, i, image', pipe')
                        /\ \A q \in Outputs : fate'[q].status = "ready" /\ Releases(q, fate'[q].way) =>
                              \/ screen'[image'[q].image_id] = "absent" \/ image'[q].image_id \in unwritten'
                              \/ \E z \in Asked(calls', client') :
                                  z.method = "kitty_clear" /\ z.output = q
      BY <1>5 DEF LeftGood, Releases
    <3>1. \A q \in Outputs : image'[q].status = "ready" => image[q].status = "ready"
      BY <2>5
    <3>2. Asked(calls, client) \subseteq Asked(calls', client)
      BY <1>3, <2>4
    <3>3. \A i \in Ids \ unwritten' : screen'[i] # "absent" =>
              \E q \in Outputs : Written(q, i, image', pipe')
      BY <1>2, <2>1, <2>13 DEF LeftGood
    <3>4. ASSUME NEW q \in Outputs, fate'[q].status = "ready", Releases(q, fate'[q].way)
          PROVE  \/ screen'[image'[q].image_id] = "absent"
                 \/ image'[q].image_id \in unwritten'
                 \/ \E z \in Asked(calls', client') : z.method = "kitty_clear" /\ z.output = q
      <4>1. \/ screen[image[q].image_id] = "absent" \/ image[q].image_id \in unwritten
            \/ \E z \in Asked(calls, client) : z.method = "kitty_clear" /\ z.output = q
        BY <1>1, <1>2, <3>4 DEF LeftGood
      <4> QED
        BY <1>1, <2>1, <2>12, <3>2, <4>1
    <3>5. \A q \in Outputs : image'[q].status = "ready" => attached'
      BY <1>1, <1>2, <3>1 DEF LeftGood
    <3> QED
      BY <3>3, <3>4, <3>5
  <2> QED
    BY <1>1, <2>4, <2>6, <2>7, <2>8, <2>9, <2>10, <2>11, <2>14, <2>15, <2>16, <2>17 DEF IInv
<1> QED
  BY <1>7, <1>8

LEMMA DropKeeps ==
    ASSUME IInv, NEW o \in Outputs, NEW way \in AllWays, Drop(o, way)
    PROVE  IInv'
<1> DEFINE x == NewCall(client, o, "kitty_clear")
           gone == \/ ~Releases(o, way) \/ image[o].image_id = 0 \/ client = 0
                   \/ client \in exited \union closed
<1>1. /\ fate[o] = Held
      /\ fate' = [fate EXCEPT ![o] = [way |-> way, status |-> image[o].status]]
      /\ UNCHANGED <<scenario, client, exited, closed, attached, attach_failed, next_lua_id,
                     image, pipe, loop, running, tty, next_id, sending, screen, loading,
                     unwritten>>
  BY DEF Drop, serverVars, terminalVars
<1>2. calls' = IF gone THEN calls ELSE [calls EXCEPT ![client] = Append(calls[client], x)]
  BY DEF Drop
<1>3. /\ TypeOK /\ ProcessesGood /\ GiverGood /\ CountsGood /\ IdsGood
      /\ SteadyGood /\ WholeGood /\ LeftGood
      /\ LanesGood(calls, loop) /\ FramesGood(calls, pipe) /\ SendingGood(calls, sending)
      /\ CallsGood(Lanes(calls, loop), image, attached, fate) /\ FateGood(image, fate)
  BY DEF IInv
<1>4. /\ calls \in [Clients -> Seq(Call)] /\ loop \in Seq(Entry)
      /\ running \subseteq Clients /\ fate[o].status = "none"
      /\ client # 0 => client \in Clients
      /\ image[o].status = "ready" <=> image[o].image_id # 0
  BY <1>1, <1>3, ClientNumbers DEF TypeOK, Entry, Held
<1>5. /\ fate' \in [Outputs -> [way : AllWays \union {"held"}, status : Statuses]]
      /\ fate'[o].way = way /\ fate'[o].status = image[o].status
      /\ \A q \in Outputs : q # o => fate'[q] = fate[q]
      /\ fate'[o] # Held
  BY <1>1, <1>3 DEF TypeOK, AllWays, Held
<1>6. /\ calls' \in [Clients -> Seq(Call)]
      /\ LanesGood(calls', loop) /\ FramesGood(calls', pipe) /\ SendingGood(calls', sending)
      /\ \A z \in Within(Lanes(calls', loop)) :
            z \in Within(Lanes(calls, loop))
            \/ (z.method = "kitty_clear" /\ z.output = o /\ image[o].status = "ready")
      /\ \A c \in Clients :
            /\ Asked(calls, c) \subseteq Asked(calls', c)
            /\ \A z \in Asked(calls', c) :
                  z \in Asked(calls, c) \/ (z.method = "kitty_clear" /\ c = client)
      /\ ~gone => \E z \in Asked(calls', client) : z.method = "kitty_clear" /\ z.output = o
  <2>1. CASE gone
    BY <1>2, <1>3, <1>4, <2>1
  <2>2. CASE ~gone
    <3>1. /\ client \in Clients /\ client \notin exited \union closed
          /\ image[o].status = "ready"
      BY <1>4, <2>2
    <3>2. /\ x \in Call /\ x.client = client /\ x.output = o /\ x.method = "kitty_clear"
      BY <3>1 DEF NewCall, Call
    <3>3. calls' = [calls EXCEPT ![client] = Append(calls[client], x)]
      BY <1>2, <2>2
    <3> HIDE DEF x, gone
    <3>4. \A z \in Within(Lanes(calls, loop)) : Apart(x, z)
      BY <3>2 DEF Apart, ForImage
    <3>5. Send(x, Waiting(calls, loop)) /\ loop' = loop
      BY <1>1, <3>1, <3>2, <3>3 DEF Send, Waiting
    <3>6. /\ calls' \in [Clients -> Seq(Call)]
          /\ LanesGood(calls', loop') /\ FramesGood(calls', pipe) /\ SendingGood(calls', sending)
          /\ \A z \in Within(Lanes(calls', loop')) : z = x \/ z \in Within(Lanes(calls, loop))
          /\ \A c \in Clients :
                /\ Asked(calls, c) \subseteq Asked(calls', c)
                /\ \A z \in Asked(calls', c) : z \in Asked(calls, c) \/ (z = x /\ c = x.client)
      BY <1>3, <1>4, <3>2, <3>4, <3>5, SendKeeps
    <3>7. x \in Asked(calls', client)
      <4>1. calls'[client] = Append(calls[client], x) /\ calls[client] \in Seq(Call)
        BY <1>4, <3>1, <3>3
      <4>2. Len(calls'[client]) = Len(calls[client]) + 1 /\ Len(calls[client]) \in Nat
            /\ calls'[client][Len(calls[client]) + 1] = x
        BY <3>2, <4>1
      <4>3. Len(calls[client]) + 1 \in 1..Len(calls'[client])
        BY <4>2
      <4> QED
        BY <4>2, <4>3 DEF Asked
    <3> QED
      BY <3>1, <3>2, <3>5, <3>6, <3>7
  <2> QED
    BY <2>1, <2>2
<1> HIDE DEF x
<1>7. TypeOK'
  BY <1>1, <1>3, <1>5, <1>6 DEF TypeOK
<1>8. CallsGood(Lanes(calls', loop'), image', attached', fate')
  <2> SUFFICES ASSUME NEW z \in Within(Lanes(calls', loop))
               PROVE  CallGood(z, image, attached, fate')
    BY <1>1 DEF CallsGood
  <2>1. CASE z \in Within(Lanes(calls, loop))
    <3>1. CallGood(z, image, attached, fate)
      BY <1>3, <2>1 DEF CallsGood
    <3>2. z.method = "kitty_clear" => z.output # o /\ fate'[z.output] = fate[z.output]
      BY <1>1, <1>4, <3>1, <1>3 DEF CallGood, TypeOK
    <3> QED
      BY <3>1, <3>2 DEF CallGood
  <2>2. CASE z.method = "kitty_clear" /\ z.output = o /\ image[o].status = "ready"
    BY <1>5, <2>2 DEF CallGood, ForImage
  <2> QED
    BY <1>6, <2>1, <2>2
<1>9. FateGood(image', fate')
  BY <1>1, <1>3, <1>5 DEF FateGood
<1>10. ProcessesGood'
  <2>1. ASSUME NEW c \in Clients, c \notin running' \union exited' \union {client'} PROVE Unborn(c)'
    <3>1. calls[c] = <<>> /\ ~tty[c] /\ next_id[c] = 1 /\ c # client
      BY <1>1, <1>3, <2>1 DEF ProcessesGood, Unborn
    <3>2. calls'[c] = <<>>
      BY <1>2, <1>4, <3>1
    <3> QED
      BY <1>1, <3>1, <3>2 DEF Unborn
  <2> QED
    BY <1>1, <1>3, <2>1 DEF ProcessesGood
<1> HIDE DEF gone
<1>11. GiverGood'
  <2>1. \A c \in Clients : \A z \in Asked(calls', c) :
          z.method = "kitty_attach" => z \in Asked(calls, c)
    BY <1>6
  <2> QED
    BY <1>1, <1>3, <1>4, <2>1 DEF GiverGood
<1>12. CountsGood'
  <2>1. \A c \in running : \A z \in Asked(calls', c) :
          z.method \in {"kitty_attach", "kitty_transmit"} => z \in Asked(calls, c)
    BY <1>4, <1>6
  <2>2. \A q \in Outputs : MayBegin(q, image', running', calls', sending') =>
                           MayBegin(q, image, running, calls, sending)
    BY <1>1, <2>1 DEF MayBegin
  <2> QED
    BY <1>1, <1>3, <1>7, <2>2, CountsKept
<1>13. IdsGood'
  <2>1. \A q \in Outputs : fate[q] # Held => fate'[q] # Held
    BY <1>1, <1>5
  <2> QED
    BY <1>1, <1>3, <2>1, IdsKept
<1>14. SteadyGood' /\ WholeGood'
  BY <1>1, <1>3 DEF SteadyGood, WholeGood, Steady, Faulty, Sending
<1>15. LeftGood'
  <2> SUFFICES ASSUME Steady, ~Faulty("unsupported"),
                      NEW q \in Outputs, fate'[q].status = "ready", Releases(q, fate'[q].way)
               PROVE  \/ screen[image[q].image_id] = "absent"
                      \/ image[q].image_id \in unwritten
                      \/ \E z \in Asked(calls', client) :
                          z.method = "kitty_clear" /\ z.output = q
    BY <1>1, <1>3 DEF LeftGood, Releases, Steady, Faulty
  <2>1. image[q].status = "ready"
    BY <1>1, <1>3, <1>5 DEF FateGood
  <2>2. /\ client \in Clients /\ exited = {} /\ closed = {}
    BY <1>3, <1>4, <2>1 DEF SteadyGood, LeftGood
  <2>3. CASE q = o
    <3>1. ~gone
      BY <1>4, <1>5, <2>1, <2>2, <2>3, ClientNumbers DEF gone
    <3> QED
      BY <1>6, <2>3, <3>1
  <2>4. CASE q # o
    <3>1. Asked(calls, client) \subseteq Asked(calls', client)
      BY <1>6, <2>2
    <3> QED
      BY <1>3, <1>5, <2>4, <3>1 DEF LeftGood
  <2> QED
    BY <2>3, <2>4
<1> QED
  BY <1>1, <1>3, <1>6, <1>7, <1>8, <1>9, <1>10, <1>11, <1>12, <1>13, <1>14, <1>15 DEF IInv

-----------------------------------------------------------------------------
(* The backend.                                                            *)

(* The calls of c that an answer may be given to.                          *)
Answerable(c, i, err, id, sd) ==
    /\ c \in running /\ i \in 1..Len(calls[c])
    /\ calls[c][i].sent /\ ForImage(calls[c][i])
    /\ sd[c] # Nothing => sd[c].call # calls[c][i]
    /\ err \in {"none", "error"} /\ id \in Ids \union {0}
    /\ id # 0 <=> calls[c][i].method = "kitty_transmit" /\ err = "none"

LEMMA AnswerDoes ==
    ASSUME IInv, NEW c \in Clients, NEW i, NEW err, NEW id, NEW sd,
           Answerable(c, i, err, id, sd), SendingGood(calls, sd), Answer(c, i, err, id)
    PROVE  Answered(calls, loop, pipe, calls', pipe', c, i, err, id) /\ SendingGood(calls', sd)
<1> DEFINE ds == Marked(calls, c, i)
           q == Replied(calls, pipe, c, i, err, id)
<1>1. /\ calls \in [Clients -> Seq(Call)] /\ loop \in Seq(Entry)
      /\ pipe \in [Clients -> Seq(Reply)]
      /\ LanesGood(calls, loop) /\ FramesGood(calls, pipe)
  BY DEF IInv, TypeOK, Entry
<1>2. /\ i \in 1..Len(calls[c]) /\ calls[c][i].sent /\ ForImage(calls[c][i])
      /\ sd[c] # Nothing => sd[c].call # calls[c][i]
      /\ err \in {"none", "error"} /\ id \in Ids \union {0}
      /\ id # 0 <=> calls[c][i].method = "kitty_transmit" /\ err = "none"
  BY DEF Answerable
<1>3. Answered(calls, loop, pipe, ds, q, c, i, err, id) /\ SendingGood(ds, sd)
  BY <1>1, <1>2, AnswerKeeps
<1>4. calls' = ds /\ pipe' = q
  BY DEF Answer, Marked, Replied
<1> HIDE DEF ds, q
<1> QED
  BY <1>3, <1>4

(* The parts of the invariant that no answer disturbs.                     *)
LEMMA AnsweredKeeps ==
    ASSUME IInv, NEW c \in Clients, NEW i, NEW err, NEW id,
           Answerable(c, i, err, id, sending'), Answer(c, i, err, id),
           sending' = sending \/ sending' = [sending EXCEPT ![c] = Nothing],
           sending[c] # Nothing => sending[c].call = calls[c][i] \/ sending' = sending,
           \A d \in Clients : (d # c => tty'[d] = tty[d]) /\ (tty[d] => tty'[d]),
           calls[c][i].method # "kitty_attach" => tty' = tty,
           UNCHANGED <<scenario, luaVars, loop, running, next_id>>,
           TypeOK',
           Steady /\ calls[c][i].method = "kitty_attach" => err = "none" /\ tty'[c]
    PROVE  /\ Answered(calls, loop, pipe, calls', pipe', c, i, err, id)
           /\ LanesGood(calls', loop') /\ FramesGood(calls', pipe')
           /\ SendingGood(calls', sending')
           /\ CallsGood(Lanes(calls', loop'), image', attached', fate')
           /\ FateGood(image', fate') /\ ProcessesGood' /\ GiverGood' /\ CountsGood'
           /\ SteadyGood'
           /\ running = {c} /\ client = c
<1> DEFINE a == [calls[c][i] EXCEPT !.sent = FALSE]
<1>1. /\ TypeOK /\ ProcessesGood /\ GiverGood /\ CountsGood /\ SteadyGood
      /\ LanesGood(calls, loop) /\ SendingGood(calls, sending)
      /\ CallsGood(Lanes(calls, loop), image, attached, fate) /\ FateGood(image, fate)
  BY DEF IInv
<1>2. UNCHANGED <<scenario, client, exited, closed, attached, attach_failed, next_lua_id,
                  image, fate, loop, running, next_id>>
  BY DEF luaVars
<1>3. /\ \A d \in Clients : d # c => sending'[d] = sending[d]
      /\ sending'[c] = sending[c] \/ sending'[c] = Nothing
      /\ \A d \in Clients : sending'[d] = sending[d] \/ sending'[d] = Nothing
  BY <1>1 DEF TypeOK
<1>4. SendingGood(calls, sending')
  BY <1>1, <1>3 DEF SendingGood
<1>5. Answered(calls, loop, pipe, calls', pipe', c, i, err, id) /\ SendingGood(calls', sending')
  BY <1>4, AnswerDoes
<1>6. /\ i \in 1..Len(calls[c]) /\ calls[c][i].sent /\ ForImage(calls[c][i])
      /\ calls[c][i] \in Asked(calls, c) /\ c \in running
      /\ sending'[c] # Nothing => sending'[c].call # calls[c][i]
      /\ err \in {"none", "error"}
      /\ id # 0 <=> calls[c][i].method = "kitty_transmit" /\ err = "none"
  BY DEF Answerable, Asked
<1>7. running = {c} /\ client = c
  BY <1>1, <1>6 DEF ProcessesGood
<1>8. /\ LanesGood(calls', loop) /\ FramesGood(calls', pipe')
      /\ ~a.sent /\ a.method = calls[c][i].method /\ a.output = calls[c][i].output
      /\ \A z \in Within(Lanes(calls', loop)) : z = a \/ z \in Within(Lanes(calls, loop))
      /\ \A d \in Clients : d # c => Asked(calls', d) = Asked(calls, d)
      /\ \A z \in Asked(calls', c) : z = a \/ (z \in Asked(calls, c) /\ Apart(calls[c][i], z))
  BY <1>5 DEF Answered
<1> HIDE DEF a
<1>15. \A d \in Clients : d # c => calls'[d] = calls[d]
  BY <1>1 DEF Answer, TypeOK
<1>9. calls[c][i] \in Within(Lanes(calls, loop))
  BY <1>1, <1>6, AskedWithin DEF TypeOK, Entry
<1>10. CallsGood(Lanes(calls', loop'), image', attached', fate')
  <2> SUFFICES ASSUME NEW z \in Within(Lanes(calls', loop))
               PROVE  CallGood(z, image, attached, fate)
    BY <1>2 DEF CallsGood
  <2>1. CASE z = a
    <3>1. CallGood(calls[c][i], image, attached, fate)
      BY <1>1, <1>9 DEF CallsGood
    <3> QED
      BY <1>8, <2>1, <3>1 DEF CallGood, ForImage
  <2>2. CASE z \in Within(Lanes(calls, loop))
    BY <1>1, <2>2 DEF CallsGood
  <2> QED
    BY <1>8, <2>1, <2>2
<1>11. ProcessesGood'
  <2>1. ASSUME NEW d \in Clients, d \notin running' \union exited' \union {client'} PROVE Unborn(d)'
    <3>1. calls[d] = <<>> /\ ~tty[d] /\ next_id[d] = 1 /\ d # c
      BY <1>1, <1>2, <1>7, <2>1 DEF ProcessesGood, Unborn
    <3>2. calls'[d] = <<>> /\ ~tty'[d]
      BY <1>15, <3>1
    <3> QED
      BY <1>2, <3>1, <3>2 DEF Unborn
  <2>2. \A d \in Clients : sending'[d] # Nothing => d \in running'
    BY <1>1, <1>2, <1>3 DEF ProcessesGood
  <2> QED
    BY <1>1, <1>2, <2>1, <2>2 DEF ProcessesGood
<1>12. GiverGood'
  <2> SUFFICES ASSUME NEW e \in Clients, next_id[e] # 1, NEW d \in running \ {e}
               PROVE  ~tty'[d] /\ \A z \in Asked(calls', d) : z.method # "kitty_attach"
    BY <1>1, <1>2 DEF GiverGood
  <2>1. d = c
    BY <1>7
  <2>2. ~tty[c] /\ \A z \in Asked(calls, c) : z.method # "kitty_attach"
    BY <1>1, <2>1 DEF GiverGood
  <2>3. calls[c][i].method = "kitty_transmit"
    BY <1>6, <2>2 DEF ForImage
  <2>4. \A z \in Asked(calls', c) : z.method # "kitty_attach"
    BY <1>8, <2>2, <2>3
  <2>5. image[calls[c][i].output].status = "pending"
    BY <1>1, <1>6, <1>9 DEF CallsGood, CallGood
  <2> QED
    BY <2>1, <2>2, <2>3, <2>4
<1>13. CountsGood'
  <2>1. ASSUME NEW q \in Outputs, MayBegin(q, image', running', calls', sending')
        PROVE  MayBegin(q, image, running, calls, sending)
    <3>1. CASE image'[q].status = "none"
      BY <1>2, <3>1 DEF MayBegin
    <3>2. CASE image'[q].status # "none"
      <4>1. PICK z \in Asked(calls', c) :
                /\ z.output = q
                /\ \/ z.method = "kitty_attach"
                   \/ /\ z.method = "kitty_transmit" /\ z.sent
                      /\ sending'[c] # Nothing => sending'[c].call.output # q
        BY <1>2, <1>7, <2>1, <3>2 DEF MayBegin
      <4>2. CASE z = a
        BY <1>6, <1>7, <1>8, <4>1, <4>2 DEF MayBegin
      <4>3. CASE z \in Asked(calls, c) /\ Apart(calls[c][i], z)
        <5>1. z.method = "kitty_transmit" => calls[c][i].output # q
          BY <1>6, <4>1, <4>3 DEF Apart, ForImage
        <5>2. z.method = "kitty_transmit" => (sending[c] # Nothing => sending[c].call.output # q)
          BY <4>1, <5>1
        <5> QED
          BY <1>7, <4>1, <4>3, <5>2 DEF MayBegin
      <4> QED
        BY <1>8, <4>1, <4>2, <4>3
    <3> QED
      BY <3>1, <3>2
  <2> QED
    BY <1>1, <1>2, <2>1, CountsKept
<1>14. SteadyGood'
  <2>1. Steady' = Steady
    BY <1>2 DEF Steady
  <2>2. ASSUME Steady, NEW d \in Clients, NEW k \in 1..Len(pipe'[d]),
               pipe'[d][k].call.method = "kitty_attach"
        PROVE  pipe'[d][k].err = "none" /\ d \in running /\ tty'[d]
    <3> DEFINE f == [call |-> a, err |-> err, image_id |-> id]
    <3>1. (d = c /\ pipe'[d][k] = f) \/ \E j \in 1..Len(pipe[d]) : pipe'[d][k] = pipe[d][j]
      BY <1>5 DEF Answered, a
    <3>2. CASE d = c /\ pipe'[d][k] = f
      <4>1. f.call = a /\ f.err = err
        OBVIOUS
      <4> QED
        BY <1>6, <1>8, <2>2, <3>2, <4>1
    <3>3. CASE \E j \in 1..Len(pipe[d]) : pipe'[d][k] = pipe[d][j]
      BY <1>1, <2>2, <3>3 DEF SteadyGood
    <3> QED
      BY <3>1, <3>2, <3>3
  <2>3. attached /\ Steady => client \in Clients /\ tty'[client]
    BY <1>1, <1>7 DEF SteadyGood
  <2> QED
    BY <1>1, <1>2, <2>1, <2>2, <2>3 DEF SteadyGood
<1> QED
  BY <1>1, <1>2, <1>5, <1>7, <1>8, <1>10, <1>11, <1>12, <1>13, <1>14

(* The replies and the pending calls after an answer.                      *)
LEMMA AnsweredWritten ==
    ASSUME NEW c \in Clients, NEW i, NEW err, NEW id,
           Answered(calls, loop, pipe, calls', pipe', c, i, err, id),
           ForImage(calls[c][i]), image' = image
    PROVE  /\ \A o, n : Written(o, n, image, pipe) => Written(o, n, image', pipe')
           /\ \A o, n : Written(o, n, image', pipe') =>
                Written(o, n, image, pipe) \/ (o = calls[c][i].output /\ n = id)
           /\ Written(calls[c][i].output, id, image', pipe')
           /\ \A z \in Asked(calls, c) : z.method = "kitty_clear" => z \in Asked(calls', c)
           /\ \A d \in Clients : \A k \in 1..Len(pipe'[d]) :
                pipe'[d][k].err = err \/ \E j \in 1..Len(pipe[d]) : pipe'[d][k] = pipe[d][j]
<1> DEFINE a == [calls[c][i] EXCEPT !.sent = FALSE]
           f == [call |-> a, err |-> err, image_id |-> id]
<1>1. /\ a.output = calls[c][i].output
      /\ \A z \in Asked(calls, c) : z = calls[c][i] \/ z \in Asked(calls', c)
      /\ \A d \in Clients : \A k \in 1..Len(pipe'[d]) :
           (d = c /\ pipe'[d][k] = f) \/ \E j \in 1..Len(pipe[d]) : pipe'[d][k] = pipe[d][j]
      /\ \E k \in 1..Len(pipe'[c]) : pipe'[c][k] = f
      /\ \A d \in Clients : \A k \in 1..Len(pipe[d]) :
           \E j \in 1..Len(pipe'[d]) : pipe'[d][j] = pipe[d][k]
  BY DEF Answered
<1>2. f.call = a /\ f.err = err /\ f.image_id = id
  OBVIOUS
<1> HIDE DEF a, f
<1>3. ASSUME NEW o, NEW n, Written(o, n, image, pipe) PROVE Written(o, n, image', pipe')
  <2>1. CASE image[o].image_id = n
    BY <2>1 DEF Written
  <2>2. ASSUME NEW d \in Clients, NEW k \in 1..Len(pipe[d]),
               pipe[d][k].call.output = o, pipe[d][k].image_id = n
        PROVE  Written(o, n, image', pipe')
    <3>1. PICK j \in 1..Len(pipe'[d]) : pipe'[d][j] = pipe[d][k]
      BY <1>1
    <3> QED
      BY <2>2, <3>1 DEF Written
  <2> QED
    BY <1>3, <2>1, <2>2 DEF Written
<1>4. ASSUME NEW o, NEW n, Written(o, n, image', pipe')
      PROVE  Written(o, n, image, pipe) \/ (o = calls[c][i].output /\ n = id)
  <2>1. CASE image'[o].image_id = n
    BY <2>1 DEF Written
  <2>2. ASSUME NEW d \in Clients, NEW k \in 1..Len(pipe'[d]),
               pipe'[d][k].call.output = o, pipe'[d][k].image_id = n
        PROVE  Written(o, n, image, pipe) \/ (o = calls[c][i].output /\ n = id)
    BY <1>1, <1>2, <2>2 DEF Written
  <2> QED
    BY <1>4, <2>1, <2>2 DEF Written
<1>5. Written(calls[c][i].output, id, image', pipe')
  BY <1>1, <1>2 DEF Written
<1>6. \A z \in Asked(calls, c) : z.method = "kitty_clear" => z \in Asked(calls', c)
  BY <1>1 DEF ForImage
<1>7. \A d \in Clients : \A k \in 1..Len(pipe'[d]) :
        pipe'[d][k].err = err \/ \E j \in 1..Len(pipe[d]) : pipe'[d][k] = pipe[d][j]
  BY <1>1, <1>2
<1> QED
  BY <1>3, <1>4, <1>5, <1>6, <1>7

(* An answer that brings no id: what it brings to the terminal is of no    *)
(* output.                                                                 *)
LEMMA RefusedKeeps ==
    ASSUME IInv, NEW c \in Clients, NEW i, NEW err,
           Answered(calls, loop, pipe, calls', pipe', c, i, err, 0),
           ForImage(calls[c][i]), client = c,
           UNCHANGED <<scenario, luaVars, next_id>>,
           unwritten \subseteq unwritten',
           \A n \in Ids : \/ screen'[n] = screen[n]
                          \/ n \in unwritten' /\ \A o \in Outputs : ~Written(o, n, image, pipe),
           \A d \in Clients : sending'[d] = sending[d] \/ sending'[d] = Nothing
    PROVE  IdsGood' /\ LeftGood'
<1>1. UNCHANGED <<scenario, client, attached, next_lua_id, image, fate, next_id>>
  BY DEF luaVars
<1>2. /\ \A o, n : Written(o, n, image, pipe) => Written(o, n, image', pipe')
      /\ \A o, n : Written(o, n, image', pipe') =>
            Written(o, n, image, pipe) \/ (o = calls[c][i].output /\ n = 0)
      /\ \A z \in Asked(calls, c) : z.method = "kitty_clear" => z \in Asked(calls', c)
  BY <1>1, AnsweredWritten
<1>3. \A o \in Outputs, n \in Ids : Written(o, n, image', pipe') => Written(o, n, image, pipe)
  BY <1>2, Sizes
<1>4. \A o \in Outputs, n \in Ids :
        Holds(o, n, image', pipe', sending') => Holds(o, n, image, pipe, sending)
  BY <1>3 DEF Holds
<1>5. LeftGood /\ IdsGood /\ TypeOK /\ FateGood(image, fate)
  BY DEF IInv
<1>6. IdsGood'
  <2>1. \A o \in Outputs, n \in Ids : Written(o, n, image', pipe') =>
          screen'[n] \in {o, "spoiled"} \/ (image'[o].image_id = n /\ fate'[o] # Held)
    BY <1>1, <1>3, <1>5 DEF IdsGood
  <2> QED
    BY <1>1, <1>4, <1>5, <2>1 DEF IdsGood
<1>7. LeftGood'
  <2> SUFFICES ASSUME Steady, ~Faulty("unsupported")
               PROVE  /\ \A n \in Ids \ unwritten' : screen'[n] # "absent" =>
                            \E q \in Outputs : Written(q, n, image', pipe')
                      /\ \A q \in Outputs : fate[q].status = "ready" /\ Releases(q, fate[q].way) =>
                            \/ screen'[image[q].image_id] = "absent"
                            \/ image[q].image_id \in unwritten'
                            \/ \E z \in Asked(calls', client) :
                                z.method = "kitty_clear" /\ z.output = q
    BY <1>1, <1>5 DEF LeftGood, Steady, Faulty, Releases
  <2>1. \A n \in Ids \ unwritten' : screen'[n] # "absent" =>
            \E q \in Outputs : Written(q, n, image', pipe')
    BY <1>2, <1>5 DEF LeftGood
  <2>2. ASSUME NEW q \in Outputs, fate[q].status = "ready", Releases(q, fate[q].way)
        PROVE  \/ screen'[image[q].image_id] = "absent" \/ image[q].image_id \in unwritten'
               \/ \E z \in Asked(calls', client) : z.method = "kitty_clear" /\ z.output = q
    <3>1. image[q].image_id \in Ids
      BY <1>5, <2>2 DEF FateGood, TypeOK
    <3>2. screen'[image[q].image_id] = screen[image[q].image_id]
      BY <3>1, ImageWritten
    <3> QED
      BY <1>2, <1>5, <2>2, <3>2 DEF LeftGood
  <2> QED
    BY <2>1, <2>2
<1> QED
  BY <1>6, <1>7

LEMMA AttachKeeps ==
    ASSUME IInv, NEW c \in Clients, NEW i \in 1..Len(calls[c]), Attach(c, i)
    PROVE  IInv'
<1>1. PICK err \in {"none", "error"} :
        /\ Answer(c, i, err, 0)
        /\ err = "none" => Unlocked(c) /\ tty' = [tty EXCEPT ![c] = TRUE]
        /\ err = "error" => Faulty("tty") /\ tty' = tty
  BY DEF Attach
<1>2. /\ c \in running /\ calls[c][i].sent /\ calls[c][i].method = "kitty_attach"
      /\ UNCHANGED <<scenario, luaVars, loop, running, next_id, sending, screen, loading,
                     unwritten>>
  BY DEF Attach, Pending, terminalVars
<1>3. /\ TypeOK /\ SendingGood(calls, sending) /\ WholeGood
  BY DEF IInv
<1>4. Answerable(c, i, err, 0, sending)
  BY <1>2, <1>3 DEF Answerable, ForImage, SendingGood
<1>5. Answered(calls, loop, pipe, calls', pipe', c, i, err, 0)
  BY <1>1, <1>3, <1>4, AnswerDoes
<1>6. /\ tty' \in [Clients -> BOOLEAN]
      /\ \A d \in Clients : (d # c => tty'[d] = tty[d]) /\ (tty[d] => tty'[d])
      /\ err = "none" => tty'[c]
  BY <1>1, <1>3 DEF TypeOK
<1>7. TypeOK'
  <2>1. calls' \in [Clients -> Seq(Call)] /\ pipe' \in [Clients -> Seq(Reply)]
    BY <1>5 DEF Answered
  <2> QED
    BY <1>2, <1>3, <1>6, <2>1 DEF TypeOK, luaVars
<1>8. Steady => err = "none"
  BY <1>1 DEF Steady, Faulty
<1>9. /\ LanesGood(calls', loop') /\ FramesGood(calls', pipe')
      /\ SendingGood(calls', sending')
      /\ CallsGood(Lanes(calls', loop'), image', attached', fate')
      /\ FateGood(image', fate') /\ ProcessesGood' /\ GiverGood' /\ CountsGood'
      /\ SteadyGood' /\ client = c
  <2>1. Answerable(c, i, err, 0, sending') /\ sending' = sending
    BY <1>2, <1>4
  <2> QED
    BY <1>1, <1>2, <1>6, <1>7, <1>8, <2>1, AnsweredKeeps
<1>10. IdsGood' /\ LeftGood'
  BY <1>2, <1>5, <1>9, RefusedKeeps DEF ForImage
<1>11. WholeGood'
  <2>1. \A d \in Clients : \A k \in 1..Len(pipe'[d]) :
          pipe'[d][k].err = err \/ \E j \in 1..Len(pipe[d]) : pipe'[d][k] = pipe[d][j]
    BY <1>2, <1>5, AnsweredWritten DEF ForImage, luaVars
  <2> QED
    BY <1>2, <1>3, <1>8, <2>1 DEF WholeGood, Steady, Faulty, Sending
<1> QED
  BY <1>7, <1>9, <1>10, <1>11 DEF IInv

(* An id is given out, that of no image.                                   *)
LEMMA BegunKeeps ==
    ASSUME IInv, NEW c \in Clients, NEW i \in 1..Len(calls[c]), BeginTransmit(c, i),
           tty[c], sending' = [sending EXCEPT ![c] = [id |-> next_id[c], call |-> calls[c][i]]],
           next_id' = [next_id EXCEPT ![c] = next_id[c] + 1],
           loading' = IF loading = "none" THEN "open" ELSE "mixed",
           UNCHANGED <<calls, pipe, unwritten>>
    PROVE  IInv'
<1> DEFINE x == calls[c][i]
           s == [id |-> next_id[c], call |-> x]
           n == next_id[c]
<1>1. /\ c \in running /\ x.sent /\ x.method = "kitty_transmit" /\ sending[c] = Nothing
      /\ UNCHANGED <<scenario, client, exited, closed, attached, attach_failed, next_lua_id,
                     image, fate, calls, pipe, loop, running, tty, screen>>
  BY DEF BeginTransmit, Pending, Unlocked, luaVars
<1>2. /\ TypeOK /\ ProcessesGood /\ GiverGood /\ CountsGood /\ IdsGood
      /\ SteadyGood /\ WholeGood /\ LeftGood
      /\ LanesGood(calls, loop) /\ FramesGood(calls, pipe) /\ SendingGood(calls, sending)
      /\ CallsGood(Lanes(calls, loop), image, attached, fate) /\ FateGood(image, fate)
  BY DEF IInv
<1>3. /\ calls \in [Clients -> Seq(Call)] /\ loop \in Seq(Entry)
      /\ n \in Nat /\ n # 0 /\ n \in 1..FirstLuaId /\ next_lua_id \in Nat
      /\ next_lua_id >= FirstLuaId
  BY <1>2, Sizes DEF TypeOK, Entry
<1>4. x \in Call /\ x \in Asked(calls, c) /\ x \in Within(Lanes(calls, loop))
  BY <1>3, AskedWithin
<1>5. x.output \in Outputs /\ ForImage(x)
  BY <1>1, <1>4, CallFields DEF ForImage
<1>6. image[x.output].status = "pending" /\ attached
  BY <1>1, <1>2, <1>4, <1>5 DEF CallsGood, CallGood
<1>7. s.id = n /\ s.call = x /\ s # Nothing
  BY <1>4, CallFields DEF Nothing
<1>8. /\ sending'[c] = s /\ \A d \in Clients : d # c => sending'[d] = sending[d]
      /\ next_id'[c] = n + 1 /\ \A d \in Clients : d # c => next_id'[d] = next_id[d]
  BY <1>2 DEF TypeOK
<1>9. running = {c} /\ client = c
  BY <1>1, <1>2 DEF ProcessesGood
<1>10. \A d \in Clients : d # c => next_id[d] = 1 /\ sending[d] = Nothing
  BY <1>1, <1>2, <1>9 DEF GiverGood, ProcessesGood
<1> HIDE DEF x, s, n
<1>11. \A q \in Outputs : MayBegin(q, image', running', calls', sending') =>
                          MayBegin(q, image, running, calls, sending)
  BY <1>1, <1>9 DEF MayBegin
<1>12. MayBegin(x.output, image, running, calls, sending)
  BY <1>1, <1>4 DEF MayBegin
<1>13. ~MayBegin(x.output, image', running', calls', sending')
  <2> SUFFICES ASSUME NEW z \in Asked(calls, c), z.output = x.output,
                      \/ z.method = "kitty_attach"
                      \/ z.method = "kitty_transmit" /\ s.call.output # x.output
               PROVE  FALSE
    BY <1>1, <1>6, <1>7, <1>8, <1>9 DEF MayBegin
  <2>1. z \in Within(Lanes(calls, loop)) /\ ForImage(z)
    BY <1>3, <1>7, AskedWithin DEF ForImage
  <2>2. AllApart(Lanes(calls, loop)) /\ Lanes(calls, loop) \in AllLanes
    BY <1>2, <1>3, LanesTyped DEF LanesGood
  <2>3. z = x
    BY <1>4, <1>5, <2>1, <2>2, OneCall
  <2> QED
    BY <1>1, <1>7, <2>3
<1>14. LET S == Spent(image, running, calls, sending)
           T == Spent(image', running', calls', sending')
       IN  /\ Cardinality(S) \in Nat /\ Cardinality(T) \in Nat
           /\ Cardinality(S) + 1 <= Cardinality(T)
           /\ Cardinality(S) < Cardinality(Outputs)
           /\ n <= 1 + Cardinality(S)
  <2> DEFINE S == Spent(image, running, calls, sending)
             T == Spent(image', running', calls', sending')
  <2>1. /\ S \subseteq T /\ T \subseteq Outputs
        /\ x.output \in T /\ x.output \notin S
    BY <1>5, <1>11, <1>12, <1>13 DEF Spent
  <2>2. n <= 1 + Cardinality(S)
    BY <1>2 DEF CountsGood, n
  <2> HIDE DEF S, T
  <2>3. /\ Cardinality(S) \in Nat /\ Cardinality(T) \in Nat
        /\ Cardinality(S) + 1 <= Cardinality(T)
        /\ Cardinality(S) < Cardinality(Outputs)
    BY <2>1, OneMore
  <2> QED
    BY <2>2, <2>3 DEF S, T
<1>15. n \in Ids /\ n < FirstLuaId
  <2>1. PICK k \in Nat : k < Cardinality(Outputs) /\ n <= 1 + k
    BY <1>14
  <2> QED
    BY <1>3, <2>1, Sizes DEF Ids
<1>16. TypeOK'
  <2>1. s \in Transmission
    BY <1>4, <1>15 DEF s, n, x, Transmission
  <2>2. sending' = [sending EXCEPT ![c] = s]
    BY DEF s, x, n
  <2>3. sending' \in [Clients -> Transmission \union {Nothing}]
    BY <1>2, <2>1, <2>2 DEF TypeOK
  <2>4. n + 1 \in 1..FirstLuaId
    BY <1>3, <1>15, Sizes
  <2>5. next_id' \in [Clients -> 1..FirstLuaId]
    BY <1>2, <2>4 DEF TypeOK, n
  <2> QED
    BY <1>1, <1>2, <2>3, <2>5 DEF TypeOK
<1>17. SendingGood(calls', sending')
  BY <1>1, <1>2, <1>4, <1>7, <1>8 DEF SendingGood
<1>18. ProcessesGood'
  <2>1. ASSUME NEW d \in Clients, d \notin running' \union exited' \union {client'} PROVE Unborn(d)'
    <3>1. Unborn(d) /\ d # c
      BY <1>1, <1>2, <2>1 DEF ProcessesGood
    <3> QED
      BY <1>1, <1>8, <3>1 DEF Unborn
  <2>2. \A d \in Clients : sending'[d] # Nothing => d \in running'
    BY <1>1, <1>2, <1>8 DEF ProcessesGood
  <2> QED
    BY <1>1, <1>2, <2>1, <2>2 DEF ProcessesGood
<1>19. GiverGood'
  <2>1. \A d \in Clients : next_id'[d] # 1 => d = c
    BY <1>8, <1>10
  <2> QED
    BY <1>1, <1>6, <1>9, <2>1 DEF GiverGood
<1>20. CountsGood'
  <2>1. ASSUME NEW d \in Clients
        PROVE  next_id'[d] <= 1 + Cardinality(Spent(image', running', calls', sending'))
    <3> HIDE DEF Spent
    <3>1. CASE d = c
      BY <1>3, <1>8, <1>14, <3>1
    <3>2. CASE d # c
      BY <1>8, <1>10, <1>14, <3>2
    <3> QED
      BY <3>1, <3>2
  <2> QED
    BY <1>1, <1>2, <2>1 DEF CountsGood, Settled
<1>21. IdsGood'
  <2>1. ~Given(n, next_lua_id, next_id)
    BY <1>3, <1>10, <1>15, Sizes DEF Given, n
  <2>2. Given(n, next_lua_id', next_id')
    BY <1>3, <1>8 DEF Given
  <2>3. \A k \in Ids : Given(k, next_lua_id, next_id) => Given(k, next_lua_id', next_id')
    <3>1. \A d \in Clients : \A k \in Ids : k < next_id[d] => k < next_id'[d]
      <4>1. \A d \in Clients : next_id[d] \in Nat
        BY <1>2, Sizes DEF TypeOK
      <4> QED
        BY <1>8, <4>1, Sizes DEF n
    <3> QED
      BY <1>1, <3>1 DEF Given
  <2>4. \A q \in Outputs, k \in Ids : Written(q, k, image', pipe') => Written(q, k, image, pipe)
    BY <1>1
  <2>5. \A q \in Outputs, k \in Ids :
          Holds(q, k, image', pipe', sending') =>
              Holds(q, k, image, pipe, sending) \/ (q = x.output /\ k = n)
    BY <1>1, <1>7, <1>8 DEF Holds
  <2> QED
    BY <1>1, <1>2, <1>5, <1>15, <2>1, <2>2, <2>3, <2>4, <2>5, IdsGiven
<1>22. SteadyGood' /\ LeftGood'
  BY <1>1, <1>2 DEF SteadyGood, LeftGood, Steady, Faulty, Releases
<1>23. WholeGood'
  <2>1. ~Sending /\ Sending'
    BY <1>1, <1>7, <1>8, <1>10 DEF Sending
  <2> QED
    BY <1>1, <1>2, <2>1 DEF WholeGood, Steady, Faulty
<1> QED
  BY <1>1, <1>2, <1>16, <1>17, <1>18, <1>19, <1>20, <1>21, <1>22, <1>23 DEF IInv

LEMMA BeginTransmitKeeps ==
    ASSUME IInv, NEW c \in Clients, NEW i \in 1..Len(calls[c]), BeginTransmit(c, i)
    PROVE  IInv'
<1>1. /\ c \in running /\ calls[c][i].sent /\ calls[c][i].method = "kitty_transmit"
      /\ sending[c] = Nothing
      /\ UNCHANGED <<scenario, luaVars, loop, running, tty, screen, unwritten>>
  BY DEF BeginTransmit, Pending, Unlocked
<1>2. CASE /\ tty[c]
           /\ sending' = [sending EXCEPT ![c] = [id |-> next_id[c], call |-> calls[c][i]]]
           /\ next_id' = [next_id EXCEPT ![c] = next_id[c] + 1]
           /\ loading' = IF loading = "none" THEN "open" ELSE "mixed"
           /\ UNCHANGED <<calls, pipe>>
  BY <1>1, <1>2, BegunKeeps
<1>3. CASE /\ ~tty[c] \/ Faulty("decode")
           /\ Answer(c, i, "error", 0)
           /\ UNCHANGED <<sending, next_id, loading>>
  <2>1. TypeOK /\ SendingGood(calls, sending) /\ SteadyGood /\ WholeGood
    BY DEF IInv
  <2>2. Answerable(c, i, "error", 0, sending)
    BY <1>1 DEF Answerable, ForImage
  <2>3. Answered(calls, loop, pipe, calls', pipe', c, i, "error", 0)
    BY <1>3, <2>1, <2>2, AnswerDoes
  <2>4. TypeOK'
    <3>1. calls' \in [Clients -> Seq(Call)] /\ pipe' \in [Clients -> Seq(Reply)]
      BY <2>3 DEF Answered
    <3> QED
      BY <1>1, <1>3, <2>1, <3>1 DEF TypeOK, luaVars
  <2>5. /\ LanesGood(calls', loop') /\ FramesGood(calls', pipe')
        /\ SendingGood(calls', sending')
        /\ CallsGood(Lanes(calls', loop'), image', attached', fate')
        /\ FateGood(image', fate') /\ ProcessesGood' /\ GiverGood' /\ CountsGood'
        /\ SteadyGood' /\ client = c
    <3>1. Answerable(c, i, "error", 0, sending') /\ sending' = sending
      BY <1>3, <2>2
    <3> QED
      BY <1>1, <1>3, <2>4, <3>1, AnsweredKeeps
  <2>6. IdsGood' /\ LeftGood'
    BY <1>1, <1>3, <2>3, <2>5, RefusedKeeps DEF ForImage
  <2>7. attached
    <3>1. calls[c][i] \in Within(Lanes(calls, loop))
      BY <2>1, AskedWithin DEF TypeOK, Entry
    <3> QED
      BY <1>1, <3>1 DEF IInv, CallsGood, CallGood
  <2>8. ~(Steady /\ ~Faulty("decode"))
    BY <1>3, <2>1, <2>5, <2>7 DEF SteadyGood
  <2>9. WholeGood'
    BY <1>1, <2>8 DEF WholeGood, Steady, Faulty
  <2> QED
    BY <2>4, <2>5, <2>6, <2>9 DEF IInv
<1> QED
  BY <1>2, <1>3 DEF BeginTransmit

(* A transmission ends, and its image is in the terminal.                  *)
LEMMA EndedKeeps ==
    ASSUME IInv, NEW c \in Clients, EndTransmit(c), NEW i \in 1..Len(calls[c]),
           calls[c][i] = sending[c].call, Answer(c, i, "none", sending[c].id),
           NEW shown,
           shown \in IF loading = "open" THEN {sending[c].call.output}
                     ELSE {sending[c].call.output, "spoiled"},
           screen' = [screen EXCEPT ![sending[c].id] = shown],
           loading' = "none", unwritten' = unwritten
    PROVE  IInv'
<1> DEFINE n == sending[c].id
           x == calls[c][i]
           o == x.output
<1>1. /\ c \in running /\ sending[c] # Nothing
      /\ sending' = [sending EXCEPT ![c] = Nothing]
      /\ UNCHANGED <<scenario, luaVars, loop, running, tty, next_id>>
  BY DEF EndTransmit, Unlocked
<1>2. UNCHANGED <<scenario, client, exited, closed, attached, attach_failed, next_lua_id,
                  image, fate, loop, running, tty, next_id>>
  BY <1>1 DEF luaVars
<1>3. TypeOK /\ SendingGood(calls, sending) /\ WholeGood /\ IdsGood /\ LeftGood /\ ProcessesGood
      /\ FateGood(image, fate)
  BY DEF IInv
<1>4. /\ sending'[c] = Nothing /\ \A d \in Clients : d # c => sending'[d] = sending[d]
      /\ sending' \in [Clients -> Transmission \union {Nothing}]
      /\ \A d \in Clients : sending'[d] = sending[d] \/ sending'[d] = Nothing
  BY <1>1, <1>3 DEF TypeOK
<1>5. /\ n \in Ids /\ n # 0 /\ x.sent /\ x.method = "kitty_transmit"
      /\ x \in Asked(calls, c) /\ x = sending[c].call
  <2>1. sending[c] \in Transmission
    BY <1>1, <1>3 DEF TypeOK
  <2> QED
    BY <1>1, <1>3, <2>1, Sizes DEF SendingGood, Transmission
<1>6. x \in Within(Lanes(calls, loop)) /\ o \in Outputs
  BY <1>3, <1>5, AskedWithin, CallFields DEF TypeOK, Entry
<1>7. image[o].status = "pending"
  BY <1>3, <1>5, <1>6 DEF IInv, CallsGood, CallGood, ForImage
<1>8. shown \in {o, "spoiled"} /\ (loading = "open" => shown = o)
  BY <1>5
<1>9. /\ screen' \in [Ids -> Outputs \union {"absent", "spoiled"}]
      /\ screen'[n] = shown /\ \A k \in Ids : k # n => screen'[k] = screen[k]
  BY <1>3, <1>5, <1>6, <1>8 DEF TypeOK
<1>10. SendingGood(calls, sending')
  BY <1>3, <1>4 DEF SendingGood
<1>11. ForImage(calls[c][i])
  BY <1>5 DEF ForImage
<1>12. Answerable(c, i, "none", n, sending')
  BY <1>1, <1>4, <1>5, <1>11 DEF Answerable
<1>13. Answered(calls, loop, pipe, calls', pipe', c, i, "none", n)
  BY <1>10, <1>12, AnswerDoes
<1>14. TypeOK'
  <2>1. calls' \in [Clients -> Seq(Call)] /\ pipe' \in [Clients -> Seq(Reply)]
    BY <1>13 DEF Answered
  <2> QED
    BY <1>2, <1>3, <1>4, <1>9, <2>1 DEF TypeOK
<1>15. /\ LanesGood(calls', loop') /\ FramesGood(calls', pipe')
       /\ SendingGood(calls', sending')
       /\ CallsGood(Lanes(calls', loop'), image', attached', fate')
       /\ FateGood(image', fate') /\ ProcessesGood' /\ GiverGood' /\ CountsGood'
       /\ SteadyGood' /\ client = c /\ running = {c}
  <2>1. calls[c][i].method # "kitty_attach" /\ tty' = tty
    BY <1>1, <1>5
  <2>2. sending[c].call = calls[c][i]
    OBVIOUS
  <2> HIDE DEF x, n
  <2> QED
    BY <1>1, <1>12, <1>14, <2>1, <2>2, AnsweredKeeps DEF n
<1>16. /\ \A q, k : Written(q, k, image, pipe) => Written(q, k, image', pipe')
       /\ \A q, k : Written(q, k, image', pipe') => Written(q, k, image, pipe) \/ (q = o /\ k = n)
       /\ Written(o, n, image', pipe')
       /\ \A z \in Asked(calls, c) : z.method = "kitty_clear" => z \in Asked(calls', c)
       /\ \A d \in Clients : \A k \in 1..Len(pipe'[d]) :
            pipe'[d][k].err = "none" \/ \E j \in 1..Len(pipe[d]) : pipe'[d][k] = pipe[d][j]
  BY <1>2, <1>11, <1>13, AnsweredWritten
<1>17. Holds(o, n, image, pipe, sending)
  BY <1>1, <1>5 DEF Holds
<1> HIDE DEF o, x, n
<1>18. IdsGood'
  <2>1. ASSUME NEW q \in Outputs, NEW k \in Ids, Holds(q, k, image', pipe', sending')
        PROVE  Holds(q, k, image, pipe, sending)
    <3>1. CASE Written(q, k, image', pipe')
      BY <1>16, <1>17, <3>1, WrittenHeld
    <3>2. CASE ~Written(q, k, image', pipe')
      BY <1>4, <2>1, <3>2 DEF Holds
    <3> QED
      BY <3>1, <3>2
  <2>2. ASSUME NEW q \in Outputs, NEW k \in Ids, Written(q, k, image', pipe')
        PROVE  screen'[k] \in {q, "spoiled"} \/ (image'[q].image_id = k /\ fate'[q] # Held)
    <3>1. CASE k = n
      <4>1. Holds(q, n, image, pipe, sending)
        BY <2>1, <2>2, <3>1, WrittenHeld
      <4>2. q = o
        BY <1>3, <1>5, <1>6, <1>17, <4>1 DEF IdsGood
      <4> QED
        BY <1>8, <1>9, <3>1, <4>2
    <3>2. CASE k # n
      BY <1>2, <1>3, <1>9, <1>16, <2>2, <3>2 DEF IdsGood
    <3> QED
      BY <3>1, <3>2
  <2> QED
    BY <1>2, <1>3, <2>1, <2>2 DEF IdsGood
<1>19. WholeGood'
  <2>1. Sending /\ ~Sending'
    BY <1>1, <1>3, <1>4, <1>15 DEF Sending, ProcessesGood
  <2>2. Steady' = Steady /\ Faulty("decode")' = Faulty("decode")
        /\ Faulty("write")' = Faulty("write")
    BY <1>2 DEF Steady, Faulty
  <2> SUFFICES ASSUME Steady, ~Faulty("decode"), ~Faulty("write")
               PROVE  /\ \A d \in Clients : \A k \in 1..Len(pipe'[d]) : pipe'[d][k].err = "none"
                      /\ loading' = "none"
                      /\ \A k \in Ids : screen'[k] # "spoiled"
    BY <2>1, <2>2 DEF WholeGood
  <2>3. loading = "open" /\ \A k \in Ids : screen[k] # "spoiled"
    BY <1>3, <2>1 DEF WholeGood
  <2>4. shown # "spoiled"
    <3>1. shown = o
      BY <1>8, <2>3
    <3> QED
      BY <1>6, <3>1, ImagesAssumption
  <2>5. \A k \in Ids : screen'[k] # "spoiled"
    BY <1>9, <2>3, <2>4
  <2>6. \A d \in Clients : \A k \in 1..Len(pipe'[d]) : pipe'[d][k].err = "none"
    BY <1>3, <1>16 DEF WholeGood
  <2> QED
    BY <2>5, <2>6
<1>20. LeftGood'
  <2> SUFFICES ASSUME Steady, ~Faulty("unsupported")
               PROVE  /\ \A k \in Ids \ unwritten' : screen'[k] # "absent" =>
                            \E q \in Outputs : Written(q, k, image', pipe')
                      /\ \A q \in Outputs : fate[q].status = "ready" /\ Releases(q, fate[q].way) =>
                            \/ screen'[image[q].image_id] = "absent" \/ image[q].image_id \in unwritten'
                            \/ \E z \in Asked(calls', client) :
                                z.method = "kitty_clear" /\ z.output = q
    BY <1>2, <1>3 DEF LeftGood, Steady, Faulty, Releases
  <2>1. \A k \in Ids \ unwritten' : screen'[k] # "absent" => \E q \in Outputs : Written(q, k, image', pipe')
    <3> SUFFICES ASSUME NEW k \in Ids \ unwritten', screen'[k] # "absent"
                 PROVE  \E q \in Outputs : Written(q, k, image', pipe')
      OBVIOUS
    <3>1. CASE k = n
      BY <1>6, <1>16, <3>1
    <3>2. CASE k # n
      BY <1>3, <1>9, <1>16, <3>2 DEF LeftGood
    <3> QED
      BY <3>1, <3>2
  <2>2. ASSUME NEW q \in Outputs, fate[q].status = "ready", Releases(q, fate[q].way)
        PROVE  \/ screen'[image[q].image_id] = "absent" \/ image[q].image_id \in unwritten'
               \/ \E z \in Asked(calls', client) : z.method = "kitty_clear" /\ z.output = q
    <3>1. image[q].status = "ready" /\ image[q].image_id \in Ids
      BY <1>3, <2>2 DEF FateGood, TypeOK
    <3>2. image[q].image_id # n
      <4>1. Holds(q, image[q].image_id, image, pipe, sending)
        BY WrittenHeld, ImageWritten
      <4> QED
        BY <1>3, <1>6, <1>7, <1>17, <3>1, <4>1 DEF IdsGood
    <3> QED
      BY <1>3, <1>9, <1>15, <1>16, <2>2, <3>1, <3>2 DEF LeftGood
  <2> QED
    BY <2>1, <2>2
<1> QED
  BY <1>14, <1>15, <1>18, <1>19, <1>20 DEF IInv

(* A transmission fails, and its image is of no output.                    *)
LEMMA TransmitFails ==
    ASSUME IInv, NEW c \in Clients, EndTransmit(c), NEW i \in 1..Len(calls[c]),
           calls[c][i] = sending[c].call, Answer(c, i, "error", 0), Faulty("write"),
           Complete(sending[c]) \/ UNCHANGED <<screen, loading>>,
           unwritten' = unwritten \union {sending[c].id}
    PROVE  IInv'
<1> DEFINE n == sending[c].id
           x == calls[c][i]
           o == x.output
<1>1. /\ c \in running /\ sending[c] # Nothing
      /\ sending' = [sending EXCEPT ![c] = Nothing]
      /\ UNCHANGED <<scenario, luaVars, loop, running, tty, next_id>>
  BY DEF EndTransmit, Unlocked
<1>2. /\ TypeOK /\ SendingGood(calls, sending) /\ IdsGood /\ FramesGood(calls, pipe)
      /\ LanesGood(calls, loop) /\ CallsGood(Lanes(calls, loop), image, attached, fate)
  BY DEF IInv
<1>3. /\ sending'[c] = Nothing
      /\ sending' \in [Clients -> Transmission \union {Nothing}]
      /\ \A d \in Clients : sending'[d] = sending[d] \/ sending'[d] = Nothing
  BY <1>1, <1>2 DEF TypeOK
<1>4. SendingGood(calls, sending')
  BY <1>2, <1>3 DEF SendingGood
<1>5. n \in Ids /\ n # 0 /\ x.sent /\ x.method = "kitty_transmit" /\ x \in Asked(calls, c)
  <2>1. sending[c] \in Transmission
    BY <1>1, <1>2 DEF TypeOK
  <2> QED
    BY <1>1, <1>2, <2>1, Sizes DEF SendingGood, Transmission
<1>6. /\ calls \in [Clients -> Seq(Call)] /\ loop \in Seq(Entry)
      /\ x \in Within(Lanes(calls, loop)) /\ o \in Outputs /\ ForImage(x)
  BY <1>2, <1>5, AskedWithin, CallFields DEF TypeOK, Entry, ForImage
<1>7. image[o].status = "pending" /\ image[o].image_id = 0
  BY <1>2, <1>6 DEF CallsGood, CallGood, TypeOK
<1>8. /\ screen' \in [Ids -> Outputs \union {"absent", "spoiled"}]
      /\ \A k \in Ids : k # n => screen'[k] = screen[k]
      /\ loading' \in {"none", "open", "mixed"}
  BY <1>2, <1>5, <1>6 DEF TypeOK, Complete
<1>9. Answerable(c, i, "error", 0, sending')
  BY <1>1, <1>3, <1>5 DEF Answerable, ForImage
<1>10. Answered(calls, loop, pipe, calls', pipe', c, i, "error", 0)
  BY <1>4, <1>9, AnswerDoes
<1>11. TypeOK'
  <2>1. calls' \in [Clients -> Seq(Call)] /\ pipe' \in [Clients -> Seq(Reply)]
    BY <1>10 DEF Answered
  <2>2. unwritten' \subseteq Ids
    BY <1>2, <1>5 DEF TypeOK
  <2> QED
    BY <1>1, <1>2, <1>3, <1>8, <2>1, <2>2 DEF TypeOK, luaVars
<1>12. /\ LanesGood(calls', loop') /\ FramesGood(calls', pipe')
       /\ SendingGood(calls', sending')
       /\ CallsGood(Lanes(calls', loop'), image', attached', fate')
       /\ FateGood(image', fate') /\ ProcessesGood' /\ GiverGood' /\ CountsGood'
       /\ SteadyGood' /\ client = c
  <2>1. calls[c][i].method # "kitty_attach" /\ tty' = tty
    BY <1>1, <1>5
  <2> HIDE DEF x, n
  <2> QED
    BY <1>1, <1>9, <1>11, <2>1, AnsweredKeeps
<1>13. ASSUME NEW q \in Outputs, Written(q, n, image, pipe) PROVE FALSE
  <2>1. Holds(q, n, image, pipe, sending) /\ Holds(o, n, image, pipe, sending)
    BY <1>1, <1>5, <1>13, WrittenHeld DEF Holds
  <2>2. q = o
    BY <1>2, <1>5, <1>6, <2>1 DEF IdsGood
  <2>3. PICK d \in Clients : \E k \in 1..Len(pipe[d]) : pipe[d][k].call.output = o
    BY <1>5, <1>7, <1>13, <2>2 DEF Written
  <2>4. PICK k \in 1..Len(pipe[d]) : pipe[d][k].call.output = o
    BY <2>3
  <2> DEFINE y == pipe[d][k].call
  <2>5. y \in Asked(calls, d) /\ ForImage(y) /\ ~y.sent /\ y.output = o
    BY <1>2, <2>4 DEF FramesGood, FrameGood
  <2>6. y \in Within(Lanes(calls, loop))
    BY <1>6, <2>5, AskedWithin
  <2> HIDE DEF x, y
  <2>7. y = x
    BY <1>2, <1>6, <2>5, <2>6, OneCall, LanesTyped DEF LanesGood, o
  <2> QED
    BY <1>5, <2>5, <2>7
<1>14. IdsGood' /\ LeftGood'
  <2>1. \A k \in Ids : \/ screen'[k] = screen[k]
                       \/ k \in unwritten' /\ \A q \in Outputs : ~Written(q, k, image, pipe)
    BY <1>8, <1>13
  <2> QED
    BY <1>1, <1>3, <1>6, <1>10, <1>12, <2>1, RefusedKeeps
<1>15. WholeGood'
  BY <1>1 DEF WholeGood, Faulty
<1> QED
  BY <1>11, <1>12, <1>14, <1>15 DEF IInv

LEMMA EndTransmitKeeps ==
    ASSUME IInv, NEW c \in Clients, EndTransmit(c)
    PROVE  IInv'
<1>1. PICK i \in 1..Len(calls[c]) :
        /\ calls[c][i] = sending[c].call
        /\ \/ Answer(c, i, "none", sending[c].id) /\ Complete(sending[c]) /\ unwritten' = unwritten
           \/ /\ Faulty("write") /\ Answer(c, i, "error", 0)
              /\ Complete(sending[c]) \/ UNCHANGED <<screen, loading>>
              /\ unwritten' = unwritten \union {sending[c].id}
  BY DEF EndTransmit
<1>2. CASE Answer(c, i, "none", sending[c].id) /\ Complete(sending[c]) /\ unwritten' = unwritten
  <2>1. PICK shown \in IF loading = "open" THEN {sending[c].call.output}
                       ELSE {sending[c].call.output, "spoiled"} :
            screen' = [screen EXCEPT ![sending[c].id] = shown]
    BY <1>2 DEF Complete
  <2>2. loading' = "none"
    BY <1>2 DEF Complete
  <2> QED
    BY <1>1, <1>2, <2>1, <2>2, EndedKeeps
<1>3. CASE /\ Faulty("write") /\ Answer(c, i, "error", 0)
           /\ Complete(sending[c]) \/ UNCHANGED <<screen, loading>>
           /\ unwritten' = unwritten \union {sending[c].id}
  BY <1>1, <1>3, TransmitFails
<1> QED
  BY <1>1, <1>2, <1>3

LEMMA ClearKeeps ==
    ASSUME IInv, NEW c \in Clients, NEW i \in 1..Len(calls[c]), Clear(c, i)
    PROVE  IInv'
<1> DEFINE x == calls[c][i]
           ds == [calls EXCEPT ![c] = Without(calls[c], i)]
           n == image[x.output].image_id
<1>1. /\ c \in running /\ x.method = "kitty_clear"
      /\ \/ /\ screen' = IF tty[c] THEN [screen EXCEPT ![n] = "absent"] ELSE screen
            /\ unwritten' = unwritten
         \/ tty[c] /\ screen' = screen /\ unwritten' = unwritten \union {n}
      /\ calls' = ds
      /\ UNCHANGED <<scenario, client, exited, closed, attached, attach_failed, next_lua_id,
                     image, fate, pipe, loop, running, tty, next_id, sending, loading>>
  BY DEF Clear, Pending, luaVars, serverVars
<1>2. /\ TypeOK /\ ProcessesGood /\ GiverGood /\ CountsGood /\ IdsGood
      /\ SteadyGood /\ WholeGood /\ LeftGood
      /\ LanesGood(calls, loop) /\ FramesGood(calls, pipe) /\ SendingGood(calls, sending)
      /\ CallsGood(Lanes(calls, loop), image, attached, fate) /\ FateGood(image, fate)
  BY DEF IInv
<1>3. calls \in [Clients -> Seq(Call)] /\ loop \in Seq(Entry) /\ running \subseteq Clients
  BY <1>2 DEF TypeOK, Entry
<1>4. /\ ds \in [Clients -> Seq(Call)] /\ LanesGood(ds, loop)
      /\ Within(Lanes(ds, loop)) \subseteq Within(Lanes(calls, loop))
      /\ \A d \in Clients :
            /\ Asked(ds, d) \subseteq Asked(calls, d)
            /\ \A z \in Asked(calls, d) : z = x \/ z \in Asked(ds, d)
  BY <1>2, <1>3, RemovalKeeps
<1>5. \A d \in Clients : d # c => ds[d] = calls[d]
  BY <1>3
<1> HIDE DEF ds
<1>6. x \in Call /\ x \in Within(Lanes(calls, loop)) /\ x.output \in Outputs
  BY <1>3, AskedWithin, CallFields
<1>7. fate[x.output].status = "ready" /\ fate[x.output] # Held
  BY <1>1, <1>2, <1>6 DEF CallsGood, CallGood, Held
<1>8. image[x.output].status = "ready" /\ n \in Ids
  BY <1>2, <1>6, <1>7 DEF FateGood, TypeOK
<1>9. running = {c} /\ client = c
  BY <1>1, <1>2 DEF ProcessesGood
<1>10. image[x.output].image_id = n
  OBVIOUS
<1> HIDE DEF x, n
<1>11. /\ screen' \in [Ids -> Outputs \union {"absent", "spoiled"}]
       /\ \A k \in Ids : screen'[k] = screen[k] \/ (screen'[k] = "absent" /\ k = n)
       /\ tty[c] => screen'[n] = "absent" \/ n \in unwritten'
       /\ unwritten \subseteq unwritten' /\ unwritten' \subseteq Ids
  BY <1>1, <1>2, <1>8 DEF TypeOK
<1>12. TypeOK'
  BY <1>1, <1>2, <1>4, <1>11 DEF TypeOK
<1>13. FramesGood(calls', pipe') /\ SendingGood(calls', sending')
  <2>1. \A d \in Clients : \A z \in Asked(calls, d) : z.method # "kitty_clear" => z \in Asked(ds, d)
    BY <1>1, <1>4
  <2>2. FramesGood(ds, pipe)
    BY <1>2, <2>1 DEF FramesGood, FrameGood, ForImage
  <2>3. SendingGood(ds, sending)
    BY <1>2, <2>1 DEF SendingGood
  <2> QED
    BY <1>1, <2>2, <2>3
<1>14. CallsGood(Lanes(calls', loop'), image', attached', fate')
  BY <1>1, <1>2, <1>4 DEF CallsGood
<1>15. ProcessesGood'
  <2>1. ASSUME NEW d \in Clients, d \notin running' \union exited' \union {client'} PROVE Unborn(d)'
    <3>1. Unborn(d) /\ d # c
      BY <1>1, <1>2, <2>1 DEF ProcessesGood
    <3> QED
      BY <1>1, <1>5, <3>1 DEF Unborn
  <2> QED
    BY <1>1, <1>2, <2>1 DEF ProcessesGood
<1>16. GiverGood'
  BY <1>1, <1>2, <1>3, <1>4 DEF GiverGood
<1>17. CountsGood'
  <2>1. \A q \in Outputs : MayBegin(q, image', running', calls', sending') =>
                           MayBegin(q, image, running, calls, sending)
    BY <1>1, <1>3, <1>4 DEF MayBegin
  <2> QED
    BY <1>1, <1>2, <1>12, <2>1, CountsKept
<1>18. IdsGood'
  <2>1. \A k \in Ids : \/ screen'[k] = screen[k]
                       \/ \E q \in Outputs : image[q].image_id = k /\ fate[q] # Held
    BY <1>6, <1>7, <1>10, <1>11
  <2> QED
    BY <1>1, <1>2, <2>1, IdsKept
<1>19. SteadyGood' /\ WholeGood'
  <2>1. \A k \in Ids : screen'[k] # "spoiled" \/ screen'[k] = screen[k]
    BY <1>11
  <2> QED
    BY <1>1, <1>2, <2>1 DEF SteadyGood, WholeGood, Steady, Faulty, Sending
<1>20. LeftGood'
  <2> SUFFICES ASSUME Steady, ~Faulty("unsupported")
               PROVE  /\ \A k \in Ids \ unwritten' : screen'[k] # "absent" =>
                            \E q \in Outputs : Written(q, k, image, pipe)
                      /\ \A q \in Outputs : fate[q].status = "ready" /\ Releases(q, fate[q].way) =>
                            \/ screen'[image[q].image_id] = "absent" \/ image[q].image_id \in unwritten'
                            \/ \E z \in Asked(calls', client) :
                                z.method = "kitty_clear" /\ z.output = q
    BY <1>1, <1>2 DEF LeftGood, Steady, Faulty, Releases
  <2>1. \A k \in Ids \ unwritten' : screen'[k] # "absent" => \E q \in Outputs : Written(q, k, image, pipe)
    BY <1>2, <1>11 DEF LeftGood
  <2>2. ASSUME NEW q \in Outputs, fate[q].status = "ready", Releases(q, fate[q].way)
        PROVE  \/ screen'[image[q].image_id] = "absent" \/ image[q].image_id \in unwritten'
               \/ \E z \in Asked(calls', client) : z.method = "kitty_clear" /\ z.output = q
    <3>1. image[q].status = "ready" /\ image[q].image_id \in Ids
      BY <1>2, <2>2 DEF FateGood, TypeOK
    <3>2. tty[c]
      BY <1>2, <1>9, <3>1 DEF SteadyGood, LeftGood
    <3>3. CASE screen[image[q].image_id] = "absent"
      BY <1>11, <3>1, <3>3
    <3>5. CASE image[q].image_id \in unwritten
      BY <1>11, <3>5
    <3>4. ASSUME NEW z \in Asked(calls, client), z.method = "kitty_clear", z.output = q
          PROVE  \/ screen'[image[q].image_id] = "absent" \/ image[q].image_id \in unwritten'
                 \/ \E y \in Asked(calls', client) : y.method = "kitty_clear" /\ y.output = q
      <4>1. CASE z = x
        BY <1>10, <1>11, <3>2, <3>4, <4>1
      <4>2. CASE z \in Asked(ds, client)
        BY <1>1, <3>4, <4>2
      <4> QED
        BY <1>4, <1>9, <4>1, <4>2
    <3> QED
      BY <1>2, <2>2, <3>3, <3>4, <3>5 DEF LeftGood
  <2> QED
    BY <2>1, <2>2
<1> QED
  BY <1>1, <1>2, <1>4, <1>12, <1>13, <1>14, <1>15, <1>16, <1>17, <1>18, <1>19, <1>20 DEF IInv

-----------------------------------------------------------------------------
(* The invariant holds.                                                    *)

LEMMA InitHolds ==
    ASSUME Init
    PROVE  IInv
<1> DEFINE none == [c \in Clients |-> <<>>]
           quiet == [c \in Clients |-> Nothing]
<1>1. calls = none /\ pipe = none /\ sending = quiet /\ loop = <<>>
  BY DEF Init
<1>2. /\ none \in [Clients -> Seq(Call)] /\ none \in [Clients -> Seq(Reply)]
      /\ \A c \in Clients : none[c] = <<>> /\ quiet[c] = Nothing
      /\ quiet \in [Clients -> Transmission \union {Nothing}]
      /\ loop \in Seq(Entry)
  BY <1>1
<1> HIDE DEF none, quiet
<1>3. \A c \in Clients : /\ calls[c] = <<>> /\ pipe[c] = <<>> /\ sending[c] = Nothing
                         /\ Asked(calls, c) = {} /\ Len(pipe[c]) = 0
  <2>1. \A c \in Clients : calls[c] = <<>> /\ pipe[c] = <<>> /\ sending[c] = Nothing
    BY <1>1, <1>2
  <2> QED
    BY <2>1 DEF Asked
<1>4. /\ calls \in [Clients -> Seq(Call)] /\ pipe \in [Clients -> Seq(Reply)]
      /\ sending \in [Clients -> Transmission \union {Nothing}]
  BY <1>1, <1>2
<1>5. \A c \in 0..MaxClients : Lanes(calls, loop)[c] = <<>>
  <2>1. Len(loop) = 0 /\ Len(Callbacks(loop)) = Len(loop) /\ Callbacks(loop) \in Seq(Item)
    BY <1>1, <1>2, CallbacksTyped
  <2>2. Callbacks(loop) = <<>>
    BY <2>1
  <2> QED
    BY <1>2, <1>3, <1>4, <2>2, LanesTyped, ClientNumbers
<1>6. Within(Lanes(calls, loop)) = {} /\ AllApart(Lanes(calls, loop))
  <2>1. \A c \in 0..MaxClients : Len(Lanes(calls, loop)[c]) = 0
    BY <1>5
  <2> HIDE DEF Lanes
  <2> QED
    BY <2>1 DEF Within, AllApart
<1>7. TypeOK
  <2>1. /\ image = [o \in Outputs |-> [status |-> "none", image_id |-> 0]]
        /\ fate = [o \in Outputs |-> Held] /\ tty = [c \in Clients |-> FALSE]
        /\ next_id = [c \in Clients |-> 1] /\ screen = [i \in Ids |-> "absent"]
    BY DEF Init
  <2>2. /\ image \in [Outputs -> [status : Statuses, image_id : Ids \union {0}]]
        /\ \A o \in Outputs : image[o].status = "ready" <=> image[o].image_id # 0
        /\ fate \in [Outputs -> [way : AllWays \union {"held"}, status : Statuses]]
    BY <2>1 DEF Statuses, Held
  <2>3. 1 \in 1..FirstLuaId
    BY Sizes
  <2>4. /\ tty \in [Clients -> BOOLEAN] /\ next_id \in [Clients -> 1..FirstLuaId]
        /\ screen \in [Ids -> Outputs \union {"absent", "spoiled"}]
    BY <2>1, <2>3
  <2>5. FirstLuaId \in FirstLuaId..(FirstLuaId + Cardinality(Outputs))
    BY Sizes
  <2>6. loop \in Seq(Reply \union OnExit)
    BY <1>1
  <2> QED
    BY <1>4, <2>2, <2>4, <2>5, <2>6, ClientNumbers DEF Init, TypeOK
<1>8. LanesGood(calls, loop) /\ FramesGood(calls, pipe) /\ SendingGood(calls, sending)
  BY <1>1, <1>3, <1>6 DEF LanesGood, FramesGood, SendingGood
<1>9. CallsGood(Lanes(calls, loop), image, attached, fate) /\ FateGood(image, fate)
  BY <1>6 DEF CallsGood, FateGood, Init, Held
<1>10. ProcessesGood
  BY <1>1, <1>3 DEF ProcessesGood, Init, Unborn
<1>11. GiverGood
  BY DEF GiverGood, Init
<1>12. CountsGood
  <2>1. Cardinality(Spent(image, running, calls, sending)) \in Nat
    BY NoFewer DEF Spent
  <2>2. Cardinality(Settled(image)) \in Nat
    BY NoFewer DEF Settled
  <2>3. next_lua_id = FirstLuaId /\ \A c \in Clients : next_id[c] = 1
    BY DEF Init
  <2> HIDE DEF Spent, Settled
  <2> QED
    BY <2>1, <2>2, <2>3, Sizes DEF CountsGood
<1>13. \A o \in Outputs, i \in Ids : ~Holds(o, i, image, pipe, sending)
  BY <1>3, Sizes DEF Holds, Written, Init
<1>14. IdsGood
  BY <1>13, WrittenHeld DEF IdsGood
<1>15. SteadyGood /\ WholeGood
  BY <1>1, <1>3 DEF SteadyGood, WholeGood, Sending, Init
<1>16. LeftGood
  BY DEF LeftGood, Init, Held
<1> QED
  BY <1>7, <1>8, <1>9, <1>10, <1>11, <1>12, <1>14, <1>15, <1>16 DEF IInv

LEMMA StutterKeeps ==
    ASSUME IInv, UNCHANGED vars
    PROVE  IInv'
<1>1. UNCHANGED <<scenario, client, exited, closed, attached, attach_failed, next_lua_id,
                  image, fate, calls, pipe, loop, running, tty, next_id, sending, screen,
                  loading, unwritten>>
  BY DEF vars, luaVars, wireVars, serverVars, terminalVars
<1>2. /\ TypeOK' /\ ProcessesGood' /\ GiverGood' /\ CountsGood' /\ IdsGood'
  BY <1>1 DEF IInv, TypeOK, ProcessesGood, GiverGood, CountsGood, IdsGood, Unborn
<1>3. SteadyGood' /\ WholeGood' /\ LeftGood'
  BY <1>1 DEF IInv, SteadyGood, WholeGood, LeftGood, Steady, Faulty, Sending, Releases
<1> QED
  BY <1>1, <1>2, <1>3 DEF IInv

LEMMA NextKeeps ==
    ASSUME IInv, [Next]_vars
    PROVE  IInv'
<1>1. CASE RunCallback
  BY <1>1, RunCallbackKeeps
<1>2. CASE \E c \in Clients : ReadReply(c) \/ ExitCallback(c) \/ CloseClient(c)
  BY <1>2, ReadReplyKeeps, ExitCallbackKeeps, CloseClientKeeps
<1>3. CASE \E c \in Clients : \E i \in 1..Len(calls[c]) :
            Attach(c, i) \/ BeginTransmit(c, i) \/ Clear(c, i)
  BY <1>3, AttachKeeps, BeginTransmitKeeps, ClearKeeps
<1>4. CASE \E c \in Clients : EndTransmit(c) \/ Spawn(c) \/ Exit(c)
  BY <1>4, EndTransmitKeeps, SpawnKeeps, ExitKeeps
<1>5. CASE \E o \in Outputs : Display(o) \/ \E way \in AllWays : Drop(o, way)
  BY <1>5, DisplayKeeps, DropKeeps
<1>6. CASE UNCHANGED vars
  BY <1>6, StutterKeeps
<1> QED
  BY <1>1, <1>2, <1>3, <1>4, <1>5, <1>6 DEF Next, Lua, Server, User, Finished

LEMMA Always == Spec => []IInv
<1>1. Init => IInv
  BY InitHolds
<1>2. IInv /\ [Next]_vars => IInv'
  BY NextKeeps
<1> QED
  BY <1>1, <1>2, PTL DEF Spec

-----------------------------------------------------------------------------
(* The theorems.                                                           *)

(* The types: a ready image is one with an id, and the ids of a backend    *)
(* stay below those that the plugin gives out itself.                      *)
THEOREM ImagesTyped == Spec => []TypeOK
<1>1. IInv => TypeOK
  BY DEF IInv
<1> QED
  BY <1>1, Always, PTL

LEMMA OwnFollows ==
    ASSUME IInv
    PROVE  ImagesOwn
<1> SUFFICES ASSUME NEW o \in Outputs, image[o].status = "ready", fate[o] = Held
             PROVE  /\ screen[image[o].image_id] \in {o, "spoiled"}
                    /\ scenario.faults \intersect {"tty", "decode", "write", "exit"} = {} =>
                        screen[image[o].image_id] = o
                    /\ \A p \in Outputs \ {o} : image[p].image_id # image[o].image_id
  BY DEF ImagesOwn
<1> DEFINE i == image[o].image_id
<1>1. IdsGood /\ WholeGood /\ TypeOK
  BY DEF IInv
<1>2. i \in Ids
  BY <1>1 DEF TypeOK
<1>3. Written(o, i, image, pipe) /\ Holds(o, i, image, pipe, sending)
  BY ImageWritten, WrittenHeld
<1>4. screen[i] \in {o, "spoiled"}
  BY <1>1, <1>2, <1>3 DEF IdsGood
<1>5. scenario.faults \intersect {"tty", "decode", "write", "exit"} = {} => screen[i] # "spoiled"
  BY <1>1, <1>2 DEF WholeGood, Steady, Faulty
<1>6. ASSUME NEW p \in Outputs \ {o}, image[p].image_id = i PROVE FALSE
  <2>1. Holds(p, i, image, pipe, sending)
    BY <1>6, ImageWritten, WrittenHeld
  <2> QED
    BY <1>1, <1>2, <1>3, <1>6, <2>1 DEF IdsGood
<1> QED
  BY <1>4, <1>5, <1>6

(* An output that is shown has an image of its own, whichever process gave *)
(* out the id and whatever failed, and the terminal holds it; whole, while *)
(* no request fails and no backend exits.                                  *)
THEOREM OutputsOwnTheirImages == Spec => []ImagesOwn
<1>1. IInv => ImagesOwn
  BY OwnFollows
<1> QED
  BY <1>1, Always, PTL

LEMMA NoneLeftFollows ==
    ASSUME IInv
    PROVE  NoneLeftBehind
<1> SUFFICES ASSUME Quiet, scenario.faults \intersect {"unsupported", "tty", "exit"} = {},
                    NEW i \in Ids \ unwritten, screen[i] # "absent"
             PROVE  \E o \in Outputs :
                        /\ image[o].image_id = i
                        /\ fate[o].status = "ready" =>
                            /\ fate[o].way \notin {"delete", "clear"}
                            /\ o \in FileOutputs => fate[o].way \notin {"rerun", "close"}
  BY DEF NoneLeftBehind
<1>1. Steady /\ ~Faulty("unsupported")
  BY DEF Steady, Faulty
<1>2. LeftGood /\ FramesGood(calls, pipe) /\ TypeOK /\ SteadyGood /\ FateGood(image, fate)
  BY DEF IInv
<1>3. \A c \in Clients : Asked(calls, c) = {}
  BY DEF Quiet, Asked
<1>4. \A c \in Clients : \A k \in 1..Len(pipe[c]) : FALSE
  BY <1>2, <1>3 DEF FramesGood, FrameGood
<1>5. PICK o \in Outputs : Written(o, i, image, pipe)
  BY <1>1, <1>2 DEF LeftGood
<1>6. image[o].image_id = i
  BY <1>4, <1>5 DEF Written
<1>7. ASSUME fate[o].status = "ready", Releases(o, fate[o].way) PROVE FALSE
  <2>1. attached /\ client \in Clients
    BY <1>1, <1>2, <1>7 DEF FateGood, LeftGood, SteadyGood, TypeOK
  <2> QED
    BY <1>1, <1>2, <1>3, <1>6, <1>7, <2>1 DEF LeftGood
<1> QED
  BY <1>6, <1>7 DEF Releases

(* While a backend that attached lives on, an image in the terminal is     *)
(* that of an output, and those of the outputs released are deleted, once  *)
(* no request is in flight: no reply that comes late, and no order of      *)
(* displaying and dropping leaves one behind, save one that a write to the *)
(* terminal failed for.                                                    *)
THEOREM NothingLeftBehind == Spec => []NoneLeftBehind
<1>1. IInv => NoneLeftBehind
  BY NoneLeftFollows
<1> QED
  BY <1>1, Always, PTL

=============================================================================
