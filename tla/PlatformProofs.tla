--------------------------- MODULE PlatformProofs ----------------------------
(***************************************************************************)
(* Two parts of the server that share no state: the order of plain and     *)
(* sealed frames on a connection (Socket), for any queue, any number of    *)
(* pings and broadcasts; and the world of a room (World), for any grid,    *)
(* any number of players and pets and any commands.                        *)
(***************************************************************************)
EXTENDS Socket, World, FiniteSetTheorems, SequenceTheorems, WellFoundedInduction, TLAPS

\* The steps that have nothing to do with the negotiation.
Plain ==
    ({"transition"} \X {"securing", "error"})
    \union ({"send", "enqueue", "flush"} \X {"params", "data", "ping", "bye", "close"})
    \union ({"dispose", "shut", "wait", "secure", "end", "authenticate"} \X {"", "run"})

\* What the reader has to do while it negotiates.
Beginning == <<<<"begin", "">>, <<"send", "params">>>>
Preparing ==
    <<<<"prepare", "">>, <<"send", "complete">>, <<"enqueue", "activate">>, <<"completed", "">>>>
Completing == <<<<"send", "complete">>, <<"enqueue", "activate">>, <<"completed", "">>>>
Queueing == <<<<"enqueue", "complete">>, <<"enqueue", "activate">>, <<"completed", "">>>>
Activating == <<<<"enqueue", "activate">>, <<"completed", "">>>>
Completed == <<<<"completed", "">>>>
Negotiation == {Beginning, Preparing, Completing, Queueing, Activating, Completed}

Items == {"params", "data", "ping", "bye", "close", "complete", "activate"}

SocketTypes ==
    /\ todo \in [Senders -> Seq(Plain) \union Negotiation]
    /\ todo["heart"] \in Seq(Plain) /\ todo["other"] \in Seq(Plain)
    /\ queue \in Seq(Items)
    /\ wire \in Seq(Items \X BOOLEAN)
    /\ channel \in {"none", "negotiating", "prepared", "ready", "failed"}
    /\ finished \in BOOLEAN

\* The channel forgets its keys after a wait.
Waits(steps) ==
    \A j \in 1 .. Len(steps) :
        steps[j][1] = "secure" => \E i \in 1 .. j - 1 : steps[i][1] = "wait"
WaitsFirst == finished \/ \A p \in Senders : Waits(todo[p])

\* Where the completion and the activation may be, by the state of the channel.
InQueue(item) == \E i \in 1 .. Len(queue) : queue[i] = item
Phases ==
    /\ todo["reader"] = Beginning => channel = "none"
    /\ channel \in {"none", "negotiating"} =>
          ~InQueue("activate") /\ todo["reader"] \notin {Completing, Queueing, Activating}
    /\ channel = "ready" => ~InQueue("complete") /\ todo["reader"] \notin {Completing, Queueing}
    /\ todo["reader"] \in {Completing, Queueing} => ~InQueue("activate")
CompletedFirst ==
    \A i, j \in 1 .. Len(queue) : queue[i] = "activate" /\ queue[j] = "complete" => j < i

\* As long as frames are written, one that was sealed leaves the channel ready.
StaysReady == finished \/ \A n \in 1 .. Len(wire) : wire[n][2] => channel = "ready"

SealInv ==
    SocketTypes /\ WaitsFirst /\ Phases /\ CompletedFirst /\ StaysReady /\ SealedInOrder

-----------------------------------------------------------------------------
(***************************************************************************)
(* The steps goroutines have to do.                                        *)
(***************************************************************************)
\* Short sequences.
LEMMA One ==
    ASSUME NEW S, NEW x \in S
    PROVE  <<x>> \in Seq(S) /\ Len(<<x>>) = 1 /\ <<x>>[1] = x
  OBVIOUS

\* Of two,
LEMMA Two ==
    ASSUME NEW S, NEW x \in S, NEW y \in S
    PROVE  <<x, y>> \in Seq(S) /\ Len(<<x, y>>) = 2 /\ <<x, y>>[1] = x /\ <<x, y>>[2] = y
  OBVIOUS

\* and of three.
LEMMA Three ==
    ASSUME NEW S, NEW x \in S, NEW y \in S, NEW z \in S
    PROVE  /\ <<x, y, z>> \in Seq(S) /\ Len(<<x, y, z>>) = 3
           /\ <<x, y, z>>[1] = x /\ <<x, y, z>>[2] = y /\ <<x, y, z>>[3] = z
  OBVIOUS

\* What remains of a short sequence.
LEMMA Remaining ==
    /\ \A x : Head(<<x>>) = x /\ Tail(<<x>>) = <<>> /\ <<x>> # <<>>
    /\ \A x, y : Head(<<x, y>>) = x /\ Tail(<<x, y>>) = <<y>> /\ <<x, y>> # <<>>
    /\ \A x, y, z : Head(<<x, y, z>>) = x /\ Tail(<<x, y, z>>) = <<y, z>> /\ <<x, y, z>> # <<>>
    /\ \A x, y, z, u : /\ Head(<<x, y, z, u>>) = x /\ Tail(<<x, y, z, u>>) = <<y, z, u>>
                       /\ <<x, y, z, u>> # <<>>
  OBVIOUS

\* How the steps of the negotiation begin.
LEMMA NegotiationBegins ==
    /\ Head(Beginning) = <<"begin", "">> /\ Tail(Beginning) = <<<<"send", "params">>>>
    /\ Head(Preparing) = <<"prepare", "">> /\ Tail(Preparing) = Completing
    /\ Head(Completing) = <<"send", "complete">> /\ Tail(Completing) = Activating
    /\ Head(Queueing) = <<"enqueue", "complete">> /\ Tail(Queueing) = Activating
    /\ Head(Activating) = <<"enqueue", "activate">> /\ Tail(Activating) = Completed
    /\ Head(Completed) = <<"completed", "">> /\ Tail(Completed) = <<>>
    /\ \A steps \in Negotiation : steps # <<>>
<1>1. PICK begin : begin = <<"begin", "">>
  OBVIOUS
<1>2. PICK params : params = <<"send", "params">>
  OBVIOUS
<1>3. PICK prepare : prepare = <<"prepare", "">>
  OBVIOUS
<1>4. PICK send : send = <<"send", "complete">>
  OBVIOUS
<1>5. PICK enqueue : enqueue = <<"enqueue", "complete">>
  OBVIOUS
<1>6. PICK activate : activate = <<"enqueue", "activate">>
  OBVIOUS
<1>7. PICK completed : completed = <<"completed", "">>
  OBVIOUS
<1>8. /\ Beginning = <<begin, params>>
      /\ Preparing = <<prepare, send, activate, completed>>
      /\ Completing = <<send, activate, completed>>
      /\ Queueing = <<enqueue, activate, completed>>
      /\ Activating = <<activate, completed>>
      /\ Completed = <<completed>>
  BY <1>1, <1>2, <1>3, <1>4, <1>5, <1>6, <1>7, Zenon
     DEF Beginning, Preparing, Completing, Queueing, Activating, Completed
<1>9. /\ Head(Beginning) = begin /\ Tail(Beginning) = <<params>> /\ Beginning # <<>>
      /\ Head(Preparing) = prepare /\ Tail(Preparing) = Completing /\ Preparing # <<>>
      /\ Head(Completing) = send /\ Tail(Completing) = Activating /\ Completing # <<>>
      /\ Head(Queueing) = enqueue /\ Tail(Queueing) = Activating /\ Queueing # <<>>
      /\ Head(Activating) = activate /\ Tail(Activating) = Completed /\ Activating # <<>>
      /\ Head(Completed) = completed /\ Tail(Completed) = <<>> /\ Completed # <<>>
  BY <1>8, Remaining
<1>10. \A steps \in Negotiation : steps # <<>>
  BY <1>9 DEF Negotiation
<1>11. QED
  BY <1>1, <1>2, <1>3, <1>4, <1>5, <1>6, <1>7, <1>9, <1>10

\* By name,
LEMMA NegotiationHeads ==
    /\ Head(Beginning)[1] = "begin" /\ Head(Preparing)[1] = "prepare"
    /\ Head(Completing)[1] = "send" /\ Head(Completing)[2] = "complete"
    /\ Head(Queueing)[1] = "enqueue" /\ Head(Queueing)[2] = "complete"
    /\ Head(Activating)[1] = "enqueue" /\ Head(Activating)[2] = "activate"
    /\ Head(Completed)[1] = "completed"
<1>1. \A x, y, steps : Head(steps) = <<x, y>> => Head(steps)[1] = x /\ Head(steps)[2] = y
  OBVIOUS
<1>2. Head(Beginning)[1] = "begin" /\ Head(Preparing)[1] = "prepare"
  <2>1. Head(Beginning) = <<"begin", "">> /\ Head(Preparing) = <<"prepare", "">>
    BY NegotiationBegins
  <2>2. QED
    BY <1>1, <2>1
<1>3. Head(Completing)[1] = "send" /\ Head(Completing)[2] = "complete"
  <2>1. Head(Completing) = <<"send", "complete">>
    BY NegotiationBegins
  <2>2. QED
    BY <1>1, <2>1
<1>4. Head(Queueing)[1] = "enqueue" /\ Head(Queueing)[2] = "complete"
  <2>1. Head(Queueing) = <<"enqueue", "complete">>
    BY NegotiationBegins
  <2>2. QED
    BY <1>1, <2>1
<1>5. Head(Activating)[1] = "enqueue" /\ Head(Activating)[2] = "activate"
  <2>1. Head(Activating) = <<"enqueue", "activate">>
    BY NegotiationBegins
  <2>2. QED
    BY <1>1, <2>1
<1>6. Head(Completed)[1] = "completed"
  <2>1. Head(Completed) = <<"completed", "">>
    BY NegotiationBegins
  <2>2. QED
    BY <1>1, <2>1
<1>7. QED
  BY <1>2, <1>3, <1>4, <1>5, <1>6

\* they differ.
LEMMA NegotiationDiffers ==
    /\ \A steps \in {Preparing, Completing, Queueing, Activating, Completed} : steps # Beginning
    /\ \A steps \in {Beginning, Preparing, Activating, Completed} :
          steps # Completing /\ steps # Queueing
    /\ \A steps \in {Beginning, Preparing, Completed} : steps # Activating
<1>1. /\ Beginning # Preparing /\ Beginning # Completing /\ Beginning # Queueing
      /\ Beginning # Activating /\ Beginning # Completed
  BY NegotiationHeads
<1>2. /\ Preparing # Completing /\ Preparing # Queueing /\ Preparing # Activating
      /\ Completed # Completing /\ Completed # Queueing /\ Completed # Activating
      /\ Activating # Completing /\ Activating # Queueing
  BY NegotiationHeads
<1>3. QED
  BY <1>1, <1>2

\* What a goroutine does apart from the negotiation is none of the negotiation's.
LEMMA PlainApart == \A steps \in Seq(Plain) : steps \notin Negotiation
<1> SUFFICES ASSUME NEW steps \in Seq(Plain), steps \in Negotiation PROVE FALSE
  OBVIOUS
<1>1. steps # <<>> /\ Head(steps) \in Plain
  BY NegotiationBegins, HeadTailProperties
<1>2. Head(steps) \in {<<"begin", "">>, <<"prepare", "">>, <<"send", "complete">>,
                      <<"enqueue", "complete">>, <<"enqueue", "activate">>, <<"completed", "">>}
  BY NegotiationBegins DEF Negotiation
<1>3. /\ <<"begin", "">> \notin Plain /\ <<"prepare", "">> \notin Plain
      /\ <<"send", "complete">> \notin Plain /\ <<"enqueue", "complete">> \notin Plain
      /\ <<"enqueue", "activate">> \notin Plain /\ <<"completed", "">> \notin Plain
  BY DEF Plain
<1>4. QED
  BY <1>1, <1>2, <1>3

\* The head and the rest of what is left.
LEMMA PlainRest ==
    ASSUME NEW steps \in Seq(Plain), steps # <<>>
    PROVE  Head(steps) \in Plain /\ Tail(steps) \in Seq(Plain)
  BY HeadTailProperties

\* Waits come before the keys are forgotten in a sequence of two parts if they do in both,
LEMMA WaitsConcat ==
    ASSUME NEW s \in Seq(Plain), NEW t \in Seq(Plain), Waits(s), Waits(t)
    PROVE  s \o t \in Seq(Plain) /\ Waits(s \o t)
<1> DEFINE u == s \o t
<1>1. /\ u \in Seq(Plain) /\ Len(u) = Len(s) + Len(t)
      /\ \A i \in 1 .. Len(u) : u[i] = IF i <= Len(s) THEN s[i] ELSE t[i - Len(s)]
      /\ Len(s) \in Nat /\ Len(t) \in Nat
  BY ConcatProperties, LenProperties
<1>2. ASSUME NEW j \in 1 .. Len(u), u[j][1] = "secure"
      PROVE  \E i \in 1 .. j - 1 : u[i][1] = "wait"
  <2>1. CASE j <= Len(s)
    <3>1. PICK i \in 1 .. j - 1 : s[i][1] = "wait"
      BY <1>1, <1>2, <2>1 DEF Waits
    <3>2. QED
      BY <1>1, <2>1, <3>1
  <2>2. CASE j > Len(s)
    <3> DEFINE k == j - Len(s)
    <3>1. k \in 1 .. Len(t) /\ t[k][1] = "secure"
      BY <1>1, <1>2, <2>2
    <3>2. PICK i \in 1 .. k - 1 : t[i][1] = "wait"
      BY <3>1 DEF Waits
    <3>3. i + Len(s) \in 1 .. j - 1 /\ i + Len(s) \in 1 .. Len(u) /\ ~(i + Len(s) <= Len(s))
      BY <1>1, <2>2, <3>1, <3>2
    <3>4. u[i + Len(s)] = t[i + Len(s) - Len(s)]
      BY <1>1, <3>3
    <3>5. QED
      BY <1>1, <3>2, <3>3, <3>4
  <2>3. QED
    BY <1>1, <2>1, <2>2
<1>3. QED
  BY <1>1, <1>2 DEF Waits

\* and after a step that is none of them.
LEMMA WaitsRest ==
    ASSUME NEW steps \in Seq(Plain), steps # <<>>, Waits(steps), Head(steps)[1] # "wait"
    PROVE  Waits(Tail(steps))
<1>1. /\ Len(Tail(steps)) = Len(steps) - 1 /\ Len(steps) \in Nat /\ Len(steps) > 0
      /\ \A i \in 1 .. Len(Tail(steps)) : Tail(steps)[i] = steps[i + 1]
      /\ Head(steps) = steps[1]
  BY HeadTailProperties, LenProperties
<1>2. ASSUME NEW j \in 1 .. Len(Tail(steps)), Tail(steps)[j][1] = "secure"
      PROVE  \E i \in 1 .. j - 1 : Tail(steps)[i][1] = "wait"
  <2>1. j + 1 \in 1 .. Len(steps) /\ steps[j + 1][1] = "secure"
    BY <1>1, <1>2
  <2>2. PICK i \in 1 .. j : steps[i][1] = "wait"
    BY <2>1 DEF Waits
  <2>3. i # 1 /\ i - 1 \in 1 .. j - 1
    BY <1>1, <2>2
  <2>4. Tail(steps)[i - 1] = steps[i]
    BY <1>1, <2>2, <2>3
  <2>5. QED
    BY <2>2, <2>3, <2>4
<1>3. QED
  BY <1>2 DEF Waits

\* Ends of loops, disconnections and refusals wait first.
LEMMA Endings ==
    ASSUME NEW p \in Senders, NEW told \in BOOLEAN
    PROVE  /\ LoopEnd(p) \in Seq(Plain) /\ Waits(LoopEnd(p))
           /\ Disconnecting(p, told) \in Seq(Plain) /\ Waits(Disconnecting(p, told))
           /\ Ending(p, told) \in Seq(Plain) /\ Waits(Ending(p, told))
           /\ Refusing \in Seq(Plain) /\ Waits(Refusing)
<1>1. /\ <<"wait", "run">> \in Plain /\ <<"end", "">> \in Plain /\ <<"dispose", "">> \in Plain
      /\ <<"shut", "">> \in Plain /\ <<"flush", "bye">> \in Plain /\ <<"flush", "close">> \in Plain
      /\ <<"wait", "">> \in Plain /\ <<"secure", "">> \in Plain
      /\ <<"transition", "error">> \in Plain
  BY DEF Plain
<1>2. \A x \in Plain : x[1] # "secure" => <<x>> \in Seq(Plain) /\ Waits(<<x>>)
  BY One DEF Waits
<1>3. \A x, y \in Plain : x[1] # "secure" /\ y[1] # "secure" => <<x, y>> \in Seq(Plain) /\ Waits(<<x, y>>)
  <2> SUFFICES ASSUME NEW x \in Plain, NEW y \in Plain, x[1] # "secure", y[1] # "secure"
               PROVE  <<x, y>> \in Seq(Plain) /\ Waits(<<x, y>>)
    OBVIOUS
  <2>1. \A j \in 1 .. Len(<<x, y>>) : <<x, y>>[j] = x \/ <<x, y>>[j] = y
    BY Two
  <2>2. QED
    BY <2>1, Two DEF Waits
<1>9. \A x, y, z \in Plain : x[1] # "secure" /\ y[1] = "wait" =>
          <<x, y, z>> \in Seq(Plain) /\ Waits(<<x, y, z>>)
  <2> SUFFICES ASSUME NEW x \in Plain, NEW y \in Plain, NEW z \in Plain,
                      x[1] # "secure", y[1] = "wait"
               PROVE  <<x, y, z>> \in Seq(Plain) /\ Waits(<<x, y, z>>)
    OBVIOUS
  <2>1. PICK steps : steps = <<x, y, z>>
    OBVIOUS
  <2>2. /\ steps \in Seq(Plain) /\ Len(steps) = 3
        /\ steps[1] = x /\ steps[2] = y /\ steps[3] = z
    BY <2>1, Three
  <2>3. ASSUME NEW j \in 1 .. Len(steps), steps[j][1] = "secure"
        PROVE  \E i \in 1 .. j - 1 : steps[i][1] = "wait"
    <3>1. j = 3
      BY <2>2, <2>3
    <3>2. 2 \in 1 .. j - 1 /\ steps[2][1] = "wait"
      BY <2>2, <3>1
    <3>3. QED
      BY <3>2
  <2>4. QED
    BY <2>1, <2>2, <2>3 DEF Waits
<1>4. LoopEnd(p) \in Seq(Plain) /\ Waits(LoopEnd(p))
  BY <1>1, <1>2, <1>3 DEF LoopEnd
<1>5. \A q, b : b \in BOOLEAN => Disconnecting(q, b) \in Seq(Plain) /\ Waits(Disconnecting(q, b))
  <2> SUFFICES ASSUME NEW q, NEW b \in BOOLEAN
               PROVE  Disconnecting(q, b) \in Seq(Plain) /\ Waits(Disconnecting(q, b))
    OBVIOUS
  <2> DEFINE bye == IF b THEN <<<<"flush", "bye">>>> ELSE <<>>
             close == <<<<"flush", "close">>, <<"wait", "">>, <<"secure", "">>>>
             first == <<<<"dispose", "">>, <<"shut", "">>>>
  <2>1. bye \in Seq(Plain) /\ Waits(bye)
    <3>1. <<>> \in Seq(Plain) /\ Waits(<<>>)
      BY DEF Waits
    <3>2. QED
      BY <1>1, <1>2, <3>1
  <2>2. first \o bye \in Seq(Plain) /\ Waits(first \o bye)
    <3>1. first \in Seq(Plain) /\ Waits(first)
      BY <1>1, <1>3
    <3>2. QED
      BY <2>1, <3>1, WaitsConcat
  <2>3. (first \o bye) \o close \in Seq(Plain) /\ Waits((first \o bye) \o close)
    <3>1. close \in Seq(Plain) /\ Waits(close)
      BY <1>1, <1>9
    <3>2. QED
      BY <2>2, <3>1, WaitsConcat
  <2>4. Disconnecting(q, b) = (first \o bye) \o close
    BY DEF Disconnecting
  <2>5. QED
    BY <2>3, <2>4
<1>6. Ending(p, told) \in Seq(Plain) /\ Waits(Ending(p, told))
  BY <1>4, <1>5, WaitsConcat DEF Ending
<1>7. Refusing \in Seq(Plain) /\ Waits(Refusing)
  <2>1. Disconnecting("reader", TRUE) \in Seq(Plain) /\ Waits(Disconnecting("reader", TRUE))
    BY <1>5
  <2>2. QED
    BY <1>1, <1>2, <2>1, WaitsConcat DEF Refusing
<1>8. QED
  BY <1>4, <1>5, <1>6, <1>7

\* The steps of the negotiation wait for nothing and forget nothing.
LEMMA NegotiationWaits == \A steps \in Negotiation : Waits(steps)
<1>1. \A x : x[1] # "secure" => Waits(<<x>>)
  BY DEF Waits
<1>2. ASSUME NEW x, NEW y, x[1] # "secure", y[1] # "secure" PROVE Waits(<<x, y>>)
  <2>1. \A j \in 1 .. Len(<<x, y>>) : <<x, y>>[j] = x \/ <<x, y>>[j] = y
    OBVIOUS
  <2>2. QED
    BY <1>2, <2>1 DEF Waits
<1>3. ASSUME NEW x, NEW y, NEW z, x[1] # "secure", y[1] # "secure", z[1] # "secure"
      PROVE  Waits(<<x, y, z>>)
  <2>1. \A j \in 1 .. Len(<<x, y, z>>) :
            <<x, y, z>>[j] = x \/ <<x, y, z>>[j] = y \/ <<x, y, z>>[j] = z
    OBVIOUS
  <2>2. QED
    BY <1>3, <2>1 DEF Waits
<1>4. ASSUME NEW x, NEW y, NEW z, NEW u,
             x[1] # "secure", y[1] # "secure", z[1] # "secure", u[1] # "secure"
      PROVE  Waits(<<x, y, z, u>>)
  <2>1. \A j \in 1 .. Len(<<x, y, z, u>>) :
            \/ <<x, y, z, u>>[j] = x \/ <<x, y, z, u>>[j] = y
            \/ <<x, y, z, u>>[j] = z \/ <<x, y, z, u>>[j] = u
    OBVIOUS
  <2>2. QED
    BY <1>4, <2>1 DEF Waits
<1>5. \A x, y : x # "secure" => <<x, y>>[1] # "secure"
  OBVIOUS
<1>6. Waits(Beginning) /\ Waits(Activating) /\ Waits(Completed)
  BY <1>1, <1>2, <1>5 DEF Beginning, Activating, Completed
<1>7. Waits(Completing) /\ Waits(Queueing)
  BY <1>3, <1>5 DEF Completing, Queueing
<1>8. Waits(Preparing)
  BY <1>4, <1>5 DEF Preparing
<1>9. QED
  BY <1>6, <1>7, <1>8 DEF Negotiation

\* One step before others.
LEMMA Before ==
    /\ \A x, y, z : <<x>> \o <<y, z>> = <<x, y, z>>
    /\ \A x, y, z, u : <<x>> \o <<y, z, u>> = <<x, y, z, u>>
<1>1. ASSUME NEW x, NEW y, NEW z PROVE <<x>> \o <<y, z>> = <<x, y, z>>
  <2> DEFINE S == {x, y, z}
  <2>1. <<x>> \in Seq(S) /\ <<y, z>> \in Seq(S) /\ <<x, y, z>> \in Seq(S)
    OBVIOUS
  <2>2. /\ <<x>> \o <<y, z>> \in Seq(S) /\ Len(<<x>> \o <<y, z>>) = 3
        /\ \A i \in 1 .. 3 : (<<x>> \o <<y, z>>)[i] = IF i <= 1 THEN <<x>>[i] ELSE <<y, z>>[i - 1]
    BY <2>1, ConcatProperties
  <2>3. \A i \in 1 .. 3 : i = 1 \/ i = 2 \/ i = 3
    OBVIOUS
  <2>4. \A i \in 1 .. 3 : (<<x>> \o <<y, z>>)[i] = <<x, y, z>>[i]
    BY <2>2, <2>3
  <2>5. QED
    BY <2>1, <2>2, <2>4, SeqEqual
<1>2. ASSUME NEW x, NEW y, NEW z, NEW u PROVE <<x>> \o <<y, z, u>> = <<x, y, z, u>>
  <2> DEFINE S == {x, y, z, u}
  <2>1. <<x>> \in Seq(S) /\ <<y, z, u>> \in Seq(S) /\ <<x, y, z, u>> \in Seq(S)
    OBVIOUS
  <2>2. /\ <<x>> \o <<y, z, u>> \in Seq(S) /\ Len(<<x>> \o <<y, z, u>>) = 4
        /\ \A i \in 1 .. 4 :
              (<<x>> \o <<y, z, u>>)[i] = IF i <= 1 THEN <<x>>[i] ELSE <<y, z, u>>[i - 1]
    BY <2>1, ConcatProperties
  <2>3. \A i \in 1 .. 4 : i = 1 \/ i = 2 \/ i = 3 \/ i = 4
    OBVIOUS
  <2>4. \A i \in 1 .. 4 : (<<x>> \o <<y, z, u>>)[i] = <<x, y, z, u>>[i]
    BY <2>2, <2>3
  <2>5. QED
    BY <2>1, <2>2, <2>4, SeqEqual
<1>3. QED
  BY <1>1, <1>2

\* What fails ends.
LEMMA FailingEnds ==
    ASSUME NEW p \in Senders
    PROVE  Failing(p) \in Seq(Plain) /\ Waits(Failing(p))
<1>1. Senders = {"reader", "heart", "other"}
  BY DEF Senders
<1>2. CASE p = "reader"
  BY <1>2, Endings DEF Failing
<1>3. CASE p = "heart"
  BY <1>3, Endings DEF Failing, LoopEnd
<1>4. CASE p = "other"
  BY <1>4 DEF Failing, Waits
<1>5. QED
  BY <1>1, <1>2, <1>3, <1>4

-----------------------------------------------------------------------------
(***************************************************************************)
(* Steps.                                                                  *)
(***************************************************************************)
\* What a goroutine is about to do.
LEMMA Next1 ==
    ASSUME SealInv, NEW p \in Senders, todo[p] # <<>>
    PROVE  \/ /\ todo[p] \in Seq(Plain) /\ Head(todo[p]) \in Plain /\ Rest(p) \in Seq(Plain)
              /\ finished \/ Waits(todo[p])
              /\ Head(todo[p])[1] = "wait" \/ finished \/ Waits(Rest(p))
           \/ p = "reader" /\ todo[p] \in Negotiation
<1>1. CASE todo[p] \in Seq(Plain)
  BY <1>1, PlainRest, WaitsRest DEF SealInv, WaitsFirst, Rest
<1>2. CASE todo[p] \notin Seq(Plain)
  BY <1>2 DEF SealInv, SocketTypes, Senders
<1>3. QED
  BY <1>1, <1>2

\* A step that queues and writes nothing, and goes on with something else than the
\* negotiation.
LEMMA Quiet ==
    ASSUME SealInv, NEW p \in Senders, NEW steps \in Seq(Plain), Then(p, steps),
           finished' = finished \/ finished' = TRUE, Waits(steps) \/ finished',
           UNCHANGED <<queue, wire>>,
           \/ channel' = channel
           \/ finished /\ channel' = (IF channel = "none" THEN "none" ELSE "failed")
    PROVE  SealInv'
<1>1. todo' = [todo EXCEPT ![p] = steps] /\ todo \in [Senders -> Seq(Plain) \union Negotiation]
  BY DEF Then, SealInv, SocketTypes
<1>2. todo'[p] = steps /\ \A q \in Senders \ {p} : todo'[q] = todo[q]
  BY <1>1
<1>3. steps \notin Negotiation
  BY PlainApart
<1>4. SocketTypes'
  BY <1>1, <1>2 DEF SealInv, SocketTypes, Senders
<1>5. WaitsFirst'
  BY <1>2 DEF SealInv, WaitsFirst
<1>6. todo'["reader"] = todo["reader"] \/ todo'["reader"] \notin Negotiation
  BY <1>2, <1>3 DEF Senders
<1>7. InQueue("activate")' = InQueue("activate") /\ InQueue("complete")' = InQueue("complete")
  BY DEF InQueue
<1>8. Phases'
  BY <1>6, <1>7 DEF SealInv, Phases, Negotiation
<1>9. CompletedFirst' /\ StaysReady' /\ SealedInOrder'
  BY DEF SealInv, SocketTypes, CompletedFirst, StaysReady, SealedInOrder
<1>10. QED
  BY <1>4, <1>5, <1>8, <1>9 DEF SealInv

\* A step that changes nothing of all this.
LEMMA Still ==
    ASSUME SealInv, UNCHANGED <<todo, queue, wire, channel>>,
           finished' = finished \/ finished' = TRUE
    PROVE  SealInv'
<1>1. SocketTypes' /\ WaitsFirst'
  BY DEF SealInv, SocketTypes, WaitsFirst
<1>2. Phases' /\ CompletedFirst'
  BY DEF SealInv, Phases, CompletedFirst, InQueue
<1>3. StaysReady' /\ SealedInOrder'
  BY DEF SealInv, StaysReady, SealedInOrder
<1>4. QED
  BY <1>1, <1>2, <1>3 DEF SealInv

\* What is in a queue after one more.
LEMMA Queued ==
    ASSUME SealInv, NEW item \in Items, queue' = Append(queue, item)
    PROVE  /\ queue' \in Seq(Items)
           /\ \A other : InQueue(other)' <=> InQueue(other) \/ other = item
           /\ ~(item = "complete" /\ InQueue("activate")) => CompletedFirst'
<1>1. /\ queue \in Seq(Items) /\ Len(queue) \in Nat /\ queue' \in Seq(Items)
      /\ Len(queue') = Len(queue) + 1
      /\ \A i \in 1 .. Len(queue) : queue'[i] = queue[i]
      /\ queue'[Len(queue) + 1] = item
  BY AppendProperties, LenProperties DEF SealInv, SocketTypes
<1>2. \A i \in 1 .. Len(queue') : i \in 1 .. Len(queue) \/ i = Len(queue) + 1
  BY <1>1
<1>3. \A other : InQueue(other)' <=> InQueue(other) \/ other = item
  <2> SUFFICES ASSUME NEW other PROVE InQueue(other)' <=> InQueue(other) \/ other = item
    OBVIOUS
  <2>1. 1 .. Len(queue) \subseteq 1 .. Len(queue') /\ Len(queue) + 1 \in 1 .. Len(queue')
    BY <1>1
  <2>2. QED
    BY <1>1, <1>2, <2>1 DEF InQueue
<1>4. ASSUME ~(item = "complete" /\ InQueue("activate")),
             NEW i \in 1 .. Len(queue'), NEW j \in 1 .. Len(queue'),
             queue'[i] = "activate", queue'[j] = "complete"
      PROVE  j < i
  <2>1. CASE i \in 1 .. Len(queue) /\ j \in 1 .. Len(queue)
    BY <1>1, <1>4, <2>1 DEF SealInv, CompletedFirst
  <2>2. CASE j = Len(queue) + 1
    <3>1. item = "complete" /\ i \in 1 .. Len(queue) /\ queue[i] = "activate"
      BY <1>1, <1>2, <1>4, <2>2
    <3>2. QED
      BY <1>4, <3>1 DEF InQueue
  <2>3. CASE i = Len(queue) + 1 /\ j \in 1 .. Len(queue)
    BY <1>1, <2>3
  <2>4. QED
    BY <1>2, <2>1, <2>2, <2>3
<1>5. QED
  BY <1>1, <1>3, <1>4 DEF CompletedFirst

\* A step that queues something else than the negotiation does.
LEMMA Queues ==
    ASSUME SealInv, NEW p \in Senders, NEW steps \in Seq(Plain), Then(p, steps),
           Waits(steps) \/ finished, NEW item \in Items \ {"complete", "activate"},
           queue' = Append(queue, item), UNCHANGED <<wire, channel, finished>>
    PROVE  SealInv'
<1>1. todo' = [todo EXCEPT ![p] = steps] /\ todo \in [Senders -> Seq(Plain) \union Negotiation]
  BY DEF Then, SealInv, SocketTypes
<1>2. todo'[p] = steps /\ \A q \in Senders \ {p} : todo'[q] = todo[q]
  BY <1>1
<1>3. todo'["reader"] = todo["reader"] \/ todo'["reader"] \notin Negotiation
  BY <1>2, PlainApart DEF Senders
<1>4. /\ queue' \in Seq(Items) /\ CompletedFirst'
      /\ InQueue("activate")' <=> InQueue("activate")
      /\ InQueue("complete")' <=> InQueue("complete")
  <2>1. item \in Items /\ item # "complete" /\ item # "activate"
    OBVIOUS
  <2>2. \A other : InQueue(other)' <=> InQueue(other) \/ other = item
    BY <2>1, Queued
  <2>3. queue' \in Seq(Items) /\ CompletedFirst'
    BY <2>1, Queued
  <2>4. QED
    BY <2>1, <2>2, <2>3
<1>5. SocketTypes'
  BY <1>1, <1>2, <1>4 DEF SealInv, SocketTypes, Senders
<1>6. WaitsFirst'
  BY <1>2 DEF SealInv, WaitsFirst
<1>7. Phases'
  BY <1>3, <1>4 DEF SealInv, Phases, Negotiation
<1>8. StaysReady' /\ SealedInOrder'
  BY DEF SealInv, StaysReady, SealedInOrder
<1>9. QED
  BY <1>4, <1>5, <1>6, <1>7, <1>8 DEF SealInv

\* A step of the negotiation by the reader.
LEMMA Negotiates ==
    ASSUME SealInv, NEW steps \in Negotiation, Then("reader", steps),
           queue' \in Seq(Items), CompletedFirst', UNCHANGED <<wire, finished>>,
           channel' \in {"none", "negotiating", "prepared", "ready", "failed"},
           channel = "ready" => channel' = channel,
           steps = Beginning => channel' = "none",
           channel' \in {"none", "negotiating"} =>
               ~InQueue("activate")' /\ steps \notin {Completing, Queueing, Activating},
           channel' = "ready" => ~InQueue("complete")' /\ steps \notin {Completing, Queueing},
           steps \in {Completing, Queueing} => ~InQueue("activate")'
    PROVE  SealInv'
<1>1. todo' = [todo EXCEPT !["reader"] = steps]
      /\ todo \in [Senders -> Seq(Plain) \union Negotiation] /\ "reader" \in Senders
  BY DEF Then, SealInv, SocketTypes, Senders
<1>2. todo'["reader"] = steps /\ \A q \in Senders \ {"reader"} : todo'[q] = todo[q]
  BY <1>1
<1>3. SocketTypes'
  BY <1>1, <1>2 DEF SealInv, SocketTypes, Senders
<1>4. WaitsFirst'
  BY <1>2, NegotiationWaits DEF SealInv, WaitsFirst
<1>5. Phases'
  BY <1>2 DEF Phases
<1>6. StaysReady' /\ SealedInOrder'
  BY DEF SealInv, StaysReady, SealedInOrder
<1>7. QED
  BY <1>3, <1>4, <1>5, <1>6 DEF SealInv

\* Sending: the next statement queues, or the goroutine fails.
LEMMA SendStep == ASSUME SealInv, NEW p \in Senders, Send(p) PROVE SealInv'
<1>1. /\ todo[p] # <<>> /\ Head(todo[p])[1] = "send"
      /\ UNCHANGED <<queue, wire, channel, finished>>
  BY DEF Send, At, sessionVars, socketVars
<1>2. CASE Then(p, Failing(p))
  BY <1>1, <1>2, FailingEnds, Quiet
<1>3. CASE Then(p, <<<<"enqueue", Packet(p)>>>> \o Rest(p))
  <2>1. CASE todo[p] \in Seq(Plain) /\ Head(todo[p]) \in Plain /\ Rest(p) \in Seq(Plain)
             /\ (finished \/ Waits(Rest(p)))
    <3>1. <<"enqueue", Packet(p)>> \in Plain
      BY <1>1, <2>1 DEF Packet, Plain
    <3>2. <<<<"enqueue", Packet(p)>>>> \in Seq(Plain) /\ Waits(<<<<"enqueue", Packet(p)>>>>)
      <4>1. PICK x \in Plain : x = <<"enqueue", Packet(p)>>
        BY <3>1
      <4>2. <<x>> \in Seq(Plain) /\ Waits(<<x>>)
        BY <4>1, One DEF Waits
      <4>3. QED
        BY <4>1, <4>2
    <3>3. <<<<"enqueue", Packet(p)>>>> \o Rest(p) \in Seq(Plain)
      BY <2>1, <3>2, ConcatProperties
    <3>4. finished \/ Waits(<<<<"enqueue", Packet(p)>>>> \o Rest(p))
      BY <2>1, <3>2, WaitsConcat
    <3>5. QED
      BY <1>1, <1>3, <3>3, <3>4, Quiet
  <2>2. CASE p = "reader" /\ todo[p] \in Negotiation
    <3>1. todo["reader"] = Completing
      <4>1. /\ Head(Beginning)[1] # "send" /\ Head(Preparing)[1] # "send"
            /\ Head(Queueing)[1] # "send" /\ Head(Activating)[1] # "send"
            /\ Head(Completed)[1] # "send"
        BY NegotiationHeads
      <4>2. QED
        BY <1>1, <2>2, <4>1 DEF Negotiation
    <3>2. Packet(p) = "complete" /\ Rest(p) = Activating
      BY <2>2, <3>1, NegotiationBegins, NegotiationHeads DEF Packet, Rest
    <3>3. <<<<"enqueue", Packet(p)>>>> \o Rest(p) = Queueing
      <4>1. PICK x : x = <<"enqueue", "complete">>
        OBVIOUS
      <4>2. PICK y : y = <<"enqueue", "activate">>
        OBVIOUS
      <4>3. PICK z : z = <<"completed", "">>
        OBVIOUS
      <4>4. Activating = <<y, z>> /\ Queueing = <<x, y, z>>
        BY <4>1, <4>2, <4>3, Zenon DEF Activating, Queueing
      <4>5. <<x>> \o <<y, z>> = <<x, y, z>>
        BY Before
      <4>6. QED
        BY <3>2, <4>1, <4>4, <4>5
    <3>4. Then("reader", Queueing)
      BY <1>3, <2>2, <3>3
    <3>5. /\ channel \notin {"none", "negotiating"} /\ ~InQueue("activate") /\ channel # "ready"
          /\ channel \in {"none", "negotiating", "prepared", "ready", "failed"}
          /\ queue \in Seq(Items) /\ CompletedFirst
      BY <3>1 DEF SealInv, Phases, SocketTypes
    <3>6. /\ ~InQueue("activate")' /\ CompletedFirst' /\ Queueing \in Negotiation
          /\ Queueing # Beginning
      BY <1>1, <3>5, NegotiationDiffers DEF InQueue, CompletedFirst, Negotiation
    <3>7. QED
      BY <1>1, <3>4, <3>5, <3>6, Negotiates
  <2>3. QED
    BY <1>1, <2>1, <2>2, Next1
<1>4. QED
  BY <1>2, <1>3 DEF Send

\* Queueing, which a full or a closed queue refuses.
LEMMA EnqueueStep == ASSUME SealInv, NEW p \in Senders, Enqueue(p) PROVE SealInv'
<1>1. /\ todo[p] # <<>> /\ Head(todo[p])[1] = "enqueue"
      /\ UNCHANGED <<wire, channel, finished>>
  BY DEF Enqueue, At, sessionVars
<1>2. CASE UNCHANGED queue /\ Then(p, Failing(p))
  BY <1>1, <1>2, FailingEnds, Quiet
<1>3. CASE queue' = Append(queue, Packet(p)) /\ Then(p, Rest(p))
  <2>1. CASE todo[p] \in Seq(Plain) /\ Head(todo[p]) \in Plain /\ Rest(p) \in Seq(Plain)
             /\ (finished \/ Waits(Rest(p)))
    <3>1. Packet(p) \in Items \ {"complete", "activate"}
      BY <1>1, <2>1 DEF Packet, Plain, Items
    <3>2. QED
      BY <1>1, <1>3, <2>1, <3>1, Queues
  <2>2. CASE p = "reader" /\ todo[p] \in Negotiation
    <3>1. todo["reader"] = Queueing \/ todo["reader"] = Activating
      <4>1. /\ Head(Beginning)[1] # "enqueue" /\ Head(Preparing)[1] # "enqueue"
            /\ Head(Completing)[1] # "enqueue" /\ Head(Completed)[1] # "enqueue"
        BY NegotiationHeads
      <4>2. QED
        BY <1>1, <2>2, <4>1 DEF Negotiation
    <3>2. /\ channel \notin {"none", "negotiating"}
          /\ channel \in {"none", "negotiating", "prepared", "ready", "failed"}
      BY <3>1 DEF SealInv, Phases, SocketTypes
    <3>3. Activating \in Negotiation /\ Completed \in Negotiation
      BY DEF Negotiation
    <3>4. CASE todo["reader"] = Queueing
      <4>1. Packet(p) = "complete" /\ Rest(p) = Activating
        BY <2>2, <3>4, NegotiationBegins, NegotiationHeads DEF Packet, Rest
      <4>2. ~InQueue("activate") /\ channel # "ready"
        BY <3>4 DEF SealInv, Phases
      <4>3. queue' \in Seq(Items) /\ CompletedFirst'
        BY <1>3, <4>1, <4>2, Queued DEF Items
      <4>4. Activating # Beginning /\ Activating # Completing /\ Activating # Queueing
        BY NegotiationDiffers
      <4>5. QED
        BY <1>1, <1>3, <2>2, <3>2, <3>3, <4>1, <4>2, <4>3, <4>4, Negotiates
    <3>5. CASE todo["reader"] = Activating
      <4>1. Packet(p) = "activate" /\ Rest(p) = Completed
        BY <2>2, <3>5, NegotiationBegins, NegotiationHeads DEF Packet, Rest
      <4>2. /\ queue' \in Seq(Items) /\ CompletedFirst'
            /\ InQueue("complete")' <=> InQueue("complete")
        BY <1>3, <4>1, Queued DEF Items
      <4>3. channel = "ready" => ~InQueue("complete")
        BY DEF SealInv, Phases
      <4>4. Completed # Beginning /\ Completed # Completing /\ Completed # Queueing
        BY NegotiationDiffers
      <4>5. QED
        BY <1>1, <1>3, <2>2, <3>2, <3>3, <4>1, <4>2, <4>3, <4>4, Negotiates
    <3>6. QED
      BY <3>1, <3>4, <3>5
  <2>3. QED
    BY <1>1, <2>1, <2>2, Next1
<1>4. QED
  BY <1>2, <1>3 DEF Enqueue

\* The steps of a disconnection.
LEMMA DisposeSteps ==
    ASSUME SealInv, NEW p \in Senders,
           Dispose(p) \/ Shut(p) \/ Flush(p) \/ Grace(p) \/ Wait(p) \/ Secure(p) \/ End(p)
    PROVE  SealInv'
<1>1. /\ todo[p] # <<>> /\ UNCHANGED wire
      /\ Head(todo[p])[1] \in {"dispose", "shut", "flush", "wait", "secure", "end"}
  BY DEF Dispose, Shut, Flush, Grace, GraceOver, Wait, Secure, End, At
<1>2. /\ todo[p] \in Seq(Plain) /\ Head(todo[p]) \in Plain /\ Rest(p) \in Seq(Plain)
      /\ finished \/ Waits(todo[p])
      /\ Head(todo[p])[1] = "wait" \/ finished \/ Waits(Rest(p))
  <2>1. todo[p] \notin Negotiation
    <3>1. /\ Head(Beginning)[1] = "begin" /\ Head(Preparing)[1] = "prepare"
          /\ Head(Completing)[1] = "send" /\ Head(Queueing)[1] = "enqueue"
          /\ Head(Activating)[1] = "enqueue" /\ Head(Completed)[1] = "completed"
      BY NegotiationHeads
    <3>2. QED
      BY <1>1, <3>1 DEF Negotiation
  <2>2. QED
    BY <1>1, <2>1, Next1
<1>3. CASE Dispose(p)
  <2>1. UNCHANGED <<channel, queue, finished>> /\ Head(todo[p])[1] = "dispose"
    BY <1>3 DEF Dispose, socketVars, At
  <2>2. PICK steps : Then(p, steps) /\ steps \in {LoopEnd(p), Ending(p, TRUE), <<>>, Rest(p)}
    BY <1>3 DEF Dispose
  <2>3. steps \in Seq(Plain) /\ (finished \/ Waits(steps))
    <3>1. <<>> \in Seq(Plain) /\ Waits(<<>>)
      BY DEF Waits
    <3>2. QED
      BY <1>2, <2>1, <2>2, <3>1, Endings
  <2>4. QED
    BY <1>1, <2>1, <2>2, <2>3, Quiet
<1>4. CASE Shut(p)
  BY <1>1, <1>2, <1>4, Quiet DEF Shut, At, sessionVars
<1>5. CASE Flush(p)
  <2>1. /\ UNCHANGED <<channel, finished>> /\ Head(todo[p])[1] = "flush"
        /\ Then(p, Rest(p)) /\ queue' = Append(queue, Packet(p))
    BY <1>5 DEF Flush, At, sessionVars
  <2>2. Packet(p) \in Items \ {"complete", "activate"}
    BY <1>2, <2>1 DEF Packet, Plain, Items
  <2>3. QED
    BY <1>1, <1>2, <2>1, <2>2, Queues
<1>6. CASE Grace(p)
  <2>1. Then(p, Rest(p)) /\ finished' = TRUE /\ UNCHANGED <<channel, queue>>
    BY <1>6 DEF Grace, sessionVars
  <2>2. QED
    BY <1>1, <1>2, <2>1, Quiet
<1>7. CASE Wait(p)
  <2>1. finished /\ Then(p, Rest(p)) /\ UNCHANGED <<channel, queue, finished>>
    BY <1>7 DEF Wait, sessionVars, socketVars
  <2>2. QED
    BY <1>1, <1>2, <2>1, Quiet
<1>8. CASE Secure(p)
  <2>1. /\ Then(p, Rest(p)) /\ UNCHANGED <<queue, finished>> /\ Head(todo[p])[1] = "secure"
        /\ channel' = IF channel = "none" THEN "none" ELSE "failed"
    BY <1>8 DEF Secure, socketVars, At
  <2>2. finished
    <3>1. Head(todo[p]) = todo[p][1] /\ 1 \in 1 .. Len(todo[p])
      BY <1>1, <1>2, HeadTailProperties, LenProperties
    <3>2. ~Waits(todo[p])
      BY <2>1, <3>1 DEF Waits
    <3>3. QED
      BY <1>2, <3>2
  <2>3. QED
    BY <1>1, <1>2, <2>1, <2>2, Quiet
<1>9. CASE End(p)
  <2>1. Then(p, <<>>) /\ UNCHANGED <<channel, queue, finished>>
    BY <1>9 DEF End, sessionVars, socketVars
  <2>2. <<>> \in Seq(Plain) /\ Waits(<<>>)
    BY DEF Waits
  <2>3. QED
    BY <1>1, <2>1, <2>2, Quiet
<1>10. QED
  BY <1>3, <1>4, <1>5, <1>6, <1>7, <1>8, <1>9

\* The handlers of the reader.
LEMMA MoveStep == ASSUME SealInv, Move PROVE SealInv'
<1> DEFINE steps == todo["reader"]
           step == Head(steps)
           to == IF step[1] = "transition" THEN step[2] ELSE step[1]
<1>1. /\ steps # <<>> /\ "reader" \in Senders
      /\ step[1] \in {"begin", "completed", "authenticate", "securing", "error", "transition",
                      "prepare"}
      /\ UNCHANGED <<queue, wire, finished>>
  BY DEF Move, Transitions, socketVars, Senders
<1>2. \/ /\ gone /\ step[1] # "prepare" /\ UNCHANGED channel
         /\ \/ Then("reader", Rest("reader")) /\ step = <<"transition", "error">>
            \/ Then("reader", Ending("reader", TRUE))
      \/ /\ ~gone \/ step[1] = "prepare"
         /\ channel' = CASE to = "begin" -> "negotiating"
                         [] to = "prepare" /\ channel = "negotiating" -> "prepared"
                         [] OTHER -> channel
         /\ Then("reader", IF to = "prepare" /\ channel # "negotiating" THEN Refusing
                           ELSE Rest("reader"))
  BY DEF Move
<1>3. Ending("reader", TRUE) \in Seq(Plain) /\ Waits(Ending("reader", TRUE))
      /\ Refusing \in Seq(Plain) /\ Waits(Refusing)
  BY <1>1, Endings
<1>4. CASE steps \in Seq(Plain) /\ step \in Plain /\ Rest("reader") \in Seq(Plain)
           /\ (step[1] = "wait" \/ finished \/ Waits(Rest("reader")))
  <2>1. to \in {"securing", "error", "authenticate"} /\ step[1] # "wait" /\ step[1] # "prepare"
    BY <1>1, <1>4 DEF Plain
  <2>2. UNCHANGED channel
        /\ (Then("reader", Rest("reader")) \/ Then("reader", Ending("reader", TRUE)))
    BY <1>2, <2>1
  <2>3. QED
    BY <1>1, <1>3, <1>4, <2>1, <2>2, Quiet
<1>5. CASE steps \in Negotiation
  <2>1. steps \in {Beginning, Preparing, Completed}
    BY <1>1, <1>5, NegotiationHeads DEF Negotiation
  <2>2. CASE steps = Completed
    <3>1. step[1] = "completed" /\ Rest("reader") = <<>>
      BY <2>2, NegotiationHeads, NegotiationBegins DEF Rest
    <3>2. UNCHANGED channel /\ (Then("reader", <<>>) \/ Then("reader", Ending("reader", TRUE)))
      BY <1>2, <3>1
    <3>3. <<>> \in Seq(Plain) /\ Waits(<<>>)
      BY DEF Waits
    <3>4. QED
      BY <1>1, <1>3, <3>2, <3>3, Quiet
  <2>3. CASE steps = Preparing
    <3>1. step[1] = "prepare" /\ Rest("reader") = Completing
      BY <2>3, NegotiationHeads, NegotiationBegins DEF Rest
    <3>2. CASE channel # "negotiating"
      <4>1. UNCHANGED channel /\ Then("reader", Refusing)
        BY <1>2, <3>1, <3>2
      <4>2. QED
        BY <1>1, <1>3, <4>1, Quiet
    <3>3. CASE channel = "negotiating"
      <4>1. channel' = "prepared" /\ Then("reader", Completing)
        BY <1>2, <3>1, <3>3
      <4>2. /\ ~InQueue("activate") /\ queue \in Seq(Items) /\ CompletedFirst
            /\ finished \/ \A n \in 1 .. Len(wire) : ~wire[n][2]
        BY <3>3 DEF SealInv, Phases, SocketTypes, StaysReady
      <4>3. ~InQueue("activate")' /\ CompletedFirst'
        BY <1>1, <4>2 DEF InQueue, CompletedFirst
      <4>4. Completing \in Negotiation /\ Completing # Beginning
        BY NegotiationDiffers DEF Negotiation
      <4>5. queue' \in Seq(Items) /\ UNCHANGED <<wire, finished>>
        BY <1>1, <4>2
      <4>6. QED
        BY <3>3, <4>1, <4>2, <4>3, <4>4, <4>5, Negotiates
    <3>4. QED
      BY <3>2, <3>3
  <2>4. CASE steps = Beginning
    <3>1. step[1] = "begin" /\ Rest("reader") = <<<<"send", "params">>>> /\ channel = "none"
      BY <2>4, NegotiationHeads, NegotiationBegins DEF Rest, SealInv, Phases
    <3>2. step # <<"transition", "error">>
      BY <3>1
    <3>3. CASE UNCHANGED channel /\ Then("reader", Ending("reader", TRUE))
      BY <1>1, <1>3, <3>3, Quiet
    <3>4. CASE channel' = "negotiating" /\ Then("reader", <<<<"send", "params">>>>)
      <4>1. <<<<"send", "params">>>> \in Seq(Plain) /\ Waits(<<<<"send", "params">>>>)
        <5>1. PICK x : x = <<"send", "params">>
          OBVIOUS
        <5>2. x \in Plain /\ x[1] # "secure"
          BY <5>1 DEF Plain
        <5>3. <<x>> \in Seq(Plain) /\ Waits(<<x>>)
          BY <5>2, One DEF Waits
        <5>4. QED
          BY <5>1, <5>3
      <4>2. <<<<"send", "params">>>> \notin Negotiation
        BY <4>1, PlainApart
      <4>3. /\ todo'["reader"] = <<<<"send", "params">>>>
            /\ \A q \in Senders \ {"reader"} : todo'[q] = todo[q]
        BY <1>1, <3>4 DEF Then, SealInv, SocketTypes
      <4>4. SocketTypes'
        BY <1>1, <3>4, <4>1, <4>3 DEF Then, SealInv, SocketTypes, Senders
      <4>5. WaitsFirst'
        BY <1>1, <4>1, <4>3 DEF SealInv, WaitsFirst
      <4>6. ~InQueue("activate")
        BY <3>1 DEF SealInv, Phases
      <4>7. Phases'
        BY <1>1, <3>4, <4>2, <4>3, <4>6 DEF Phases, InQueue, Negotiation
      <4>8. CompletedFirst' /\ StaysReady' /\ SealedInOrder'
        BY <1>1, <3>1 DEF SealInv, CompletedFirst, StaysReady, SealedInOrder
      <4>9. QED
        BY <4>4, <4>5, <4>7, <4>8 DEF SealInv
    <3>5. QED
      BY <1>2, <3>1, <3>2, <3>3, <3>4
  <2>5. QED
    BY <2>1, <2>2, <2>3, <2>4
<1>6. QED
  BY <1>1, <1>4, <1>5, Next1

\* A packet, and the end of the read loop.
LEMMA ReadSteps == ASSUME SealInv, Receive \/ ReadError PROVE SealInv'
<1>1. /\ todo["reader"] = <<>> /\ "reader" \in Senders
      /\ UNCHANGED <<queue, wire, finished, channel>>
  BY DEF Receive, ReadError, Reading, socketVars, sessionVars, Senders
<1>2. \A told \in BOOLEAN :
        Ending("reader", told) \in Seq(Plain) /\ Waits(Ending("reader", told))
  BY <1>1, Endings
<1>3. Refusing \in Seq(Plain) /\ Waits(Refusing) /\ <<>> \in Seq(Plain) /\ Waits(<<>>)
  <2>1. <<>> \in Seq(Plain) /\ Waits(<<>>)
    BY DEF Waits
  <2>2. Refusing \in Seq(Plain) /\ Waits(Refusing)
    BY <1>1, Endings
  <2>3. QED
    BY <2>1, <2>2
<1>4. ASSUME NEW steps \in Seq(Plain), Then("reader", steps), Waits(steps) PROVE SealInv'
  BY <1>1, <1>4, Quiet
<1>5. CASE ReadError
  BY <1>2, <1>4, <1>5 DEF ReadError
<1>6. CASE Receive
  <2>1. PICK now : \/ Then("reader", <<>>) \/ Then("reader", Ending("reader", TRUE))
                   \/ Then("reader", Handle(Head(inbox)[1], now))
    BY <1>6 DEF Receive
  <2>2. CASE Then("reader", <<>>) \/ Then("reader", Ending("reader", TRUE))
    BY <1>2, <1>3, <1>4, <2>2
  <2>3. CASE Then("reader", Handle(Head(inbox)[1], now))
    <3>1. PICK steps : steps = Handle(Head(inbox)[1], now)
      OBVIOUS
    <3>2. /\ <<<<"begin", "">>, <<"send", "params">>>> = Beginning
          /\ <<<<"prepare", "">>>> \o DiffieComplete = Preparing
      <4>1. PICK x : x = <<"prepare", "">>
        OBVIOUS
      <4>2. PICK y : y = <<"send", "complete">>
        OBVIOUS
      <4>3. PICK z : z = <<"enqueue", "activate">>
        OBVIOUS
      <4>4. PICK u : u = <<"completed", "">>
        OBVIOUS
      <4>5. DiffieComplete = <<y, z, u>> /\ Preparing = <<x, y, z, u>>
        BY <4>1, <4>2, <4>3, <4>4, Zenon DEF DiffieComplete, Preparing
      <4>6. <<x>> \o <<y, z, u>> = <<x, y, z, u>>
        BY Before
      <4>7. QED
        BY <4>1, <4>5, <4>6 DEF Beginning
    <3>3. \/ steps = Beginning /\ channel = "none"
          \/ steps = Preparing
          \/ steps \in {<<<<"transition", "securing">>>> \o Refusing,
                        Refusing \o Ending("reader", TRUE),
                        <<<<"authenticate", "">>, <<"send", "data">>>>, <<>>, Ending("reader", TRUE)}
      BY <3>1, <3>2 DEF Handle
    <3>4. CASE steps = Beginning /\ channel = "none"
      <4>1. /\ steps \in Negotiation /\ steps # Completing /\ steps # Queueing /\ steps # Activating
        BY <3>4, NegotiationDiffers DEF Negotiation
      <4>2. ~InQueue("activate") /\ queue \in Seq(Items) /\ CompletedFirst
        BY <3>4 DEF SealInv, Phases, SocketTypes
      <4>3. ~InQueue("activate")' /\ CompletedFirst' /\ queue' \in Seq(Items)
        BY <1>1, <4>2 DEF InQueue, CompletedFirst
      <4>4. QED
        BY <1>1, <2>3, <3>1, <3>4, <4>1, <4>3, Negotiates
    <3>5. CASE steps = Preparing
      <4>1. /\ steps \in Negotiation /\ steps # Completing /\ steps # Queueing /\ steps # Activating
            /\ steps # Beginning
        BY <3>5, NegotiationDiffers DEF Negotiation
      <4>2. /\ channel \in {"none", "negotiating"} => ~InQueue("activate")
            /\ channel = "ready" => ~InQueue("complete")
            /\ queue \in Seq(Items) /\ CompletedFirst
            /\ channel \in {"none", "negotiating", "prepared", "ready", "failed"}
        BY DEF SealInv, Phases, SocketTypes
      <4>3. /\ channel' \in {"none", "negotiating"} => ~InQueue("activate")'
            /\ channel' = "ready" => ~InQueue("complete")'
            /\ CompletedFirst' /\ queue' \in Seq(Items)
        BY <1>1, <4>2 DEF InQueue, CompletedFirst
      <4>4. QED
        BY <1>1, <2>3, <3>1, <4>1, <4>2, <4>3, Negotiates
    <3>6. CASE steps \in {<<<<"transition", "securing">>>> \o Refusing,
                          Refusing \o Ending("reader", TRUE),
                          <<<<"authenticate", "">>, <<"send", "data">>>>, <<>>,
                          Ending("reader", TRUE)}
      <4>1. PICK x : x = <<"transition", "securing">>
        OBVIOUS
      <4>2. x \in Plain /\ x[1] # "secure"
        BY <4>1 DEF Plain
      <4>3. <<x>> \in Seq(Plain) /\ Waits(<<x>>)
        BY <4>2, One DEF Waits
      <4>4. <<x>> \o Refusing \in Seq(Plain) /\ Waits(<<x>> \o Refusing)
        BY <1>3, <4>3, WaitsConcat
      <4>5. Refusing \o Ending("reader", TRUE) \in Seq(Plain)
            /\ Waits(Refusing \o Ending("reader", TRUE))
        BY <1>2, <1>3, WaitsConcat
      <4>6. PICK y : y = <<"authenticate", "">>
        OBVIOUS
      <4>7. PICK z : z = <<"send", "data">>
        OBVIOUS
      <4>8. y \in Plain /\ z \in Plain /\ y[1] # "secure" /\ z[1] # "secure"
        BY <4>6, <4>7 DEF Plain
      <4>9. <<y, z>> \in Seq(Plain) /\ Waits(<<y, z>>)
        <5>1. \A j \in 1 .. Len(<<y, z>>) : <<y, z>>[j] = y \/ <<y, z>>[j] = z
          OBVIOUS
        <5>2. QED
          BY <4>8, <5>1, Two DEF Waits
      <4>10. steps \in Seq(Plain) /\ Waits(steps)
        BY <1>2, <1>3, <3>6, <4>1, <4>4, <4>5, <4>6, <4>7, <4>9
      <4>11. QED
        BY <1>4, <2>3, <3>1, <4>10
    <3>7. QED
      BY <3>3, <3>4, <3>5, <3>6
  <2>4. QED
    BY <2>1, <2>2, <2>3
<1>7. QED
  BY <1>5, <1>6

\* The heartbeat and other goroutines begin something.
LEMMA OtherSenders == ASSUME SealInv, Beat \/ Others PROVE SealInv'
<1>1. UNCHANGED <<queue, wire, finished, channel>> /\ "heart" \in Senders /\ "other" \in Senders
  BY DEF Beat, Others, socketVars, sessionVars, Senders
<1>2. ASSUME NEW p \in Senders, NEW steps \in Seq(Plain), Then(p, steps), Waits(steps)
      PROVE  SealInv'
  BY <1>1, <1>2, Quiet
<1>3. \A x \in Plain : x[1] # "secure" => <<x>> \in Seq(Plain) /\ Waits(<<x>>)
  BY One DEF Waits
<1>4. CASE Beat
  <2>1. PICK x : x = <<"send", "ping">>
    OBVIOUS
  <2>2. x \in Plain /\ x[1] # "secure"
    BY <2>1 DEF Plain
  <2>3. Then("heart", <<x>>) \/ Then("heart", Ending("heart", TRUE))
    BY <1>4, <2>1 DEF Beat
  <2>4. QED
    BY <1>1, <1>2, <1>3, <2>2, <2>3, Endings
<1>5. CASE Others
  <2>1. PICK x : x = <<"send", "data">>
    OBVIOUS
  <2>2. x \in Plain /\ x[1] # "secure"
    BY <2>1 DEF Plain
  <2>3. Then("other", <<x>>) \/ Then("other", Disconnecting("other", TRUE))
    BY <1>5, <2>1 DEF Others
  <2>4. QED
    BY <1>1, <1>2, <1>3, <2>2, <2>3, Endings
<1>6. QED
  BY <1>4, <1>5

\* Writing.
LEMMA WriteStep == ASSUME SealInv, Write PROVE SealInv'
<1> DEFINE item == Head(queue)
<1>1. queue # <<>> /\ queue' = Tail(queue) /\ UNCHANGED todo
  BY DEF Write
<1>2. \/ /\ item \notin {"activate", "close"} /\ ~finished
         /\ wire' = Append(wire, <<item, channel = "ready">>) /\ UNCHANGED <<channel, finished>>
      \/ /\ item = "activate" /\ channel = "prepared" /\ channel' = "ready"
         /\ UNCHANGED <<wire, finished>>
      \/ finished' = TRUE /\ UNCHANGED <<wire, channel>>
  BY DEF Write, WriterEnds
<1>3. /\ queue \in Seq(Items) /\ queue' \in Seq(Items) /\ item = queue[1]
      /\ Len(queue) \in Nat /\ Len(queue) > 0 /\ Len(queue') = Len(queue) - 1
      /\ item \in Items
      /\ \A i \in 1 .. Len(queue') : queue'[i] = queue[i + 1]
  BY <1>1, HeadTailProperties, LenProperties DEF SealInv, SocketTypes
<1>4. \A i \in 1 .. Len(queue') : i + 1 \in 1 .. Len(queue)
  BY <1>3
<1>5. \A other : InQueue(other)' => InQueue(other)
  BY <1>3, <1>4 DEF InQueue
<1>6. CompletedFirst'
  <2> SUFFICES ASSUME NEW i \in 1 .. Len(queue'), NEW j \in 1 .. Len(queue'),
                      queue'[i] = "activate", queue'[j] = "complete"
               PROVE  j < i
    BY DEF CompletedFirst
  <2>1. i + 1 \in 1 .. Len(queue) /\ j + 1 \in 1 .. Len(queue)
        /\ queue[i + 1] = "activate" /\ queue[j + 1] = "complete"
    BY <1>3, <1>4
  <2>2. j + 1 < i + 1
    BY <2>1 DEF SealInv, CompletedFirst
  <2>3. QED
    BY <2>2
<1>7. InQueue(item)
  BY <1>3 DEF InQueue
<1>8. CASE /\ item \notin {"activate", "close"} /\ ~finished
           /\ wire' = Append(wire, <<item, channel = "ready">>) /\ UNCHANGED <<channel, finished>>
  <2> DEFINE frame == <<item, channel = "ready">>
  <2>1. /\ wire \in Seq(Items \X BOOLEAN) /\ Len(wire) \in Nat /\ frame \in Items \X BOOLEAN
    BY <1>3, LenProperties DEF SealInv, SocketTypes
  <2>2. /\ wire' \in Seq(Items \X BOOLEAN) /\ Len(wire') = Len(wire) + 1
        /\ \A i \in 1 .. Len(wire) : wire'[i] = wire[i]
        /\ wire'[Len(wire) + 1] = frame
    BY <1>8, <2>1, AppendProperties
  <2>3. frame[1] = item /\ (frame[2] <=> channel = "ready")
    OBVIOUS
  <2>4. SocketTypes' /\ WaitsFirst'
    BY <1>1, <1>3, <1>8, <2>2 DEF SealInv, SocketTypes, WaitsFirst
  <2>5. Phases'
    BY <1>1, <1>5, <1>8 DEF SealInv, Phases
  <2>6. \A i \in 1 .. Len(wire') : i \in 1 .. Len(wire) \/ i = Len(wire) + 1
    BY <2>1, <2>2
  <2>7. \A n \in 1 .. Len(wire) : wire[n][2] => channel = "ready"
    BY <1>8 DEF SealInv, StaysReady
  <2>8. StaysReady'
    BY <1>8, <2>2, <2>3, <2>6, <2>7 DEF StaysReady
  <2>9. ASSUME NEW i \in 1 .. Len(wire'), wire'[i][1] = "complete" PROVE ~wire'[i][2]
    <3>1. CASE i \in 1 .. Len(wire)
      BY <2>2, <2>9, <3>1 DEF SealInv, SealedInOrder
    <3>2. CASE i = Len(wire) + 1
      <4>1. item = "complete"
        BY <2>2, <2>3, <2>9, <3>2
      <4>2. channel # "ready"
        BY <1>7, <4>1 DEF SealInv, Phases
      <4>3. QED
        BY <2>2, <2>3, <3>2, <4>2
    <3>3. QED
      BY <2>6, <3>1, <3>2
  <2>10. ASSUME NEW i \in 1 .. Len(wire'), NEW n \in 1 .. Len(wire'), i < n, wire'[i][2]
         PROVE  wire'[n][2]
    <3>1. i \in 1 .. Len(wire)
      BY <2>1, <2>2, <2>10
    <3>2. wire[i][2]
      BY <2>2, <2>10, <3>1
    <3>3. CASE n \in 1 .. Len(wire)
      BY <2>2, <2>10, <3>1, <3>2, <3>3 DEF SealInv, SealedInOrder
    <3>4. CASE n = Len(wire) + 1
      BY <2>2, <2>3, <2>7, <3>1, <3>2, <3>4
    <3>5. QED
      BY <2>6, <3>3, <3>4
  <2>11. SealedInOrder'
    BY <2>9, <2>10 DEF SealedInOrder
  <2>12. QED
    BY <1>6, <2>4, <2>5, <2>8, <2>11 DEF SealInv
<1>9. CASE /\ item = "activate" /\ channel = "prepared" /\ channel' = "ready"
           /\ UNCHANGED <<wire, finished>>
  <2>1. SocketTypes' /\ WaitsFirst'
    BY <1>1, <1>3, <1>9 DEF SealInv, SocketTypes, WaitsFirst
  <2>2. ~InQueue("complete")'
    <3> SUFFICES ASSUME NEW j \in 1 .. Len(queue'), queue'[j] = "complete" PROVE FALSE
      BY DEF InQueue
    <3>1. j + 1 \in 1 .. Len(queue) /\ queue[j + 1] = "complete" /\ 1 \in 1 .. Len(queue)
      BY <1>3, <1>4
    <3>2. j + 1 < 1
      BY <1>3, <1>9, <3>1 DEF SealInv, CompletedFirst
    <3>3. QED
      BY <3>2
  <2>3. todo["reader"] \notin {Completing, Queueing} /\ todo["reader"] # Beginning
    BY <1>7, <1>9 DEF SealInv, Phases
  <2>4. Phases'
    BY <1>1, <1>9, <2>2, <2>3 DEF Phases
  <2>5. StaysReady' /\ SealedInOrder'
    BY <1>9 DEF SealInv, StaysReady, SealedInOrder
  <2>6. QED
    BY <1>6, <2>1, <2>4, <2>5 DEF SealInv
<1>10. CASE finished' = TRUE /\ UNCHANGED <<wire, channel>>
  <2>1. SocketTypes' /\ WaitsFirst'
    BY <1>1, <1>3, <1>10 DEF SealInv, SocketTypes, WaitsFirst
  <2>2. Phases'
    BY <1>1, <1>5, <1>10 DEF SealInv, Phases
  <2>3. StaysReady' /\ SealedInOrder'
    BY <1>10 DEF SealInv, StaysReady, SealedInOrder
  <2>4. QED
    BY <1>6, <2>1, <2>2, <2>3 DEF SealInv
<1>11. QED
  BY <1>2, <1>8, <1>9, <1>10

\* One step of anybody.
LEMMA SocketStep == ASSUME SealInv, [SocketNext]_socket PROVE SealInv'
<1>1. CASE Move \/ Receive \/ ReadError \/ Beat \/ Others \/ Write
  BY <1>1, MoveStep, ReadSteps, OtherSenders, WriteStep
<1>2. CASE HeartStops \/ WriterStops \/ Hear \/ Speak \/ UNCHANGED socket
  <2>1. UNCHANGED <<todo, queue, wire, channel, finished>>
    BY <1>2 DEF HeartStops, WriterStops, Hear, Speak, socket, sessionVars, socketVars
  <2>2. QED
    BY <2>1, Still
<1>3. ASSUME NEW p \in Senders, Goroutine(p) PROVE SealInv'
  BY <1>3, SendStep, EnqueueStep, DisposeSteps DEF Goroutine
<1>4. QED
  BY <1>1, <1>2, <1>3 DEF SocketNext, Server

\* Whatever a client sends and whoever disposes of the connection when: the completion of the
\* handshake is written plain, and after the first sealed frame no plain one is (CompleteSecurity,
\* handleWrite, Session.Disconnect).
THEOREM FramesStayInOrder == SocketInit /\ [][SocketNext]_socket => []SealedInOrder
<1>1. SocketInit => SealInv
  <2> SUFFICES ASSUME SocketInit PROVE SealInv
    OBVIOUS
  <2>1. /\ todo = [p \in Senders |-> <<>>] /\ queue = <<>> /\ wire = <<>> /\ channel = "none"
        /\ finished = FALSE
    BY DEF SocketInit
  <2>2. <<>> \in Seq(Plain) /\ Waits(<<>>) /\ <<>> \notin Negotiation
    <3>1. <<>> \in Seq(Plain) /\ Waits(<<>>)
      BY DEF Waits
    <3>2. QED
      BY <3>1, PlainApart
  <2>3. SocketTypes /\ WaitsFirst
    <3>1. PICK empty \in Seq(Plain) : empty = <<>>
      BY <2>2
    <3>2. todo \in [Senders -> Seq(Plain) \union Negotiation] /\ \A p \in Senders : todo[p] = empty
      BY <2>1, <3>1
    <3>3. queue \in Seq(Items) /\ wire \in Seq(Items \X BOOLEAN)
      BY <2>1
    <3>4. \A p \in Senders : todo[p] \in Seq(Plain) /\ Waits(todo[p])
      BY <2>2, <3>1, <3>2
    <3>5. "heart" \in Senders /\ "other" \in Senders
      BY DEF Senders
    <3>6. SocketTypes
      BY <2>1, <3>2, <3>3, <3>4, <3>5 DEF SocketTypes
    <3>7. QED
      BY <3>4, <3>6 DEF WaitsFirst
  <2>4. Phases
    BY <2>1, <2>2 DEF Phases, InQueue, Senders, Negotiation
  <2>5. CompletedFirst /\ StaysReady /\ SealedInOrder
    BY <2>1 DEF CompletedFirst, StaysReady, SealedInOrder
  <2>6. QED
    BY <2>3, <2>4, <2>5 DEF SealInv
<1>2. SealInv /\ [SocketNext]_socket => SealInv'
  BY SocketStep
<1>3. SealInv => SealedInOrder
  BY DEF SealInv
<1>4. QED
  BY <1>1, <1>2, <1>3, PTL

-----------------------------------------------------------------------------
(***************************************************************************)
(* The world of a room.                                                    *)
(***************************************************************************)
Controls == {"none", "exiting", "teleporting", "frozen"}
Seens == UNION {[looked -> Nat] : looked \in SUBSET Tiles}
Bodies ==
    [at : Tiles, steps : Seq(Tiles), settling : BOOLEAN, control : Controls, seen : Seens]
Worlds ==
    [unit : UNION {[present -> Bodies] : present \in SUBSET Units},
     seat : UNION {[seated -> Tiles] : seated \in SUBSET Units},
     sitter : UNION {[taken -> Units] : taken \in SUBSET Tiles},
     rides : SUBSET (Players \X Pets)]
Walks == [step : {"apply"}, path : Seq(Tiles), seen : Seens, control : Controls]

\* A path keeps off what is in the way, as long as no column changed that was read
\* to find it; its own columns were read.
Walkable(steps) ==
    \A i \in 1 .. Len(steps) :
        tile[steps[i]] = "open" \/ (tile[steps[i]] = "seat" /\ i = Len(steps))
Routed(steps, seen) ==
    /\ \A i \in 1 .. Len(steps) : steps[i] \in DOMAIN seen
    /\ \A t \in DOMAIN seen : seen[t] <= version[t]
    /\ Valid(seen) => Walkable(steps)

\* The parts of the invariant that are about a world.
Planned(w) == \A u \in Present(w) : Routed(w.unit[u].steps, w.unit[u].seen)
\* A unit rides one other at most.
Paired(w) ==
    \A q, r \in w.rides : {q[1], q[2]} \intersect {r[1], r[2]} # {} => q = r
Together(w) ==
    \A r \in w.rides :
        /\ r[1] \in Present(w) /\ r[2] \in Present(w)
        /\ w.unit[r[1]] = w.unit[r[2]]
Sits(w, t) ==
    LET u == w.sitter[t] IN
    /\ tile[t] = "seat" /\ u \in Present(w)
    /\ w.unit[u].at = t /\ ~InMotion(w.unit[u])
    /\ u \in DOMAIN w.seat /\ w.seat[u] = t
Sitting(w) == \A t \in DOMAIN w.sitter : Sits(w, t)
Kept(w) == w \in Worlds /\ Planned(w) /\ Paired(w) /\ Together(w) /\ Sitting(w)

SurfaceFits == tile \in [Tiles -> {"open", "seat", "blocked"}] /\ version \in [Tiles -> Nat]
PlansFit ==
    /\ job \in [Players -> {Idle, [step |-> "miss"], [step |-> "face"]} \union Walks]
    /\ DOMAIN kick \subseteq Units /\ \A u \in DOMAIN kick : kick[u] \in Walks
    /\ \A u \in Players : job[u].step = "apply" => Routed(job[u].path, job[u].seen)
    /\ \A u \in DOMAIN kick : Routed(kick[u].path, kick[u].seen)

WorldInv == SurfaceFits /\ PlansFit /\ Kept(world)
-----------------------------------------------------------------------------
(***************************************************************************)
(* The operations of the world, record by record.                          *)
(***************************************************************************)
\* The parts of a world have their types.
LEMMA WorldParts ==
    ASSUME NEW w \in Worlds
    PROVE  /\ w.unit \in [Present(w) -> Bodies] /\ Present(w) \subseteq Units
           /\ w.seat \in [DOMAIN w.seat -> Tiles] /\ DOMAIN w.seat \subseteq Units
           /\ w.sitter \in [DOMAIN w.sitter -> Units] /\ DOMAIN w.sitter \subseteq Tiles
           /\ w.rides \subseteq Players \X Pets
<1>1. /\ w.unit \in UNION {[present -> Bodies] : present \in SUBSET Units}
      /\ w.seat \in UNION {[seated -> Tiles] : seated \in SUBSET Units}
      /\ w.sitter \in UNION {[taken -> Units] : taken \in SUBSET Tiles}
      /\ w.rides \subseteq Players \X Pets
  BY DEF Worlds
<1>2. PICK present \in SUBSET Units : w.unit \in [present -> Bodies]
  BY <1>1
<1>3. PICK seated \in SUBSET Units : w.seat \in [seated -> Tiles]
  BY <1>1
<1>4. PICK taken \in SUBSET Tiles : w.sitter \in [taken -> Units]
  BY <1>1
<1>5. DOMAIN w.unit = present /\ DOMAIN w.seat = seated /\ DOMAIN w.sitter = taken
  BY <1>2, <1>3, <1>4
<1>6. QED
  BY <1>1, <1>2, <1>3, <1>4, <1>5 DEF Present

\* Some units change.
LEMMA Updates ==
    ASSUME NEW w \in Worlds, NEW S, NEW F, \A u \in S \intersect Present(w) : F[u] \in Bodies
    PROVE  /\ Update(w, S, F) \in Worlds /\ Present(Update(w, S, F)) = Present(w)
           /\ \A u \in Present(w) :
                 Update(w, S, F).unit[u] = IF u \in S THEN F[u] ELSE w.unit[u]
           /\ Update(w, S, F).seat = w.seat /\ Update(w, S, F).sitter = w.sitter
           /\ Update(w, S, F).rides = w.rides
<1> DEFINE units == [u \in Present(w) |-> IF u \in S THEN F[u] ELSE w.unit[u]]
<1>1. units \in [Present(w) -> Bodies] /\ Present(w) \in SUBSET Units
  BY WorldParts
<1>2. /\ DOMAIN units = Present(w)
      /\ \A u \in Present(w) : units[u] = IF u \in S THEN F[u] ELSE w.unit[u]
  OBVIOUS
<1>3. Update(w, S, F) = [w EXCEPT !.unit = units]
  BY DEF Update
<1> HIDE DEF units
<1>4. units \in UNION {[present -> Bodies] : present \in SUBSET Units}
  BY <1>1
<1>5. /\ Update(w, S, F) \in Worlds /\ Update(w, S, F).unit = units
      /\ Update(w, S, F).seat = w.seat /\ Update(w, S, F).sitter = w.sitter
      /\ Update(w, S, F).rides = w.rides
  BY <1>3, <1>4 DEF Worlds
<1>6. QED
  BY <1>2, <1>5 DEF Present

\* Some units leave their slots.
LEMMA Releases ==
    ASSUME NEW w \in Worlds, NEW S
    PROVE  /\ ReleaseAll(w, S) \in Worlds /\ ReleaseAll(w, S).unit = w.unit
           /\ ReleaseAll(w, S).rides = w.rides
           /\ DOMAIN ReleaseAll(w, S).seat = DOMAIN w.seat \ S
           /\ \A u \in DOMAIN w.seat \ S : ReleaseAll(w, S).seat[u] = w.seat[u]
           /\ DOMAIN ReleaseAll(w, S).sitter =
                 {t \in DOMAIN w.sitter : \A u \in S \intersect DOMAIN w.seat : w.seat[u] # t}
           /\ \A t \in DOMAIN ReleaseAll(w, S).sitter :
                 ReleaseAll(w, S).sitter[t] = w.sitter[t]
<1> DEFINE slots == {w.seat[u] : u \in S \intersect DOMAIN w.seat}
           seats == [u \in DOMAIN w.seat \ S |-> w.seat[u]]
           sitters == [t \in DOMAIN w.sitter \ slots |-> w.sitter[t]]
<1>1. /\ seats \in [DOMAIN w.seat \ S -> Tiles] /\ DOMAIN w.seat \ S \in SUBSET Units
      /\ sitters \in [DOMAIN w.sitter \ slots -> Units]
      /\ DOMAIN w.sitter \ slots \in SUBSET Tiles
  BY WorldParts
<1>2. ReleaseAll(w, S) = [w EXCEPT !.seat = seats, !.sitter = sitters]
  BY DEF ReleaseAll, Restrict
<1>3. /\ \A t \in DOMAIN sitters : sitters[t] = w.sitter[t]
      /\ \A u \in DOMAIN w.seat \ S : seats[u] = w.seat[u]
      /\ DOMAIN seats = DOMAIN w.seat \ S /\ DOMAIN sitters = DOMAIN w.sitter \ slots
  OBVIOUS
<1>4. DOMAIN w.sitter \ slots =
          {t \in DOMAIN w.sitter : \A u \in S \intersect DOMAIN w.seat : w.seat[u] # t}
  OBVIOUS
<1> HIDE DEF seats, sitters, slots
<1>5. /\ seats \in UNION {[seated -> Tiles] : seated \in SUBSET Units}
      /\ sitters \in UNION {[taken -> Units] : taken \in SUBSET Tiles}
  BY <1>1
<1>6. /\ ReleaseAll(w, S) \in Worlds /\ ReleaseAll(w, S).unit = w.unit
      /\ ReleaseAll(w, S).rides = w.rides /\ ReleaseAll(w, S).seat = seats
      /\ ReleaseAll(w, S).sitter = sitters
  BY <1>2, <1>5 DEF Worlds
<1>7. QED
  BY <1>3, <1>4, <1>6

\* Bodies and what commands make of them.
LEMMA BodiesChange ==
    ASSUME NEW x \in Bodies, NEW t \in Tiles, NEW c \in Controls
    PROVE  /\ Stopped(x) \in Bodies /\ Cleared(x) \in Bodies /\ Controlled(x, c) \in Bodies
           /\ Repositioned(x, t, c) \in Bodies /\ Standing(t) \in Bodies
           /\ [Stopped(x) EXCEPT !.control = c] \in Bodies
<1>1. <<>> \in Seq(Tiles)
  OBVIOUS
<1>2. <<>> \in Seens
  <2>1. <<>> \in [{} -> Nat]
    OBVIOUS
  <2>2. QED
    BY <2>1 DEF Seens
<1>3. /\ Cleared(x) \in Bodies
      /\ [x EXCEPT !.steps = <<>>, !.settling = TRUE, !.seen = <<>>] \in Bodies
      /\ Standing(t) \in Bodies
  BY <1>1, <1>2 DEF Cleared, Bodies, Standing, Controls
<1>4. Stopped(x) \in Bodies
  BY <1>3 DEF Stopped
<1>5. \A y \in Bodies : [y EXCEPT !.control = c] \in Bodies /\ [y EXCEPT !.at = t] \in Bodies
  BY DEF Bodies
<1>6. QED
  BY <1>3, <1>4, <1>5 DEF Controlled, Repositioned
\* What commands leave of a body.
LEMMA BodiesRest ==
    ASSUME NEW x \in Bodies, NEW t \in Tiles, NEW c \in Controls
    PROVE  /\ Cleared(x).at = x.at /\ Cleared(x).steps = <<>> /\ Cleared(x).seen = <<>>
           /\ ~InMotion(Cleared(x))
           /\ Controlled(x, c).at = x.at /\ Controlled(x, c).steps = <<>>
           /\ Controlled(x, c).seen = <<>> /\ ~InMotion(Controlled(x, c))
           /\ Repositioned(x, t, c).steps = <<>> /\ Repositioned(x, t, c).seen = <<>>
           /\ IF InMotion(x) THEN Stopped(x).steps = <<>> /\ Stopped(x).seen = <<>>
              ELSE Stopped(x) = x
           /\ Standing(t).steps = <<>> /\ Standing(t).seen = <<>>
<1>1. \A y \in Bodies :
        /\ [y EXCEPT !.control = c].at = y.at /\ [y EXCEPT !.control = c].steps = y.steps
        /\ [y EXCEPT !.control = c].seen = y.seen
        /\ [y EXCEPT !.control = c].settling = y.settling
        /\ [y EXCEPT !.at = t].steps = y.steps /\ [y EXCEPT !.at = t].seen = y.seen
  BY DEF Bodies
<1>2. /\ Cleared(x).at = x.at /\ Cleared(x).steps = <<>> /\ Cleared(x).seen = <<>>
      /\ Cleared(x).settling = FALSE
  BY DEF Cleared, Bodies
<1>3. Cleared(x) \in Bodies /\ Controlled(x, c) \in Bodies
  BY BodiesChange
<1>4. /\ Controlled(x, c).at = x.at /\ Controlled(x, c).steps = <<>>
      /\ Controlled(x, c).seen = <<>> /\ Controlled(x, c).settling = FALSE
  BY <1>1, <1>2, <1>3 DEF Controlled
<1>5. Repositioned(x, t, c).steps = <<>> /\ Repositioned(x, t, c).seen = <<>>
  BY <1>1, <1>3, <1>4 DEF Repositioned
<1>6. IF InMotion(x) THEN Stopped(x).steps = <<>> /\ Stopped(x).seen = <<>>
      ELSE Stopped(x) = x
  BY DEF Stopped, Bodies
<1>7. Standing(t).steps = <<>> /\ Standing(t).seen = <<>>
  BY DEF Standing
<1>8. ~InMotion(Cleared(x)) /\ ~InMotion(Controlled(x, c))
  BY <1>2, <1>4 DEF InMotion
<1>9. QED
  BY <1>2, <1>4, <1>5, <1>6, <1>7, <1>8

\* No path leads along no obstacle.
LEMMA RestRouted == Routed(<<>>, <<>>)
<1>1. Len(<<>>) = 0 /\ DOMAIN <<>> = {}
  OBVIOUS
<1>2. QED
  BY <1>1 DEF Routed, Walkable

\* A unit and the one it moves with change together.
LEMMA LinkedTogether ==
    ASSUME NEW w, Kept(w), NEW u \in Present(w)
    PROVE  /\ u \in Linked(w, u) /\ Linked(w, u) \subseteq Present(w)
           /\ \A v \in Linked(w, u) : w.unit[v] = w.unit[u]
           /\ \A r \in w.rides : r[1] \in Linked(w, u) <=> r[2] \in Linked(w, u)
           /\ \A r \in w.rides : r[1] \in Linked(w, u) => u = r[1] \/ u = r[2]
<1>1. \A r \in w.rides : r = <<r[1], r[2]>>
  BY WorldParts DEF Kept
<1>2. \A v \in Linked(w, u) : v = u \/ <<u, v>> \in w.rides \/ <<v, u>> \in w.rides
  BY DEF Linked
<1>3. \A r \in w.rides : r[1] = u => r[2] \in Linked(w, u)
  BY <1>1 DEF Linked, Kept, Together
<1>4. \A r \in w.rides : r[2] = u => r[1] \in Linked(w, u)
  BY <1>1 DEF Linked, Kept, Together
<1>5. ASSUME NEW v \in Linked(w, u) PROVE v \in Present(w) /\ w.unit[v] = w.unit[u]
  <2>1. CASE <<u, v>> \in w.rides
    BY <2>1 DEF Kept, Together
  <2>2. CASE <<v, u>> \in w.rides
    BY <2>2 DEF Kept, Together
  <2>3. QED
    BY <1>2, <2>1, <2>2
<1>6. u \in Linked(w, u)
  BY DEF Linked
<1>7. ASSUME NEW r \in w.rides, r[1] \in Linked(w, u) \/ r[2] \in Linked(w, u)
      PROVE  u = r[1] \/ u = r[2]
  <2>1. PICK v \in {r[1], r[2]} : v \in Linked(w, u)
    BY <1>7
  <2>2. CASE v = u
    BY <2>1, <2>2
  <2>3. CASE <<u, v>> \in w.rides
    <3>1. <<u, v>> = r
      BY <2>1, <2>3 DEF Kept, Paired
    <3>2. QED
      BY <3>1
  <2>4. CASE <<v, u>> \in w.rides
    <3>1. <<v, u>> = r
      BY <2>1, <2>4 DEF Kept, Paired
    <3>2. QED
      BY <3>1
  <2>5. QED
    BY <1>2, <2>1, <2>2, <2>3, <2>4
<1>8. QED
  BY <1>3, <1>4, <1>5, <1>6, <1>7

\* Riders and mounts that change alike, and sitters that stay, keep the world.
LEMMA UpdatesKeep ==
    ASSUME NEW w, Kept(w), NEW S, NEW F,
           \A u \in S \intersect Present(w) : F[u] \in Bodies /\ Routed(F[u].steps, F[u].seen),
           \A r \in w.rides : r[1] \in S <=> r[2] \in S,
           \A r \in w.rides : r[1] \in S => F[r[1]] = F[r[2]],
           \A t \in DOMAIN w.sitter : w.sitter[t] \in S =>
              F[w.sitter[t]].at = t /\ ~InMotion(F[w.sitter[t]])
    PROVE  Kept(Update(w, S, F))
<1> DEFINE new == Update(w, S, F)
<1>1. /\ new \in Worlds /\ Present(new) = Present(w) /\ new.seat = w.seat
      /\ new.sitter = w.sitter /\ new.rides = w.rides
      /\ \A u \in Present(w) : new.unit[u] = IF u \in S THEN F[u] ELSE w.unit[u]
  BY Updates DEF Kept
<1> HIDE DEF new
<1>2. Planned(new)
  BY <1>1 DEF Kept, Planned
<1>3. Paired(new)
  BY <1>1 DEF Kept, Paired
<1>4. Together(new)
  BY <1>1 DEF Kept, Together
<1>5. Sitting(new)
  BY <1>1 DEF Kept, Sitting, Sits
<1>6. QED
  BY <1>1, <1>2, <1>3, <1>4, <1>5 DEF Kept, new

\* Slots are left by those who do not sit there any more, and by others.
LEMMA LeaversRelease ==
    ASSUME NEW w \in Worlds, Planned(w), Paired(w), Together(w), NEW S,
           \A t \in DOMAIN w.sitter :
              /\ w.sitter[t] \in DOMAIN w.seat /\ w.seat[w.sitter[t]] = t
              /\ w.sitter[t] \notin S => Sits(w, t)
    PROVE  /\ Kept(ReleaseAll(w, S))
           /\ \A t \in DOMAIN ReleaseAll(w, S).sitter : ReleaseAll(w, S).sitter[t] \notin S
<1> DEFINE new == ReleaseAll(w, S)
<1>1. /\ new \in Worlds /\ new.unit = w.unit /\ new.rides = w.rides
      /\ DOMAIN new.seat = DOMAIN w.seat \ S
      /\ \A u \in DOMAIN w.seat \ S : new.seat[u] = w.seat[u]
      /\ DOMAIN new.sitter =
            {t \in DOMAIN w.sitter : \A u \in S \intersect DOMAIN w.seat : w.seat[u] # t}
      /\ \A t \in DOMAIN new.sitter : new.sitter[t] = w.sitter[t]
  BY Releases
<1> HIDE DEF new
<1>2. Planned(new) /\ Paired(new) /\ Together(new)
  BY <1>1 DEF Planned, Paired, Together, Present
<1>3. ASSUME NEW t \in DOMAIN new.sitter PROVE Sits(new, t) /\ new.sitter[t] \notin S
  <2>1. new.sitter[t] = w.sitter[t] /\ w.sitter[t] \notin S
    BY <1>1, <1>3
  <2>2. Sits(w, t)
    BY <1>1, <1>3, <2>1
  <2>3. QED
    BY <1>1, <2>1, <2>2 DEF Sits, Present
<1>4. QED
  BY <1>1, <1>2, <1>3 DEF Kept, Sitting, new

\* Whoever leaves a slot is nobody's sitter any more.
LEMMA ReleasesKeep ==
    ASSUME NEW w, Kept(w), NEW S
    PROVE  /\ Kept(ReleaseAll(w, S))
           /\ \A t \in DOMAIN ReleaseAll(w, S).sitter : ReleaseAll(w, S).sitter[t] \notin S
<1>1. \A t \in DOMAIN w.sitter :
        /\ w.sitter[t] \in DOMAIN w.seat /\ w.seat[w.sitter[t]] = t
        /\ w.sitter[t] \notin S => Sits(w, t)
  BY DEF Kept, Sitting, Sits
<1>2. QED
  BY <1>1, LeaversRelease DEF Kept

-----------------------------------------------------------------------------
(***************************************************************************)
(* What commands do to the world.                                          *)
(***************************************************************************)
\* A unit keeps its path, has none, or one that nothing outdates yet.
Steady(old, new) ==
    \A u \in Present(old) \intersect Present(new) :
        \/ new.unit[u] = old.unit[u] \/ new.unit[u].seen = <<>>
        \/ Valid(new.unit[u].seen) \/ old.unit[u].steps = <<>>
Handled(old, new) == Kept(new) /\ Steady(old, new)

\* A unit and the one it moves with rest or keep what they do.
LEMMA LinkedUpdates ==
    ASSUME NEW w, Kept(w), NEW u \in Present(w), NEW F,
           \A v \in Linked(w, u) :
              /\ F[v] \in Bodies /\ F[v] = F[u]
              /\ F[v] = w.unit[v] \/ (F[v].steps = <<>> /\ F[v].seen = <<>>)
              /\ ~InMotion(w.unit[v]) => F[v].at = w.unit[v].at /\ ~InMotion(F[v])
    PROVE  Handled(w, Update(w, Linked(w, u), F))
<1>1. /\ u \in Linked(w, u) /\ Linked(w, u) \subseteq Present(w)
      /\ \A r \in w.rides : r[1] \in Linked(w, u) <=> r[2] \in Linked(w, u)
  BY LinkedTogether
<1>2. \A v \in Linked(w, u) : Routed(F[v].steps, F[v].seen)
  BY <1>1, RestRouted DEF Kept, Planned
<1>3. \A r \in w.rides : r[1] \in Linked(w, u) => F[r[1]] = F[r[2]]
  BY <1>1
<1>4. \A t \in DOMAIN w.sitter : w.sitter[t] \in Linked(w, u) =>
        F[w.sitter[t]].at = t /\ ~InMotion(F[w.sitter[t]])
  BY DEF Kept, Sitting, Sits
<1>5. Kept(Update(w, Linked(w, u), F))
  BY <1>1, <1>2, <1>3, <1>4, UpdatesKeep
<1>6. /\ Present(Update(w, Linked(w, u), F)) = Present(w)
      /\ \A v \in Present(w) : Update(w, Linked(w, u), F).unit[v]
            = IF v \in Linked(w, u) THEN F[v] ELSE w.unit[v]
  BY Updates DEF Kept
<1>7. Steady(w, Update(w, Linked(w, u), F))
  BY <1>6 DEF Steady
<1>8. QED
  BY <1>5, <1>7 DEF Handled

\* Stopping.
LEMMA StopHandled ==
    ASSUME NEW w, Kept(w), NEW u \in Present(w)
    PROVE  Handled(w, Stop(w, u))
<1> DEFINE F == [v \in Linked(w, u) |-> Stopped(w.unit[v])]
<1>1. /\ u \in Linked(w, u) /\ Linked(w, u) \subseteq Present(w)
      /\ \A v \in Linked(w, u) : w.unit[v] = w.unit[u]
  BY LinkedTogether
<1>2. \A v \in Linked(w, u) : F[v] = Stopped(w.unit[v]) /\ F[v] = F[u] /\ w.unit[v] \in Bodies
  BY <1>1, WorldParts DEF Kept
<1>3. Stop(w, u) = Update(w, Linked(w, u), F)
  BY DEF Stop
<1> HIDE DEF F
<1>4. ASSUME NEW v \in Linked(w, u)
      PROVE  /\ F[v] \in Bodies
             /\ F[v] = w.unit[v] \/ (F[v].steps = <<>> /\ F[v].seen = <<>>)
             /\ ~InMotion(w.unit[v]) => F[v].at = w.unit[v].at /\ ~InMotion(F[v])
  <2>1. w.unit[v].at \in Tiles /\ "none" \in Controls
    BY <1>2 DEF Bodies, Controls
  <2>2. /\ Stopped(w.unit[v]) \in Bodies
        /\ IF InMotion(w.unit[v])
           THEN Stopped(w.unit[v]).steps = <<>> /\ Stopped(w.unit[v]).seen = <<>>
           ELSE Stopped(w.unit[v]) = w.unit[v]
    BY <1>2, <2>1, BodiesChange, BodiesRest
  <2>3. QED
    BY <1>2, <2>2
<1>5. QED
  BY <1>2, <1>3, <1>4, LinkedUpdates

\* Taking control, or turning, stops at once.
LEMMA ControlHandled ==
    ASSUME NEW w, Kept(w), NEW u \in Present(w), NEW c \in Controls
    PROVE  /\ Handled(w, Update(w, Linked(w, u), [v \in Linked(w, u) |-> Controlled(w.unit[v], c)]))
           /\ Handled(w, Update(w, Linked(w, u), [v \in Linked(w, u) |-> Cleared(w.unit[v])]))
<1> DEFINE F == [v \in Linked(w, u) |-> Controlled(w.unit[v], c)]
           G == [v \in Linked(w, u) |-> Cleared(w.unit[v])]
<1>1. /\ u \in Linked(w, u) /\ Linked(w, u) \subseteq Present(w)
      /\ \A v \in Linked(w, u) : w.unit[v] = w.unit[u]
  BY LinkedTogether
<1>2. \A v \in Linked(w, u) :
        /\ F[v] = Controlled(w.unit[v], c) /\ F[v] = F[u]
        /\ G[v] = Cleared(w.unit[v]) /\ G[v] = G[u] /\ w.unit[v] \in Bodies
  BY <1>1, WorldParts DEF Kept
<1> HIDE DEF F, G
<1>3. ASSUME NEW v \in Linked(w, u)
      PROVE  /\ F[v] \in Bodies /\ F[v].steps = <<>> /\ F[v].seen = <<>>
             /\ F[v].at = w.unit[v].at /\ ~InMotion(F[v])
             /\ G[v] \in Bodies /\ G[v].steps = <<>> /\ G[v].seen = <<>>
             /\ G[v].at = w.unit[v].at /\ ~InMotion(G[v])
  <2>1. w.unit[v].at \in Tiles
    BY <1>2 DEF Bodies
  <2>2. /\ Controlled(w.unit[v], c) \in Bodies /\ Cleared(w.unit[v]) \in Bodies
    BY <1>2, <2>1, BodiesChange
  <2>3. /\ Cleared(w.unit[v]).at = w.unit[v].at /\ Cleared(w.unit[v]).steps = <<>>
        /\ Cleared(w.unit[v]).seen = <<>> /\ ~InMotion(Cleared(w.unit[v]))
        /\ Controlled(w.unit[v], c).at = w.unit[v].at /\ Controlled(w.unit[v], c).steps = <<>>
        /\ Controlled(w.unit[v], c).seen = <<>> /\ ~InMotion(Controlled(w.unit[v], c))
    BY <1>2, <2>1, BodiesRest
  <2>4. QED
    BY <1>2, <2>2, <2>3
<1>4. Handled(w, Update(w, Linked(w, u), F))
  BY <1>2, <1>3, LinkedUpdates
<1>5. Handled(w, Update(w, Linked(w, u), G))
  BY <1>2, <1>3, LinkedUpdates
<1>6. QED
  BY <1>4, <1>5 DEF F, G

\* A path is given to who leaves the slots, and a unit is put somewhere.
LEMMA MovesHandled ==
    ASSUME NEW w, Kept(w), NEW u \in Present(w), NEW F,
           \A v \in Linked(w, u) :
              /\ F[v] \in Bodies /\ F[v] = F[u] /\ Routed(F[v].steps, F[v].seen)
              /\ F[v].seen = <<>> \/ Valid(F[v].seen)
    PROVE  Handled(w, Update(ReleaseAll(w, Linked(w, u)), Linked(w, u), F))
<1> DEFINE free == ReleaseAll(w, Linked(w, u))
           new == Update(free, Linked(w, u), F)
<1>1. /\ u \in Linked(w, u) /\ Linked(w, u) \subseteq Present(w)
      /\ \A r \in w.rides : r[1] \in Linked(w, u) <=> r[2] \in Linked(w, u)
  BY LinkedTogether
<1>2. /\ Kept(free) /\ \A t \in DOMAIN free.sitter : free.sitter[t] \notin Linked(w, u)
  BY ReleasesKeep
<1>3. free.unit = w.unit /\ free.rides = w.rides /\ Present(free) = Present(w)
  BY Releases DEF Kept, Present
<1> HIDE DEF free
<1>4. \A r \in free.rides : r[1] \in Linked(w, u) => F[r[1]] = F[r[2]]
  BY <1>1, <1>3
<1>5. Kept(new)
  BY <1>1, <1>2, <1>3, <1>4, UpdatesKeep
<1>6. /\ Present(new) = Present(w)
      /\ \A v \in Present(w) : new.unit[v] = IF v \in Linked(w, u) THEN F[v] ELSE w.unit[v]
  BY <1>2, <1>3, Updates DEF Kept
<1> HIDE DEF new
<1>7. Steady(w, new)
  BY <1>6 DEF Steady
<1>8. QED
  BY <1>5, <1>7 DEF Handled, new, free
\* assignLinkedPath.
LEMMA AssignHandled ==
    ASSUME NEW w, Kept(w), NEW u \in Present(w), NEW p \in Walks, NEW c \in Controls,
           Routed(p.path, p.seen), Valid(p.seen)
    PROVE  Handled(w, AssignPath(w, u, p.path, p.seen, c))
<1> DEFINE free == ReleaseAll(w, Linked(w, u))
           F == [v \in Linked(w, u) |->
                    [free.unit[v] EXCEPT !.steps = p.path, !.settling = FALSE, !.seen = p.seen,
                                         !.control = IF c = "none" THEN @ ELSE c]]
<1>1. /\ u \in Linked(w, u) /\ Linked(w, u) \subseteq Present(w)
      /\ \A v \in Linked(w, u) : w.unit[v] = w.unit[u]
  BY LinkedTogether
<1>2. free.unit = w.unit /\ w.unit \in [Present(w) -> Bodies]
  BY Releases, WorldParts DEF Kept
<1>3. p.path \in Seq(Tiles) /\ p.seen \in Seens
  BY DEF Walks
<1>4. AssignPath(w, u, p.path, p.seen, c) = Update(free, Linked(w, u), F)
  BY DEF AssignPath, Moves
<1> HIDE DEF free
<1>5. ASSUME NEW v \in Linked(w, u)
      PROVE  /\ F[v] \in Bodies /\ F[v] = F[u]
             /\ F[v].steps = p.path /\ F[v].seen = p.seen
  <2>1. w.unit[v] \in Bodies
    BY <1>1, <1>2
  <2>2. \A x \in Bodies :
          LET y == [x EXCEPT !.steps = p.path, !.settling = FALSE, !.seen = p.seen,
                             !.control = IF c = "none" THEN @ ELSE c]
          IN  y \in Bodies /\ y.steps = p.path /\ y.seen = p.seen
    BY <1>3 DEF Bodies
  <2>3. QED
    BY <1>1, <1>2, <2>1, <2>2
<1> HIDE DEF F
<1>6. QED
  BY <1>4, <1>5, MovesHandled DEF free

\* repositionUnit.
LEMMA RepositionHandled ==
    ASSUME NEW w, Kept(w), NEW u \in Present(w), NEW t \in Tiles, NEW c \in Controls
    PROVE  Handled(w, Reposition(w, u, t, c))
<1> DEFINE free == ReleaseAll(w, Linked(w, u))
           F == [v \in Linked(w, u) |-> Repositioned(free.unit[v], t, c)]
<1>1. /\ u \in Linked(w, u) /\ Linked(w, u) \subseteq Present(w)
      /\ \A v \in Linked(w, u) : w.unit[v] = w.unit[u]
  BY LinkedTogether
<1>2. free.unit = w.unit /\ w.unit \in [Present(w) -> Bodies]
  BY Releases, WorldParts DEF Kept
<1>3. Reposition(w, u, t, c) = Update(free, Linked(w, u), F)
  BY DEF Reposition
<1>4. \A v \in Linked(w, u) : F[v] = Repositioned(free.unit[v], t, c)
  OBVIOUS
<1> HIDE DEF free, F
<1>5. \A v \in Linked(w, u) :
        /\ F[v] \in Bodies /\ F[v] = F[u]
        /\ F[v].steps = <<>> /\ F[v].seen = <<>>
  <2>1. \A x \in Bodies :
          /\ Repositioned(x, t, c) \in Bodies
          /\ Repositioned(x, t, c).steps = <<>> /\ Repositioned(x, t, c).seen = <<>>
    BY BodiesChange, BodiesRest
  <2>2. QED
    BY <1>1, <1>2, <1>4, <2>1
<1>6. QED
  BY <1>3, <1>5, RestRouted, MovesHandled DEF free

\* What a unit that is unlinked keeps.
LEMMA UnlinkedRests ==
    ASSUME NEW x \in Bodies
    PROVE  LET y == [Stopped(x) EXCEPT !.control = "none"] IN
           /\ y \in Bodies /\ y.steps = <<>>
           /\ y.seen = <<>> \/ (y.seen = x.seen /\ x.steps = <<>>)
           /\ ~InMotion(x) => y.at = x.at /\ ~InMotion(y)
<1>1. x.at \in Tiles /\ "none" \in Controls
  BY DEF Bodies, Controls
<1>2. /\ Stopped(x) \in Bodies
      /\ IF InMotion(x) THEN Stopped(x).steps = <<>> /\ Stopped(x).seen = <<>>
         ELSE Stopped(x) = x
  BY <1>1, BodiesChange, BodiesRest
<1>3. \A z \in Bodies :
        LET y == [z EXCEPT !.control = "none"] IN
        /\ y \in Bodies /\ y.steps = z.steps /\ y.seen = z.seen /\ y.at = z.at
        /\ y.settling = z.settling
  BY <1>1 DEF Bodies
<1>4. ~InMotion(x) => x.steps = <<>>
  BY DEF InMotion
<1>5. QED
  BY <1>2, <1>3, <1>4 DEF InMotion

\* Nobody rides or carries a unit that was unlinked.
LEMMA UnlinkHandled ==
    ASSUME NEW w, Kept(w), NEW u \in Present(w)
    PROVE  /\ Handled(w, Unlink(w, u)) /\ Present(Unlink(w, u)) = Present(w)
           /\ \A r \in Unlink(w, u).rides : u \notin {r[1], r[2]}
<1> DEFINE F == [v \in Linked(w, u) |-> [Stopped(w.unit[v]) EXCEPT !.control = "none"]]
           stopped == Update(w, Linked(w, u), F)
           left == {r \in w.rides : u \notin {r[1], r[2]}}
<1>1. /\ u \in Linked(w, u) /\ Linked(w, u) \subseteq Present(w)
      /\ \A v \in Linked(w, u) : w.unit[v] = w.unit[u]
      /\ \A r \in w.rides : r[1] \in Linked(w, u) <=> r[2] \in Linked(w, u)
  BY LinkedTogether
<1>2. w.unit \in [Present(w) -> Bodies] /\ w.rides \subseteq Players \X Pets
  BY WorldParts DEF Kept
<1>3. CASE Linked(w, u) = {u}
  <2>1. ASSUME NEW r \in w.rides PROVE u \notin {r[1], r[2]}
    <3>1. r[1] # r[2]
      BY <1>2, WorldAssumption
    <3>2. QED
      BY <1>1, <1>3, <3>1
  <2>2. Unlink(w, u) = w
    BY <1>3 DEF Unlink
  <2>3. QED
    BY <2>1, <2>2 DEF Handled, Steady
<1>4. CASE Linked(w, u) # {u}
  <2>1. Unlink(w, u) = [stopped EXCEPT !.rides = left]
    BY <1>4 DEF Unlink
  <2>2. ASSUME NEW v \in Linked(w, u)
        PROVE  /\ F[v] \in Bodies /\ F[v] = F[u] /\ F[v].steps = <<>>
               /\ F[v].seen = <<>> \/ (F[v].seen = w.unit[v].seen /\ w.unit[v].steps = <<>>)
               /\ ~InMotion(w.unit[v]) => F[v].at = w.unit[v].at /\ ~InMotion(F[v])
    <3>1. w.unit[v] \in Bodies /\ F[v] = [Stopped(w.unit[v]) EXCEPT !.control = "none"]
      BY <1>1, <1>2
    <3>2. F[v] = F[u]
      BY <1>1
    <3> HIDE DEF F
    <3>3. QED
      BY <3>1, <3>2, UnlinkedRests
  <2> HIDE DEF F
  <2>3. ASSUME NEW v \in Linked(w, u) PROVE Routed(F[v].steps, F[v].seen)
    <3>1. CASE F[v].seen = <<>>
      BY <2>2, <3>1, RestRouted
    <3>2. CASE F[v].seen = w.unit[v].seen /\ w.unit[v].steps = <<>>
      BY <1>1, <2>2, <3>2 DEF Kept, Planned
    <3>3. QED
      BY <2>2, <3>1, <3>2
  <2>4. \A t \in DOMAIN w.sitter : w.sitter[t] \in Linked(w, u) =>
          F[w.sitter[t]].at = t /\ ~InMotion(F[w.sitter[t]])
    BY <2>2 DEF Kept, Sitting, Sits
  <2>5. \A r \in w.rides : r[1] \in Linked(w, u) => F[r[1]] = F[r[2]]
    BY <1>1, <2>2
  <2>6. Kept(stopped)
    BY <1>1, <2>2, <2>3, <2>4, <2>5, UpdatesKeep
  <2>7. /\ Present(stopped) = Present(w) /\ stopped.rides = w.rides
        /\ \A v \in Present(w) : stopped.unit[v] = IF v \in Linked(w, u) THEN F[v] ELSE w.unit[v]
    BY <2>2, Updates DEF Kept
  <2> HIDE DEF stopped
  <2>8. /\ Unlink(w, u) \in Worlds /\ Unlink(w, u).rides = left
        /\ Unlink(w, u).unit = stopped.unit /\ Unlink(w, u).seat = stopped.seat
        /\ Unlink(w, u).sitter = stopped.sitter
    BY <2>1, <2>6, <2>7 DEF Kept, Worlds
  <2>9. Kept(Unlink(w, u))
    BY <2>6, <2>7, <2>8 DEF Kept, Planned, Paired, Together, Sitting, Sits, Present
  <2>10. Steady(w, Unlink(w, u))
    BY <2>2, <2>7, <2>8 DEF Steady, Present
  <2>11. QED
    BY <2>7, <2>8, <2>9, <2>10 DEF Handled, Present
<1>5. QED
  BY <1>3, <1>4

\* Leaving the room.
LEMMA RemoveHandled ==
    ASSUME NEW w, Kept(w), NEW u \in Present(w)
    PROVE  Handled(w, RemoveUnit(w, u))
<1> DEFINE alone == Unlink(w, u)
           free == ReleaseAll(alone, {u})
           units == [v \in Present(w) \ {u} |-> free.unit[v]]
           new == RemoveUnit(w, u)
<1>1. /\ Kept(alone) /\ Steady(w, alone) /\ Present(alone) = Present(w)
      /\ \A r \in alone.rides : u \notin {r[1], r[2]}
  BY UnlinkHandled DEF Handled
<1> HIDE DEF alone
<1>2. /\ Kept(free) /\ \A t \in DOMAIN free.sitter : free.sitter[t] # u
  BY <1>1, ReleasesKeep
<1>3. free.unit = alone.unit /\ free.rides = alone.rides
  BY <1>1, Releases DEF Kept
<1>4. free.unit \in [Present(w) -> Bodies] /\ Present(w) \subseteq Units
  BY <1>1, <1>2, <1>3, WorldParts DEF Kept, Present
<1>5. new = [free EXCEPT !.unit = units]
  BY <1>1, <1>3 DEF RemoveUnit, Release, alone, Without, Restrict, Present
<1> HIDE DEF free, new
<1>6. /\ units \in [Present(w) \ {u} -> Bodies] /\ Present(w) \ {u} \in SUBSET Units
      /\ \A v \in Present(w) \ {u} : units[v] = free.unit[v]
  BY <1>4
<1> HIDE DEF units
<1>7. units \in UNION {[present -> Bodies] : present \in SUBSET Units}
  BY <1>6
<1>8. /\ new \in Worlds /\ new.unit = units /\ new.seat = free.seat /\ new.sitter = free.sitter
      /\ new.rides = free.rides
  BY <1>2, <1>5, <1>7 DEF Kept, Worlds
<1>9. Present(new) = Present(w) \ {u} /\ Present(free) = Present(w)
  BY <1>4, <1>6, <1>8 DEF Present
<1>10. Planned(new) /\ Paired(new) /\ Together(new)
  BY <1>1, <1>2, <1>3, <1>6, <1>8, <1>9 DEF Kept, Planned, Paired, Together
<1>11. Sitting(new)
  BY <1>2, <1>6, <1>8, <1>9 DEF Kept, Sitting, Sits
<1>12. Steady(w, new)
  BY <1>1, <1>3, <1>6, <1>8, <1>9 DEF Steady
<1>13. QED
  BY <1>8, <1>10, <1>11, <1>12 DEF Handled, Kept, new
\* Releasing slots, and nothing else.
LEMMA ReleaseHandled ==
    ASSUME NEW w, NEW v, NEW S, Handled(w, v)
    PROVE  Handled(w, ReleaseAll(v, S))
<1>1. Kept(ReleaseAll(v, S))
  BY ReleasesKeep DEF Handled
<1>2. ReleaseAll(v, S).unit = v.unit
  BY Releases DEF Handled, Kept
<1>3. QED
  BY <1>1, <1>2 DEF Handled, Steady, Present

\* The world with u on its pet.
Mounted(w, u, pet, t) ==
    LET moved == Update(w, {u, pet}, [v \in {u, pet} |-> Repositioned(w.unit[v], t, "none")])
    IN  ReleaseAll([moved EXCEPT !.rides = @ \union {<<u, pet>>}], {u, pet})

\* Getting on a pet that carries nobody.
LEMMA MountHandled ==
    ASSUME NEW w, Kept(w), NEW u \in Players, NEW pet \in Pets,
           u \in Present(w), pet \in Present(w),
           Linked(w, u) \subseteq {u, pet}, Linked(w, pet) \subseteq {u, pet},
           NEW t \in Tiles
    PROVE  Handled(w, Mounted(w, u, pet, t))
<1> DEFINE F == [v \in {u, pet} |-> Repositioned(w.unit[v], t, "none")]
           moved == Update(w, {u, pet}, F)
           riding == [moved EXCEPT !.rides = @ \union {<<u, pet>>}]
           new == ReleaseAll(riding, {u, pet})
<1>1. \A x \in Bodies : Repositioned(x, t, "none") = Standing(t) /\ Standing(t) \in Bodies
  <2>1. ASSUME NEW x \in Bodies PROVE Repositioned(x, t, "none") = Standing(t)
    <3>1. PICK at, steps, settling, control, seen :
            x = [at |-> at, steps |-> steps, settling |-> settling, control |-> control,
                 seen |-> seen]
      BY DEF Bodies
    <3>2. PICK y : y = Cleared(x)
      OBVIOUS
    <3>3. y = [at |-> at, steps |-> <<>>, settling |-> FALSE, control |-> control, seen |-> <<>>]
      BY <3>1, <3>2 DEF Cleared
    <3>4. PICK z : z = Controlled(x, "none")
      OBVIOUS
    <3>5. z = [at |-> at, steps |-> <<>>, settling |-> FALSE, control |-> "none", seen |-> <<>>]
      <4>1. z = [y EXCEPT !.control = "none"]
        BY <3>2, <3>4 DEF Controlled
      <4>2. QED
        BY <3>3, <4>1
    <3>6. Repositioned(x, t, "none") = [z EXCEPT !.at = t]
      BY <3>4 DEF Repositioned
    <3>7. QED
      BY <3>5, <3>6 DEF Standing
  <2>2. "none" \in Controls
    BY DEF Controls
  <2>3. QED
    BY <2>1, <2>2, BodiesChange
<1>2. w.unit \in [Present(w) -> Bodies] /\ w.rides \subseteq Players \X Pets
  BY WorldParts DEF Kept
<1>3. \A v \in {u, pet} : F[v] = Standing(t) /\ F[v] \in Bodies
  BY <1>1, <1>2
<1> HIDE DEF F
<1>4. /\ moved \in Worlds /\ Present(moved) = Present(w) /\ moved.seat = w.seat
      /\ moved.sitter = w.sitter /\ moved.rides = w.rides
      /\ \A v \in Present(w) :
            moved.unit[v] = IF v \in {u, pet} THEN Standing(t) ELSE w.unit[v]
  BY <1>3, Updates DEF Kept
<1> HIDE DEF moved
<1>5. w.rides \union {<<u, pet>>} \subseteq Players \X Pets
  BY <1>2
<1>6. /\ riding \in Worlds /\ riding.unit = moved.unit /\ riding.seat = w.seat
      /\ riding.sitter = w.sitter /\ riding.rides = w.rides \union {<<u, pet>>}
  BY <1>4, <1>5 DEF Worlds
<1> HIDE DEF riding
<1>7. Present(riding) = Present(w)
  BY <1>4, <1>6 DEF Present
<1>8. ASSUME NEW r \in w.rides, {r[1], r[2]} \intersect {u, pet} # {} PROVE r = <<u, pet>>
  <2>1. r = <<r[1], r[2]>> /\ r[1] \in Players /\ r[2] \in Pets
    BY <1>2
  <2>2. r[1] \in Present(w) /\ r[2] \in Present(w)
    BY DEF Kept, Together
  <2>3. CASE r[1] = u
    <3>1. r[2] \in Linked(w, u)
      BY <2>1, <2>2, <2>3 DEF Linked
    <3>2. QED
      BY <2>1, <2>3, <3>1, WorldAssumption
  <2>4. CASE r[2] = pet
    <3>1. r[1] \in Linked(w, pet)
      BY <2>1, <2>2, <2>4 DEF Linked
    <3>2. QED
      BY <2>1, <2>4, <3>1, WorldAssumption
  <2>5. QED
    BY <1>8, <2>1, <2>3, <2>4, WorldAssumption
<1>9. Planned(riding)
  BY <1>4, <1>6, <1>7, RestRouted DEF Kept, Planned, Standing
<1>10. Paired(riding)
  <2>1. \A q, r \in w.rides : {q[1], q[2]} \intersect {r[1], r[2]} # {} => q = r
    BY DEF Kept, Paired
  <2>2. \A r \in w.rides :
          {r[1], r[2]} \intersect {<<u, pet>>[1], <<u, pet>>[2]} # {} => r = <<u, pet>>
    BY <1>8
  <2>3. QED
    BY <1>6, <2>1, <2>2 DEF Paired
<1>11. Together(riding)
  <2>1. ASSUME NEW r \in w.rides PROVE riding.unit[r[1]] = riding.unit[r[2]]
    <3>1. r[1] \in Present(w) /\ r[2] \in Present(w) /\ w.unit[r[1]] = w.unit[r[2]]
      BY DEF Kept, Together
    <3>2. CASE {r[1], r[2]} \intersect {u, pet} = {}
      BY <1>4, <1>6, <3>1, <3>2
    <3>3. CASE r = <<u, pet>>
      BY <1>4, <1>6, <3>1, <3>3
    <3>4. QED
      BY <1>8, <3>2, <3>3
  <2>2. riding.unit[u] = riding.unit[pet]
    BY <1>4, <1>6
  <2>3. QED
    BY <1>6, <1>7, <2>1, <2>2 DEF Kept, Together
<1>12. \A s \in DOMAIN riding.sitter :
        /\ riding.sitter[s] \in DOMAIN riding.seat /\ riding.seat[riding.sitter[s]] = s
        /\ riding.sitter[s] \notin {u, pet} => Sits(riding, s)
  BY <1>4, <1>6, <1>7 DEF Kept, Sitting, Sits
<1>13. Kept(new)
  BY <1>6, <1>9, <1>10, <1>11, <1>12, LeaversRelease
<1>14. new.unit = moved.unit
  BY <1>6, Releases
<1>15. Steady(w, new)
  BY <1>4, <1>14 DEF Steady, Present, Standing
<1>16. QED
  BY <1>13, <1>15 DEF Handled, Mounted, new, riding, moved, F

\* Coming into the room.
LEMMA EnterHandled ==
    ASSUME NEW w, Kept(w), NEW u \in Units, u \notin Present(w), NEW t \in Tiles
    PROVE  Handled(w, [w EXCEPT !.unit = With(@, u, Standing(t))])
<1> DEFINE units == [v \in Present(w) \union {u} |-> IF v = u THEN Standing(t) ELSE w.unit[v]]
           new == [w EXCEPT !.unit = units]
<1>1. w.unit \in [Present(w) -> Bodies] /\ Present(w) \subseteq Units
  BY WorldParts DEF Kept
<1>2. Standing(t) \in Bodies
  <2>1. <<>> \in Seq(Tiles) /\ <<>> \in [{} -> Nat]
    OBVIOUS
  <2>2. QED
    BY <2>1 DEF Standing, Bodies, Seens, Controls
<1>3. /\ units \in [Present(w) \union {u} -> Bodies] /\ units[u] = Standing(t)
      /\ \A v \in Present(w) : units[v] = w.unit[v]
  BY <1>1, <1>2
<1>4. [w EXCEPT !.unit = With(@, u, Standing(t))] = new
  BY DEF With, Present
<1> HIDE DEF units
<1>5. Present(w) \union {u} \in SUBSET Units
  BY <1>1
<1>6. units \in UNION {[present -> Bodies] : present \in SUBSET Units}
  BY <1>3, <1>5
<1>7. /\ new \in Worlds /\ new.unit = units /\ new.seat = w.seat /\ new.sitter = w.sitter
      /\ new.rides = w.rides
  BY <1>6 DEF Kept, Worlds
<1> HIDE DEF new
<1>8. Present(new) = Present(w) \union {u}
  BY <1>3, <1>7 DEF Present
<1>9. Planned(new) /\ Paired(new) /\ Together(new)
  BY <1>3, <1>7, <1>8, RestRouted DEF Kept, Planned, Paired, Together, Standing
<1>10. Sitting(new)
  BY <1>3, <1>7, <1>8 DEF Kept, Sitting, Sits
<1>11. Steady(w, new)
  BY <1>3, <1>7, <1>8 DEF Steady
<1>12. QED
  BY <1>4, <1>7, <1>9, <1>10, <1>11 DEF Handled, Kept
-----------------------------------------------------------------------------
(***************************************************************************)
(* Furniture and paths.                                                    *)
(***************************************************************************)
\* A path outlives a change of furniture only if it keeps off it.
LEMMA RoutedStays ==
    ASSUME SurfaceFits, NEW t \in Tiles, NEW s,
           tile' = [tile EXCEPT ![t] = s], version' = [version EXCEPT ![t] = @ + 1],
           NEW steps \in Seq(Tiles), NEW seen \in Seens, Routed(steps, seen)
    PROVE  Routed(steps, seen)'
<1>1. PICK looked \in SUBSET Tiles : seen \in [looked -> Nat]
  BY DEF Seens
<1>2. /\ \A x \in DOMAIN seen : seen[x] \in Nat /\ x \in Tiles
      /\ \A x \in Tiles : version[x] \in Nat
      /\ version'[t] = version[t] + 1 /\ \A x \in Tiles \ {t} : version'[x] = version[x]
      /\ \A x \in Tiles \ {t} : tile'[x] = tile[x]
  BY <1>1 DEF SurfaceFits
<1>3. \A i \in 1 .. Len(steps) : steps[i] \in DOMAIN seen
  BY DEF Routed
<1>4. \A x \in DOMAIN seen : seen[x] <= version[x]
  BY DEF Routed
<1>5. \A x \in DOMAIN seen : seen[x] <= version'[x]
  BY <1>2, <1>4
<1>6. ASSUME Valid(seen)' PROVE Walkable(steps)'
  <2>1. \A x \in DOMAIN seen : version'[x] = seen[x]
    BY <1>6 DEF Valid
  <2>2. t \notin DOMAIN seen
    BY <1>2, <1>4, <2>1
  <2>3. Valid(seen)
    BY <1>2, <2>1, <2>2 DEF Valid
  <2>4. \A i \in 1 .. Len(steps) : tile'[steps[i]] = tile[steps[i]]
    BY <1>2, <1>3, <2>2
  <2>5. QED
    BY <2>3, <2>4 DEF Routed, Walkable
<1>7. QED
  BY <1>3, <1>5, <1>6 DEF Routed

\* A shortest path that was found is walkable when it is found.
LEMMA RoutesWalkable ==
    ASSUME SurfaceFits, NEW from \in Tiles, NEW goal, NEW taken, NEW p \in Routes(from, goal, taken)
    PROVE  p \in Seq(Tiles) /\ Observed(from, p) \in Seens /\ Routed(p, Observed(from, p))
<1> DEFINE limit == Cardinality(Tiles) - 1
           paths == {q \in UNION {[1 .. n -> Tiles] : n \in 0 .. limit} :
                       /\ (IF q = <<>> THEN from ELSE Last(q)) = goal
                       /\ \A i \in DOMAIN q :
                            /\ Enterable(q[i], goal, taken)
                            /\ <<IF i = 1 THEN from ELSE q[i - 1], q[i]>> \in Adjacent}
           expanded == {from} \union {p[i] : i \in 1 .. Len(p) - 1}
           read == expanded \union {t \in Tiles : \E e \in expanded : <<e, t>> \in Adjacent}
<1>1. limit \in Int
  BY WorldAssumption, FS_CardinalityType
<1>2. p \in paths /\ \A q \in paths : Len(p) <= Len(q)
  BY DEF Routes
<1>3. PICK n \in 0 .. limit : p \in [1 .. n -> Tiles]
  BY <1>2
<1>4. n \in Nat /\ p \in Seq(Tiles) /\ Len(p) = n /\ DOMAIN p = 1 .. n
  BY <1>1, <1>3
<1>5. \A i \in 1 .. n :
        Enterable(p[i], goal, taken) /\ <<IF i = 1 THEN from ELSE p[i - 1], p[i]>> \in Adjacent
  BY <1>2, <1>4
<1>6. ASSUME NEW i \in 1 .. n, p[i] = goal PROVE i = n
  <2> DEFINE q == [k \in 1 .. i |-> p[k]]
  <2>1. q \in [1 .. i -> Tiles] /\ i \in 0 .. limit
    BY <1>1, <1>3, <1>4
  <2>2. q \in Seq(Tiles) /\ Len(q) = i /\ DOMAIN q = 1 .. i /\ q # <<>> /\ q[i] = p[i]
    BY <1>4, <2>1
  <2>3. Last(q) = goal
    BY <1>6, <2>2 DEF Last
  <2>4. \A k \in DOMAIN q :
          /\ Enterable(q[k], goal, taken)
          /\ <<IF k = 1 THEN from ELSE q[k - 1], q[k]>> \in Adjacent
    <3> SUFFICES ASSUME NEW k \in 1 .. i
                 PROVE  /\ Enterable(q[k], goal, taken)
                        /\ <<IF k = 1 THEN from ELSE q[k - 1], q[k]>> \in Adjacent
      BY <2>2
    <3>1. k \in 1 .. n /\ q[k] = p[k] /\ (k # 1 => q[k - 1] = p[k - 1])
      BY <1>4
    <3>2. QED
      BY <1>5, <3>1
  <2> HIDE DEF q
  <2>5. q \in UNION {[1 .. m -> Tiles] : m \in 0 .. limit}
    BY <2>1
  <2>6. q \in paths
    BY <2>2, <2>3, <2>4, <2>5
  <2> HIDE DEF paths
  <2>7. Len(p) <= Len(q)
    BY <1>2, <2>6
  <2>8. QED
    BY <1>4, <2>2, <2>7
<1> HIDE DEF paths
<1>7. Walkable(p)
  BY <1>4, <1>5, <1>6 DEF Walkable, Enterable
<1>8. Observed(from, p) = [t \in read |-> version[t]]
  BY DEF Observed
<1>9. expanded \subseteq Tiles
  BY <1>3, <1>4
<1>10. read \in SUBSET Tiles
  BY <1>9
<1>11. ASSUME NEW i \in 1 .. n PROVE p[i] \in read
  <2>1. <<IF i = 1 THEN from ELSE p[i - 1], p[i]>> \in Adjacent /\ p[i] \in Tiles
    BY <1>3, <1>5
  <2>2. (IF i = 1 THEN from ELSE p[i - 1]) \in expanded
    <3>1. CASE i = 1
      BY <3>1
    <3>2. CASE i # 1
      <4>1. i - 1 \in 1 .. Len(p) - 1
        BY <1>4, <3>2
      <4>2. QED
        BY <3>2, <4>1
    <3>3. QED
      BY <3>1, <3>2
  <2>3. QED
    BY <2>1, <2>2
<1> HIDE DEF read, expanded
<1>12. Observed(from, p) \in [read -> Nat]
  BY <1>8, <1>10 DEF SurfaceFits
<1>13. Observed(from, p) \in Seens
  BY <1>10, <1>12 DEF Seens
<1>14. \A t \in DOMAIN Observed(from, p) : Observed(from, p)[t] <= version[t]
  BY <1>8, <1>10 DEF SurfaceFits
<1>15. Routed(p, Observed(from, p))
  BY <1>4, <1>7, <1>8, <1>11, <1>14 DEF Routed
<1>16. QED
  BY <1>4, <1>13, <1>15
-----------------------------------------------------------------------------
(***************************************************************************)
(* The tick.                                                               *)
(***************************************************************************)
\* What a tick makes of a body: the same of a rider and its mount.
Moved(x) ==
    IF x.steps # <<>> THEN IF Outdated(x) THEN Cleared(x) ELSE Advanced(x)
    ELSE IF x.settling THEN [x EXCEPT !.settling = FALSE] ELSE x

\* One step of a path.
LEMMA AdvancedFits ==
    ASSUME NEW x \in Bodies, x.steps # <<>>
    PROVE  /\ Advanced(x) \in Bodies /\ Advanced(x).seen = x.seen
           /\ Advanced(x).steps = Tail(x.steps) /\ Advanced(x).at = x.steps[1]
           /\ Routed(x.steps, x.seen) => Routed(Tail(x.steps), x.seen)
           /\ Routed(x.steps, x.seen) => x.steps[1] \in DOMAIN x.seen
<1>1. x.steps \in Seq(Tiles)
  BY DEF Bodies
<1>2. /\ Head(x.steps) \in Tiles /\ Head(x.steps) = x.steps[1] /\ Tail(x.steps) \in Seq(Tiles)
      /\ Len(x.steps) \in Nat /\ Len(x.steps) >= 1 /\ Len(Tail(x.steps)) = Len(x.steps) - 1
      /\ \A i \in 1 .. Len(Tail(x.steps)) : Tail(x.steps)[i] = x.steps[i + 1]
  BY <1>1, HeadTailProperties, LenProperties, EmptySeq
<1>3. /\ Advanced(x) \in Bodies /\ Advanced(x).seen = x.seen
      /\ Advanced(x).steps = Tail(x.steps) /\ Advanced(x).at = x.steps[1]
  BY <1>2 DEF Advanced, Bodies
<1>4. \A i \in 1 .. Len(Tail(x.steps)) :
        i + 1 \in 1 .. Len(x.steps) /\ (i + 1 = Len(x.steps) => i = Len(Tail(x.steps)))
  BY <1>2
<1>5. Walkable(x.steps) => Walkable(Tail(x.steps))
  BY <1>2, <1>4 DEF Walkable
<1>6. Routed(x.steps, x.seen) => Routed(Tail(x.steps), x.seen)
  BY <1>2, <1>4, <1>5 DEF Routed
<1>7. Routed(x.steps, x.seen) => x.steps[1] \in DOMAIN x.seen
  BY <1>2 DEF Routed
<1>8. QED
  BY <1>3, <1>6, <1>7

\* A body after a tick.
LEMMA MovedFits ==
    ASSUME NEW x \in Bodies, Routed(x.steps, x.seen)
    PROVE  /\ Moved(x) \in Bodies /\ Routed(Moved(x).steps, Moved(x).seen)
           /\ ~InMotion(x) => Moved(x) = x
           /\ \/ Moved(x) = x \/ Moved(x).seen = <<>>
              \/ Valid(Moved(x).seen) \/ x.steps = <<>>
<1>1. CASE x.steps # <<>> /\ Outdated(x)
  <2>1. x.at \in Tiles /\ "none" \in Controls
    BY DEF Bodies, Controls
  <2>2. Cleared(x) \in Bodies /\ Cleared(x).steps = <<>> /\ Cleared(x).seen = <<>>
    BY <2>1, BodiesChange, BodiesRest
  <2>3. QED
    BY <1>1, <2>2, RestRouted DEF Moved, InMotion
<1>2. CASE x.steps # <<>> /\ ~Outdated(x)
  <2>1. Moved(x) = Advanced(x) /\ Valid(x.seen)
    BY <1>2 DEF Moved, Outdated
  <2>2. QED
    BY <1>2, <2>1, AdvancedFits DEF InMotion
<1>3. CASE x.steps = <<>> /\ x.settling
  <2>1. Moved(x) = [x EXCEPT !.settling = FALSE]
    BY <1>3 DEF Moved
  <2>2. Moved(x) \in Bodies /\ Moved(x).steps = x.steps /\ Moved(x).seen = x.seen
    BY <2>1 DEF Bodies
  <2>3. QED
    BY <1>3, <2>2 DEF InMotion
<1>4. CASE x.steps = <<>> /\ ~x.settling
  BY <1>4 DEF Moved
<1>5. x.settling \in BOOLEAN
  BY DEF Bodies
<1>6. QED
  BY <1>1, <1>2, <1>3, <1>4, <1>5

\* One unit changes.
LEMMA SetsUnit ==
    ASSUME NEW w \in Worlds, NEW u \in Present(w), NEW y \in Bodies
    PROVE  LET new == [w EXCEPT !.unit[u] = y] IN
           /\ new \in Worlds /\ Present(new) = Present(w)
           /\ \A v \in Present(w) : new.unit[v] = IF v = u THEN y ELSE w.unit[v]
           /\ new.seat = w.seat /\ new.sitter = w.sitter /\ new.rides = w.rides
<1> DEFINE units == [w.unit EXCEPT ![u] = y]
           new == [w EXCEPT !.unit = units]
<1>1. w.unit \in [Present(w) -> Bodies] /\ Present(w) \in SUBSET Units
  BY WorldParts
<1>2. /\ units \in [Present(w) -> Bodies]
      /\ \A v \in Present(w) : units[v] = IF v = u THEN y ELSE w.unit[v]
  BY <1>1
<1>3. [w EXCEPT !.unit[u] = y] = new
  BY DEF Worlds
<1> HIDE DEF units
<1>4. units \in UNION {[present -> Bodies] : present \in SUBSET Units}
  BY <1>1, <1>2
<1>5. /\ new \in Worlds /\ new.unit = units /\ new.seat = w.seat /\ new.sitter = w.sitter
      /\ new.rides = w.rides
  BY <1>4 DEF Worlds
<1> HIDE DEF new
<1>6. Present(new) = Present(w)
  BY <1>2, <1>5 DEF Present
<1>7. QED
  BY <1>2, <1>3, <1>5, <1>6

\* A unit that rests on a seat takes it.
LEMMA OccupyKeeps ==
    ASSUME NEW w \in Worlds, Sitting(w), NEW u \in Present(w), NEW t,
           t = w.unit[u].at, tile[t] = "seat", ~InMotion(w.unit[u])
    PROVE  /\ Occupy(w, u, t) \in Worlds /\ Occupy(w, u, t).unit = w.unit
           /\ Occupy(w, u, t).rides = w.rides /\ Sitting(Occupy(w, u, t))
<1> DEFINE free == ReleaseAll(w, {u})
           seats == [v \in DOMAIN free.seat \union {u} |-> IF v = u THEN t ELSE free.seat[v]]
           sitters == [s \in DOMAIN free.sitter \union {t} |-> IF s = t THEN u ELSE free.sitter[s]]
           new == [free EXCEPT !.seat = seats, !.sitter = sitters]
<1>1. /\ free \in Worlds /\ free.unit = w.unit /\ free.rides = w.rides
      /\ DOMAIN free.seat = DOMAIN w.seat \ {u}
      /\ \A v \in DOMAIN w.seat \ {u} : free.seat[v] = w.seat[v]
      /\ DOMAIN free.sitter =
            {s \in DOMAIN w.sitter : \A v \in {u} \intersect DOMAIN w.seat : w.seat[v] # s}
      /\ \A s \in DOMAIN free.sitter : free.sitter[s] = w.sitter[s]
  BY Releases
<1>2. Occupy(w, u, t) = new
  BY DEF Occupy, Release, With
<1> HIDE DEF free
<1>3. u \in Units /\ t \in Tiles
  BY WorldParts DEF Bodies
<1>4. /\ free.seat \in [DOMAIN free.seat -> Tiles] /\ DOMAIN free.seat \subseteq Units
      /\ free.sitter \in [DOMAIN free.sitter -> Units] /\ DOMAIN free.sitter \subseteq Tiles
  BY <1>1, WorldParts
<1>5. /\ seats \in [DOMAIN free.seat \union {u} -> Tiles]
      /\ DOMAIN free.seat \union {u} \in SUBSET Units
      /\ sitters \in [DOMAIN free.sitter \union {t} -> Units]
      /\ DOMAIN free.sitter \union {t} \in SUBSET Tiles
  BY <1>3, <1>4
<1>6. /\ DOMAIN seats = DOMAIN free.seat \union {u} /\ seats[u] = t
      /\ \A v \in DOMAIN free.seat : v # u => seats[v] = free.seat[v]
      /\ DOMAIN sitters = DOMAIN free.sitter \union {t} /\ sitters[t] = u
      /\ \A s \in DOMAIN free.sitter : s # t => sitters[s] = free.sitter[s]
  OBVIOUS
<1> HIDE DEF seats, sitters
<1>7. /\ seats \in UNION {[seated -> Tiles] : seated \in SUBSET Units}
      /\ sitters \in UNION {[taken -> Units] : taken \in SUBSET Tiles}
  BY <1>5
<1>8. /\ new \in Worlds /\ new.unit = w.unit /\ new.rides = w.rides
      /\ new.seat = seats /\ new.sitter = sitters
  BY <1>1, <1>7 DEF Worlds
<1> HIDE DEF new
<1>9. ASSUME NEW s \in DOMAIN new.sitter PROVE Sits(new, s)
  <2>1. CASE s = t
    BY <1>6, <1>8, <2>1 DEF Sits, Present
  <2>2. CASE s # t
    <3>1. s \in DOMAIN free.sitter /\ new.sitter[s] = w.sitter[s] /\ s \in DOMAIN w.sitter
      BY <1>1, <1>6, <1>8, <1>9, <2>2
    <3>2. Sits(w, s)
      BY <3>1 DEF Sitting
    <3>3. w.sitter[s] # u
      BY <1>1, <3>1, <3>2 DEF Sits
    <3>4. w.sitter[s] \in DOMAIN new.seat /\ new.seat[w.sitter[s]] = s
      BY <1>1, <1>6, <1>8, <3>2, <3>3 DEF Sits
    <3>5. QED
      BY <1>8, <3>1, <3>2, <3>4 DEF Sits, Present
  <2>3. QED
    BY <2>1, <2>2
<1>10. QED
  BY <1>2, <1>8, <1>9 DEF Sitting
\* The world n is w after the part of u in a tick.
Stepped(w, u, n) ==
    /\ n \in Worlds /\ Present(n) = Present(w) /\ n.rides = w.rides
    /\ \A v \in Present(w) : n.unit[v] = IF v = u THEN Moved(w.unit[v]) ELSE w.unit[v]
    /\ Planned(n) /\ Sitting(n)

\* A unit's part of the tick moves it, and nobody else.
LEMMA StepMoves ==
    ASSUME NEW w, w \in Worlds, Planned(w), Sitting(w), NEW so, NEW u
    PROVE  \E n, e : /\ Step([world |-> w, exits |-> so], u) = [world |-> n, exits |-> e]
                     /\ Stepped(w, u, n)
<1>0. PICK r : r = [world |-> w, exits |-> so]
  OBVIOUS
<1> SUFFICES \E n, e :
              /\ n \in Worlds /\ Step(r, u) = [world |-> n, exits |-> e]
              /\ Present(n) = Present(w) /\ n.rides = w.rides
              /\ \A v \in Present(w) : n.unit[v] = IF v = u THEN Moved(w.unit[v]) ELSE w.unit[v]
              /\ Planned(n) /\ Sitting(n)
  BY <1>0 DEF Stepped
<1>1. CASE u \notin Present(w)
  <2>1. Step(r, u) = r
    BY <1>0, <1>1 DEF Step
  <2>2. QED
    BY <1>0, <1>1, <2>1
<1>2. CASE u \in Present(w)
  <2> DEFINE x == w.unit[u]
             y == Moved(x)
             moved == [w EXCEPT !.unit[u] = y]
  <2>1. x \in Bodies /\ Routed(x.steps, x.seen)
    BY <1>2, WorldParts DEF Planned
  <2>2. /\ y \in Bodies /\ Routed(y.steps, y.seen)
        /\ ~InMotion(x) => y = x
    BY <2>1, MovedFits
  <2>3. /\ moved \in Worlds /\ Present(moved) = Present(w)
        /\ \A v \in Present(w) : moved.unit[v] = IF v = u THEN y ELSE w.unit[v]
        /\ moved.seat = w.seat /\ moved.sitter = w.sitter /\ moved.rides = w.rides
    BY <1>2, <2>2, SetsUnit
  <2> HIDE DEF y, moved
  <2>4. Planned(moved)
    BY <2>2, <2>3 DEF Planned
  <2>5. Sitting(moved)
    BY <2>2, <2>3 DEF Sitting, Sits
  <2>6. CASE x.steps # <<>> /\ Outdated(x)
    <3>1. PICK e : Step(r, u) = [world |-> [w EXCEPT !.unit[u] = Cleared(x)], exits |-> e]
      BY <1>0, <1>2, <2>6 DEF Step
    <3>2. y = Cleared(x)
      BY <2>6 DEF y, Moved
    <3>3. Step(r, u) = [world |-> moved, exits |-> e]
      BY <3>1, <3>2 DEF moved
    <3>4. QED
      BY <2>3, <2>4, <2>5, <3>3 DEF y
  <2>7. CASE x.steps # <<>> /\ ~Outdated(x)
    <3>1. Step(r, u) = [r EXCEPT !.world.unit[u] = Advanced(x)]
      BY <1>0, <1>2, <2>7 DEF Step
    <3>2. y = Advanced(x)
      BY <2>7 DEF y, Moved
    <3>3. Step(r, u) = [world |-> moved, exits |-> so]
      BY <1>0, <3>1, <3>2 DEF moved
    <3>4. QED
      BY <2>3, <2>4, <2>5, <3>3 DEF y
  <2>8. CASE x.steps = <<>> /\ x.settling
    <3>1. PICK e : Step(r, u) = [world |-> Settled(w, u), exits |-> e]
      BY <1>0, <1>2, <2>8 DEF Step
    <3>2. y = [x EXCEPT !.settling = FALSE]
      BY <2>8 DEF y, Moved
    <3>3. Settled(w, u) = IF tile[x.at] = "seat" THEN Occupy(moved, u, x.at) ELSE moved
      BY <3>2 DEF Settled, moved
    <3>4. y.at = x.at /\ ~InMotion(y)
      BY <2>1, <2>8, <3>2 DEF Bodies, InMotion
    <3>5. CASE tile[x.at] # "seat"
      BY <2>3, <2>4, <2>5, <3>1, <3>3, <3>5 DEF y
    <3>6. CASE tile[x.at] = "seat"
      <4> DEFINE new == Occupy(moved, u, x.at)
      <4>1. /\ new \in Worlds /\ new.unit = moved.unit /\ new.rides = moved.rides /\ Sitting(new)
        BY <1>2, <2>3, <2>5, <3>4, <3>6, OccupyKeeps
      <4>2. Step(r, u) = [world |-> new, exits |-> e]
        BY <3>1, <3>3, <3>6
      <4> HIDE DEF new
      <4>3. Present(new) = Present(w) /\ Planned(new)
        BY <2>3, <2>4, <4>1 DEF Planned, Present
      <4>4. QED
        BY <2>3, <4>1, <4>2, <4>3 DEF y
    <3>7. QED
      BY <3>5, <3>6
  <2>9. CASE x.steps = <<>> /\ ~x.settling
    <3>1. Step(r, u) = r
      BY <1>0, <1>2, <2>9 DEF Step
    <3>2. y = x
      BY <2>9 DEF y, Moved
    <3>3. QED
      BY <1>0, <3>1, <3>2 DEF y
  <2>10. x.settling \in BOOLEAN
    BY <2>1 DEF Bodies
  <2>11. QED
    BY <2>6, <2>7, <2>8, <2>9, <2>10
<1>3. QED
  BY <1>0, <1>1, <1>2

\* Well-founded relations, as the library states them of one set and its subsets.
LEMMA WFFirst ==
    ASSUME NEW R, NEW U, IsWellFoundedOn(R, U), NEW T, T \subseteq U, T # {}
    PROVE  \E x \in T : \A y \in T : ~(<<y, x>> \in R)
  BY WFMin

\* A set of numbers has a first one.
LEMMA FirstOf == ASSUME NEW T \in SUBSET Nat, T # {} PROVE \E x \in T : \A y \in T : x <= y
<1> DEFINE R == {ss \in Nat \X Nat : ss[1] < ss[2]}
<1>1. IsWellFoundedOn(R, Nat)
  BY NatLessThanWellFounded, Zenon DEF OpToRel
<1>2. T \subseteq Nat /\ T # {}
  OBVIOUS
<1>3. PICK x \in T : \A y \in T : ~(<<y, x>> \in R)
  BY <1>1, <1>2, WFFirst
<1>4. ASSUME NEW y \in T PROVE x <= y
  <2>1. x \in Nat /\ y \in Nat /\ ~(<<y, x>> \in R)
    BY <1>3
  <2>2. ~(y < x)
    BY <2>1
  <2>3. QED
    BY <2>1, <2>2
<1>5. QED
  BY <1>4

\* The world after the first k units of a tick.
LEMMA TickedIs ==
    /\ Ticked[0] = [world |-> world, exits |-> <<>>]
    /\ \A k \in 1 .. Len(Order) : Ticked[k] = Step(Ticked[k - 1], Order[k])
<1> DEFINE base == [world |-> world, exits |-> <<>>]
           Is(f, n) == f = [k \in 0 .. n |-> IF k = 0 THEN base ELSE Step(f[k - 1], Order[k])]
           T == {n \in Nat : ~\E f : Is(f, n)}
<1>1. Len(Order) \in Nat
  BY WorldAssumption, LenProperties
<1>2. ASSUME NEW m \in Nat, NEW f, Is(f, m) PROVE \E g : Is(g, m + 1)
  <2> DEFINE g == [k \in 0 .. m + 1 |-> IF k = m + 1 THEN Step(f[m], Order[m + 1]) ELSE f[k]]
  <2>1. \A k \in 0 .. m : f[k] = IF k = 0 THEN base ELSE Step(f[k - 1], Order[k])
    BY <1>2
  <2>2. /\ \A k \in 0 .. m : g[k] = f[k] /\ k \in 0 .. m + 1
        /\ g[m + 1] = Step(f[m], Order[m + 1])
    OBVIOUS
  <2>3. ASSUME NEW k \in 0 .. m + 1
        PROVE  g[k] = IF k = 0 THEN base ELSE Step(g[k - 1], Order[k])
    <3>1. CASE k = 0
      BY <2>1, <2>2, <3>1
    <3>2. CASE k = m + 1
      <4>1. k - 1 = m /\ m \in 0 .. m /\ k # 0
        BY <3>2
      <4>2. QED
        BY <2>2, <3>2, <4>1
    <3>3. CASE k \in 1 .. m
      <4>1. k - 1 \in 0 .. m /\ k \in 0 .. m /\ k # 0
        BY <3>3
      <4>2. QED
        BY <2>1, <2>2, <4>1
    <3>4. QED
      BY <3>1, <3>2, <3>3
  <2>4. g = [k \in 0 .. m + 1 |-> g[k]]
    OBVIOUS
  <2> HIDE DEF g
  <2>5. Is(g, m + 1)
    BY <2>3, <2>4
  <2>6. QED
    BY <2>5
<1>3. \E f : Is(f, 0)
  <2> DEFINE f == [k \in 0 .. 0 |-> base]
  <2>1. Is(f, 0)
    OBVIOUS
  <2>2. QED
    BY <2>1
<1>4. T = {}
  <2> SUFFICES ASSUME T # {} PROVE FALSE
    OBVIOUS
  <2>1. T \in SUBSET Nat
    OBVIOUS
  <2>2. PICK x \in T : \A y \in T : x <= y
    BY <2>1, FirstOf
  <2>3. x \in Nat /\ ~\E f : Is(f, x)
    OBVIOUS
  <2>4. x # 0
    BY <1>3, <2>3
  <2>5. x - 1 \in Nat /\ x - 1 \notin T /\ (x - 1) + 1 = x
    <3>1. x - 1 \in Nat /\ (x - 1) + 1 = x /\ ~(x <= x - 1)
      BY <2>3, <2>4
    <3>2. QED
      BY <2>2, <3>1
  <2>6. \E f : Is(f, x - 1)
    BY <2>5
  <2>7. \E g : Is(g, (x - 1) + 1)
    BY <1>2, <2>5, <2>6
  <2>8. QED
    BY <2>3, <2>5, <2>7
<1>5. \E f : Is(f, Len(Order))
  BY <1>1, <1>4
<1>6. Is(Ticked, Len(Order))
  BY <1>5 DEF Ticked
<1>7. \A k \in 0 .. Len(Order) :
        Ticked[k] = IF k = 0 THEN base ELSE Step(Ticked[k - 1], Order[k])
  <2>1. PICK f : f = Ticked
    OBVIOUS
  <2>2. f = [k \in 0 .. Len(Order) |-> IF k = 0 THEN base ELSE Step(f[k - 1], Order[k])]
    BY <1>6, <2>1
  <2>3. \A k \in 0 .. Len(Order) : f[k] = IF k = 0 THEN base ELSE Step(f[k - 1], Order[k])
    BY <2>2
  <2>4. QED
    BY <2>1, <2>3
<1>8. QED
  BY <1>1, <1>7
\* The first k units have moved, the others not yet.
LEMMA TickedMoves ==
    ASSUME Kept(world), NEW k \in 0 .. Len(Order)
    PROVE  \E w, e :
              /\ w \in Worlds /\ Ticked[k] = [world |-> w, exits |-> e]
              /\ Present(w) = Present(world) /\ w.rides = world.rides
              /\ \A v \in Present(world) :
                    w.unit[v] = IF \E i \in 1 .. k : Order[i] = v THEN Moved(world.unit[v])
                                ELSE world.unit[v]
              /\ Planned(w) /\ Sitting(w)
<1> DEFINE Is(w, e, n) ==
              /\ w \in Worlds /\ Ticked[n] = [world |-> w, exits |-> e]
              /\ Present(w) = Present(world) /\ w.rides = world.rides
              /\ \A v \in Present(world) :
                    w.unit[v] = IF \E i \in 1 .. n : Order[i] = v THEN Moved(world.unit[v])
                                ELSE world.unit[v]
              /\ Planned(w) /\ Sitting(w)
           T == {n \in 0 .. Len(Order) : ~\E w, e : Is(w, e, n)}
<1>1. Len(Order) \in Nat
  BY WorldAssumption, LenProperties
<1>2. Is(world, <<>>, 0)
  BY TickedIs DEF Kept
<1>3. ASSUME NEW n \in 1 .. Len(Order), NEW w, NEW e, Is(w, e, n - 1)
      PROVE  \E m, f : Is(m, f, n)
  <2>1. n \in Nat /\ n \in DOMAIN Order /\ Ticked[n] = Step(Ticked[n - 1], Order[n])
    BY <1>1, TickedIs, WorldAssumption
  <2>2. PICK m, f :
          /\ m \in Worlds /\ Step(Ticked[n - 1], Order[n]) = [world |-> m, exits |-> f]
          /\ Present(m) = Present(w) /\ m.rides = w.rides
          /\ \A v \in Present(w) :
                m.unit[v] = IF v = Order[n] THEN Moved(w.unit[v]) ELSE w.unit[v]
          /\ Planned(m) /\ Sitting(m)
    <3>1. PICK u : u = Order[n]
      OBVIOUS
    <3>2. /\ w \in Worlds /\ Planned(w) /\ Sitting(w)
          /\ Ticked[n - 1] = [world |-> w, exits |-> e]
      BY <1>3
    <3>3. PICK m, f : /\ Step([world |-> w, exits |-> e], u) = [world |-> m, exits |-> f]
                      /\ Stepped(w, u, m)
      BY <3>2, StepMoves, Zenon
    <3>4. QED
      BY <3>1, <3>2, <3>3 DEF Stepped
  <2>3. ASSUME NEW v \in Present(world)
        PROVE  m.unit[v] = IF \E i \in 1 .. n : Order[i] = v THEN Moved(world.unit[v])
                           ELSE world.unit[v]
    <3>1. CASE v = Order[n]
      <4>1. \A i \in 1 .. n - 1 : i \in DOMAIN Order /\ Order[i] # v
        BY <1>1, <2>1, <3>1, WorldAssumption
      <4>2. w.unit[v] = world.unit[v]
        BY <1>3, <4>1
      <4>3. n \in 1 .. n
        BY <2>1
      <4>4. QED
        BY <1>3, <2>2, <3>1, <4>2, <4>3
    <3>2. CASE v # Order[n]
      <4>1. (\E i \in 1 .. n : Order[i] = v) <=> (\E i \in 1 .. n - 1 : Order[i] = v)
        BY <2>1, <3>2
      <4>2. QED
        BY <1>3, <2>2, <3>2, <4>1
    <3>3. QED
      BY <3>1, <3>2
  <2>4. Is(m, f, n)
    BY <1>3, <2>1, <2>2, <2>3
  <2>5. QED
    BY <2>4
<1> HIDE DEF Is
<1>4. T = {}
  <2> SUFFICES ASSUME T # {} PROVE FALSE
    OBVIOUS
  <2>1. T \in SUBSET Nat
    OBVIOUS
  <2>2. PICK x \in T : \A y \in T : x <= y
    BY <2>1, FirstOf
  <2>3. x \in 0 .. Len(Order) /\ ~\E w, e : Is(w, e, x)
    OBVIOUS
  <2>4. x # 0
    BY <1>2, <2>3
  <2>5. x \in 1 .. Len(Order) /\ x - 1 \in 0 .. Len(Order) /\ ~(x <= x - 1)
    BY <1>1, <2>3, <2>4
  <2>6. \E w, e : Is(w, e, x - 1)
    BY <2>2, <2>5
  <2>7. \E m, f : Is(m, f, x)
    BY <1>3, <2>5, <2>6
  <2>8. QED
    BY <2>3, <2>7
<1>5. \E w, e : Is(w, e, k)
  BY <1>4
<1>6. QED
  BY <1>5 DEF Is

\* A tick of the whole room.
LEMMA TickHandled ==
    ASSUME Kept(world)
    PROVE  Handled(world, Ticked[Len(Order)].world)
<1> DEFINE last == Len(Order)
<1>1. last \in Nat /\ last \in 0 .. last
  BY WorldAssumption, LenProperties
<1>2. PICK w, e :
        /\ w \in Worlds /\ Ticked[last] = [world |-> w, exits |-> e]
        /\ Present(w) = Present(world) /\ w.rides = world.rides
        /\ \A v \in Present(world) :
              w.unit[v] = IF \E i \in 1 .. last : Order[i] = v THEN Moved(world.unit[v])
                          ELSE world.unit[v]
        /\ Planned(w) /\ Sitting(w)
  BY <1>1, TickedMoves
<1>3. world.unit \in [Present(world) -> Bodies] /\ Present(world) \subseteq Units
  BY WorldParts DEF Kept
<1>4. \A v \in Present(world) : w.unit[v] = Moved(world.unit[v])
  <2>1. \A v \in Units : \E i \in 1 .. last : Order[i] = v
    BY WorldAssumption
  <2>2. QED
    BY <1>2, <1>3, <2>1
<1>5. Paired(w) /\ Together(w)
  BY <1>2, <1>4 DEF Kept, Paired, Together
<1>6. Steady(world, w)
  <2> SUFFICES ASSUME NEW u \in Present(world)
               PROVE  \/ w.unit[u] = world.unit[u] \/ w.unit[u].seen = <<>>
                      \/ Valid(w.unit[u].seen) \/ world.unit[u].steps = <<>>
    BY DEF Steady
  <2>1. world.unit[u] \in Bodies /\ Routed(world.unit[u].steps, world.unit[u].seen)
    BY <1>3 DEF Kept, Planned
  <2>2. QED
    BY <1>4, <2>1, MovedFits
<1>7. Ticked[last].world = w
  BY <1>2
<1>8. QED
  BY <1>2, <1>5, <1>6, <1>7 DEF Handled, Kept
-----------------------------------------------------------------------------
(***************************************************************************)
(* One action at a time.                                                   *)
(***************************************************************************)
\* A world is kept as long as the surface is what it was.
LEMMA KeptStays == ASSUME UNCHANGED surface, NEW w, Kept(w) PROVE Kept(w)'
<1>1. tile' = tile /\ version' = version
  BY DEF surface
<1>2. \A steps, seen : Routed(steps, seen)' <=> Routed(steps, seen)
  BY <1>1 DEF Routed, Walkable, Valid
<1>3. \A t : Sits(w, t)' <=> Sits(w, t)
  BY <1>1 DEF Sits, Present
<1>4. QED
  BY <1>2, <1>3 DEF Kept, Planned, Paired, Together, Sitting, Present

\* So do the plans.
LEMMA PlansStay ==
    ASSUME PlansFit, UNCHANGED <<surface, kick>>,
           job' \in [Players -> {Idle, [step |-> "miss"], [step |-> "face"]} \union Walks],
           \A u \in Players : job'[u].step = "apply" =>
              job'[u] = job[u] \/ Routed(job'[u].path, job'[u].seen)
    PROVE  PlansFit'
<1>1. tile' = tile /\ version' = version /\ kick' = kick
  BY DEF surface
<1>2. \A steps, seen : Routed(steps, seen)' <=> Routed(steps, seen)
  BY <1>1 DEF Routed, Walkable, Valid
<1>3. \A u \in Players : job'[u].step = "apply" => Routed(job'[u].path, job'[u].seen)
  BY DEF PlansFit
<1>4. QED
  BY <1>1, <1>2, <1>3 DEF PlansFit

\* What every action but a change of furniture does: the world is handled, the plans fit.
LEMMA HandledWell ==
    ASSUME WorldInv, UNCHANGED surface, PlansFit', NEW new, new = world', Handled(world, new)
    PROVE  WorldInv' /\ Steady(world, new)
<1>1. Kept(new)'
  BY KeptStays DEF Handled
<1>2. Kept(world)'
  BY <1>1
<1>3. SurfaceFits'
  BY DEF WorldInv, SurfaceFits, surface
<1>4. QED
  BY <1>2, <1>3 DEF WorldInv, Handled

\* Whoever does nothing to the world keeps it.
LEMMA SameHandled == ASSUME NEW w, Kept(w) PROVE Handled(w, w)
  BY DEF Handled, Steady

\* The plans stay where nobody plans.
LEMMA PlansRest ==
    ASSUME PlansFit, UNCHANGED <<surface, job>>, DOMAIN kick' \subseteq DOMAIN kick,
           \A u \in DOMAIN kick' : kick'[u] = kick[u]
    PROVE  PlansFit'
<1>1. tile' = tile /\ version' = version /\ job' = job
  BY DEF surface
<1>2. \A steps, seen : Routed(steps, seen)' <=> Routed(steps, seen)
  BY <1>1 DEF Routed, Walkable, Valid
<1>3. QED
  BY <1>1, <1>2 DEF PlansFit

\* What is planned keeps off what is in the way.
LEMMA PlansFound ==
    ASSUME WorldInv, NEW u \in Present(world), NEW goal, NEW c \in Controls,
           NEW p \in Plans(u, goal, c)
    PROVE  p \in Walks /\ Routed(p.path, p.seen)
<1> DEFINE from == world.unit[u].at
<1>1. from \in Tiles
  BY WorldParts DEF WorldInv, Kept, Bodies
<1>2. PICK r \in Routes(from, goal, Occupied(u)) :
        p = [step |-> "apply", path |-> r, seen |-> Observed(from, r), control |-> c]
  BY DEF Plans
<1> HIDE DEF from
<1>3. r \in Seq(Tiles) /\ Observed(from, r) \in Seens /\ Routed(r, Observed(from, r))
  BY <1>1, RoutesWalkable DEF WorldInv
<1>4. QED
  BY <1>2, <1>3 DEF Walks

\* A job of a player's goroutine is replaced by one without a path, or by a plan.
LEMMA JobsStay ==
    ASSUME WorldInv, UNCHANGED <<surface, kick>>, NEW u \in Players, NEW next,
           job' = [job EXCEPT ![u] = next],
           \/ next \in {Idle, [step |-> "miss"], [step |-> "face"]}
           \/ next \in Walks /\ Routed(next.path, next.seen)
    PROVE  PlansFit'
<1>1. job \in [Players -> {Idle, [step |-> "miss"], [step |-> "face"]} \union Walks]
  BY DEF WorldInv, PlansFit
<1>2. job' \in [Players -> {Idle, [step |-> "miss"], [step |-> "face"]} \union Walks]
  BY <1>1
<1>3. ASSUME NEW v \in Players, job'[v].step = "apply"
      PROVE  job'[v] = job[v] \/ Routed(job'[v].path, job'[v].seen)
  <2>1. CASE v # u
    BY <1>1, <2>1
  <2>2. CASE v = u
    <3>1. job'[v] = next
      BY <1>1, <2>2
    <3>2. next \notin {Idle, [step |-> "miss"], [step |-> "face"]}
      BY <1>3, <3>1 DEF Idle
    <3>3. QED
      BY <3>1, <3>2
  <2>3. QED
    BY <2>1, <2>2
<1>4. QED
  BY <1>2, <1>3, PlansStay DEF WorldInv

\* Walking is planned, and the world stays.
LEMMA WalkWell ==
    ASSUME WorldInv, NEW u \in Players, Walk(u), NEW new, new = world'
    PROVE  WorldInv' /\ Steady(world, new)
<1>1. u \in Present(world) /\ world' = world /\ UNCHANGED <<surface, kick>>
  BY DEF Walk
<1>2. PICK goal \in Tiles :
        \/ job' = [job EXCEPT ![u] = [step |-> "miss"]]
        \/ \E p \in Plans(u, goal, "none") :
              job' = [job EXCEPT ![u] = IF p.path = <<>> THEN Idle ELSE p]
  BY DEF Walk
<1>3. PlansFit'
  <2>1. CASE job' = [job EXCEPT ![u] = [step |-> "miss"]]
    BY <1>1, <2>1, JobsStay
  <2>2. ASSUME NEW p \in Plans(u, goal, "none"),
               job' = [job EXCEPT ![u] = IF p.path = <<>> THEN Idle ELSE p]
        PROVE  PlansFit'
    <3>1. "none" \in Controls
      BY DEF Controls
    <3>2. p \in Walks /\ Routed(p.path, p.seen)
      BY <1>1, <3>1, PlansFound
    <3>3. PICK next : next = IF p.path = <<>> THEN Idle ELSE p
      OBVIOUS
    <3>4. next = Idle \/ next = p
      BY <3>3
    <3>5. job' = [job EXCEPT ![u] = next]
      BY <2>2, <3>3
    <3>6. QED
      BY <1>1, <3>2, <3>4, <3>5, JobsStay
  <2>3. QED
    BY <1>2, <2>1, <2>2
<1>4. Handled(world, new)
  BY <1>1, SameHandled DEF WorldInv
<1>5. QED
  BY <1>1, <1>3, <1>4, HandledWell

\* A plan is applied, or missed.
LEMMA ApplyWalkWell ==
    ASSUME WorldInv, NEW u \in Players, ApplyWalk(u), NEW new, new = world'
    PROVE  WorldInv' /\ Steady(world, new)
<1>1. job[u].step = "apply" /\ UNCHANGED <<surface, kick>>
  BY DEF ApplyWalk
<1>2. job[u] \in Walks /\ Routed(job[u].path, job[u].seen)
  BY <1>1 DEF WorldInv, PlansFit, Idle
<1>3. PICK next \in {Idle, [step |-> "miss"]} : job' = [job EXCEPT ![u] = next]
  BY DEF ApplyWalk
<1>4. PlansFit'
  BY <1>1, <1>3, JobsStay
<1>5. CASE Applies(u, job[u])
  <2>1. u \in Present(world) /\ Valid(job[u].seen)
    BY <1>5 DEF Applies
  <2>2. world' = AssignPath(world, u, job[u].path, job[u].seen, job[u].control)
    BY <1>5 DEF ApplyWalk
  <2>3. job[u].control \in Controls
    BY <1>2 DEF Walks
  <2>4. Handled(world, new)
    BY <1>2, <2>1, <2>2, <2>3, AssignHandled DEF WorldInv
  <2>5. QED
    BY <1>1, <1>4, <2>4, HandledWell
<1>6. CASE ~Applies(u, job[u])
  <2>1. world' = world
    BY <1>6 DEF ApplyWalk
  <2>2. Handled(world, new)
    BY <2>1, SameHandled DEF WorldInv
  <2>3. QED
    BY <1>1, <1>4, <2>2, HandledWell
<1>7. QED
  BY <1>5, <1>6

\* A missed plan stops who is in motion.
LEMMA MissWell ==
    ASSUME WorldInv, NEW u \in Players, Miss(u), NEW new, new = world'
    PROVE  WorldInv' /\ Steady(world, new)
<1>1. UNCHANGED <<surface, kick>>
  BY DEF Miss
<1>2. PICK next \in {Idle, [step |-> "face"]} : job' = [job EXCEPT ![u] = next]
  BY DEF Miss
<1>3. PlansFit'
  BY <1>1, <1>2, JobsStay
<1>4. world' = world \/ (u \in Present(world) /\ world' = Stop(world, u))
  BY DEF Miss
<1>5. Handled(world, new)
  BY <1>4, SameHandled, StopHandled DEF WorldInv
<1>6. QED
  BY <1>1, <1>3, <1>5, HandledWell

\* Turning to the missed tile.
LEMMA FaceWell ==
    ASSUME WorldInv, NEW u \in Players, Face(u), NEW new, new = world'
    PROVE  WorldInv' /\ Steady(world, new)
<1>1. UNCHANGED <<surface, kick>> /\ job' = [job EXCEPT ![u] = Idle]
  BY DEF Face
<1>2. PlansFit'
  BY <1>1, JobsStay
<1>3. \/ world' = world
      \/ /\ u \in Present(world)
         /\ world' = Update(world, Linked(world, u),
                            [v \in Linked(world, u) |-> Cleared(world.unit[v])])
  BY DEF Face
<1>4. "none" \in Controls
  BY DEF Controls
<1>5. Handled(world, new)
  BY <1>3, <1>4, SameHandled, ControlHandled DEF WorldInv
<1>6. QED
  BY <1>1, <1>2, <1>5, HandledWell

\* A kick is planned, or removes the unit.
LEMMA KickWell ==
    ASSUME WorldInv, NEW u \in Players, Kick(u), NEW new, new = world'
    PROVE  WorldInv' /\ Steady(world, new)
<1>1. u \in Present(world) /\ UNCHANGED <<surface, job>>
  BY DEF Kick
<1>2. CASE world' = RemoveUnit(world, u) /\ UNCHANGED kick
  <2>1. PlansFit'
    BY <1>1, <1>2, PlansRest DEF WorldInv
  <2>2. Handled(world, new)
    BY <1>1, <1>2, RemoveHandled DEF WorldInv
  <2>3. QED
    BY <1>1, <2>1, <2>2, HandledWell
<1>3. ASSUME world' = world, NEW p \in Plans(u, Door, "exiting"), kick' = With(kick, u, p)
      PROVE  WorldInv' /\ Steady(world, new)
  <2>1. "exiting" \in Controls
    BY DEF Controls
  <2>2. p \in Walks /\ Routed(p.path, p.seen)
    BY <1>1, <1>3, <2>1, PlansFound
  <2>3. /\ DOMAIN kick' = DOMAIN kick \union {u} /\ kick'[u] = p
        /\ \A v \in DOMAIN kick \ {u} : kick'[v] = kick[v]
    BY <1>3 DEF With
  <2>4. tile' = tile /\ version' = version /\ job' = job
    BY <1>1 DEF surface
  <2>5. \A steps, seen : Routed(steps, seen)' <=> Routed(steps, seen)
    BY <2>4 DEF Routed, Walkable, Valid
  <2>6. \A v \in DOMAIN kick' : kick'[v] \in Walks /\ Routed(kick'[v].path, kick'[v].seen)
    BY <2>2, <2>3 DEF WorldInv, PlansFit
  <2>7. PlansFit'
    BY <2>3, <2>4, <2>5, <2>6 DEF WorldInv, PlansFit, Units
  <2>8. Handled(world, new)
    BY <1>3, SameHandled DEF WorldInv
  <2>9. QED
    BY <1>1, <2>7, <2>8, HandledWell
<1>4. \/ world' = RemoveUnit(world, u) /\ UNCHANGED kick
      \/ world' = world /\ \E p \in Plans(u, Door, "exiting") : kick' = With(kick, u, p)
  BY DEF Kick
<1>5. QED
  BY <1>2, <1>3, <1>4

\* A planned exit is applied, or the unit removed.
LEMMA ApplyKickWell ==
    ASSUME WorldInv, NEW u \in Players, ApplyKick(u), NEW new, new = world'
    PROVE  WorldInv' /\ Steady(world, new)
<1>1. u \in DOMAIN kick /\ UNCHANGED <<surface, job>> /\ kick' = Without(kick, u)
  BY DEF ApplyKick
<1>2. kick[u] \in Walks /\ Routed(kick[u].path, kick[u].seen)
  BY <1>1 DEF WorldInv, PlansFit
<1>3. DOMAIN kick' = DOMAIN kick \ {u} /\ \A v \in DOMAIN kick' : kick'[v] = kick[v]
  BY <1>1 DEF Without, Restrict
<1>4. PlansFit'
  BY <1>1, <1>3, PlansRest DEF WorldInv
<1>5. CASE Applies(u, kick[u])
  <2>1. u \in Present(world) /\ Valid(kick[u].seen) /\ "exiting" \in Controls
    BY <1>5 DEF Applies, Controls
  <2>2. world' = AssignPath(world, u, kick[u].path, kick[u].seen, "exiting")
    BY <1>5 DEF ApplyKick
  <2>3. Handled(world, new)
    BY <1>2, <2>1, <2>2, AssignHandled DEF WorldInv
  <2>4. QED
    BY <1>1, <1>4, <2>3, HandledWell
<1>6. CASE ~Applies(u, kick[u])
  <2>1. world' = world \/ (u \in Present(world) /\ world' = RemoveUnit(world, u))
    BY <1>6 DEF ApplyKick
  <2>2. Handled(world, new)
    BY <2>1, SameHandled, RemoveHandled DEF WorldInv
  <2>3. QED
    BY <1>1, <1>4, <2>2, HandledWell
<1>7. QED
  BY <1>5, <1>6

\* The commands that leave every plan alone.
LEMMA CommandWell ==
    ASSUME WorldInv, UNCHANGED <<surface, job, kick>>, NEW new, new = world', Handled(world, new)
    PROVE  WorldInv' /\ Steady(world, new)
<1>1. PlansFit'
  BY PlansRest DEF WorldInv
<1>2. QED
  BY <1>1, HandledWell

\* Entering, leaving, stopping, being put or held somewhere.
LEMMA OrdersWell ==
    ASSUME WorldInv, NEW u \in Units, NEW new, new = world',
           \/ (u \in Players /\ Enter(u)) \/ (u \in Pets /\ AddEntity(u))
           \/ Leave(u) \/ Decorate(u) \/ Teleport(u) \/ Control(u)
    PROVE  WorldInv' /\ Steady(world, new)
<1>1. Kept(world)
  BY DEF WorldInv
<1>2. CASE u \in Players /\ Enter(u)
  <2>1. /\ u \notin Present(world) /\ UNCHANGED <<surface, job, kick>>
        /\ world' = [world EXCEPT !.unit = With(@, u, Standing(Door))]
    BY <1>2 DEF Enter
  <2>2. Handled(world, new)
    BY <1>1, <2>1, EnterHandled, WorldAssumption
  <2>3. QED
    BY <2>1, <2>2, CommandWell
<1>3. CASE u \in Pets /\ AddEntity(u)
  <2>1. u \notin Present(world) /\ UNCHANGED <<surface, job, kick>>
    BY <1>3 DEF AddEntity
  <2>2. PICK t \in Tiles : world' = [world EXCEPT !.unit = With(@, u, Standing(t))]
    BY <1>3 DEF AddEntity
  <2>3. Handled(world, new)
    BY <1>1, <2>1, <2>2, EnterHandled
  <2>4. QED
    BY <2>1, <2>3, CommandWell
<1>4. CASE Leave(u)
  <2>1. /\ u \in Present(world) /\ UNCHANGED <<surface, job, kick>>
        /\ world' = RemoveUnit(world, u)
    BY <1>4 DEF Leave
  <2>2. Handled(world, new)
    BY <1>1, <2>1, RemoveHandled
  <2>3. QED
    BY <2>1, <2>2, CommandWell
<1>5. CASE Decorate(u)
  <2>1. /\ u \in Present(world) /\ UNCHANGED <<surface, job, kick>>
        /\ world' = Stop(world, u)
    BY <1>5 DEF Decorate
  <2>2. Handled(world, new)
    BY <1>1, <2>1, StopHandled
  <2>3. QED
    BY <2>1, <2>2, CommandWell
<1>6. CASE Teleport(u)
  <2>1. u \in Present(world) /\ UNCHANGED <<surface, job, kick>>
    BY <1>6 DEF Teleport
  <2>2. PICK t \in Tiles, c \in {"none", "teleporting"} : world' = Reposition(world, u, t, c)
    BY <1>6 DEF Teleport
  <2>3. c \in Controls
    BY DEF Controls
  <2>4. Handled(world, new)
    BY <1>1, <2>1, <2>2, <2>3, RepositionHandled
  <2>5. QED
    BY <2>1, <2>4, CommandWell
<1>7. CASE Control(u)
  <2>1. u \in Present(world) /\ UNCHANGED <<surface, job, kick>>
    BY <1>7 DEF Control
  <2>2. PICK c \in {"none", "frozen"} :
          world' = Update(world, Linked(world, u),
                          [v \in Linked(world, u) |-> Controlled(world.unit[v], c)])
    BY <1>7 DEF Control
  <2>3. c \in Controls
    BY DEF Controls
  <2>4. Handled(world, new)
    BY <1>1, <2>1, <2>2, <2>3, ControlHandled
  <2>5. QED
    BY <2>1, <2>4, CommandWell
<1>8. QED
  BY <1>2, <1>3, <1>4, <1>5, <1>6, <1>7

\* Getting on a pet, and off it.
LEMMA MountsWell ==
    ASSUME WorldInv, NEW u \in Players, NEW pet \in Pets, Mount(u, pet) \/ Dismount(u, pet),
           NEW new, new = world'
    PROVE  WorldInv' /\ Steady(world, new)
<1>1. Kept(world) /\ UNCHANGED <<surface, job, kick>>
  BY DEF WorldInv, Mount, Dismount
<1>2. CASE Mount(u, pet)
  <2>1. /\ u \in Present(world) /\ pet \in Present(world)
        /\ Linked(world, u) \subseteq {u, pet} /\ Linked(world, pet) \subseteq {u, pet}
    BY <1>2 DEF Mount
  <2>2. PICK t \in Tiles : t = world.unit[pet].at
    BY <1>1, <2>1, WorldParts DEF Kept, Bodies
  <2>3. world' = Mounted(world, u, pet, t)
    BY <1>2, <2>2 DEF Mount, Mounted
  <2>4. Handled(world, new)
    BY <1>1, <2>1, <2>3, MountHandled
  <2>5. QED
    BY <1>1, <2>4, CommandWell
<1>3. CASE Dismount(u, pet)
  <2>1. <<u, pet>> \in world.rides /\ world' = ReleaseAll(Unlink(world, u), {u, pet})
    BY <1>3 DEF Dismount
  <2>2. u \in Present(world)
    BY <1>1, <2>1 DEF Kept, Together
  <2>3. Handled(world, Unlink(world, u))
    BY <1>1, <2>2, UnlinkHandled
  <2>4. Handled(world, new)
    BY <2>1, <2>3, ReleaseHandled
  <2>5. QED
    BY <1>1, <2>4, CommandWell
<1>4. QED
  BY <1>2, <1>3

\* Reloading a piece of furniture: plans and paths over it are outdated, a sitter whose
\* seat is gone stands up.
LEMMA ReloadWell ==
    ASSUME WorldInv, NEW t \in Tiles, Reload(t), NEW new, new = world'
    PROVE  WorldInv' /\ Steady(world, new)
<1>1. Kept(world) /\ SurfaceFits /\ PlansFit
  BY DEF WorldInv
<1>2. PICK s \in {"open", "seat", "blocked"} :
        /\ tile' = [tile EXCEPT ![t] = s]
        /\ world' = IF tile[t] = "seat" /\ s # "seat" /\ t \in DOMAIN world.sitter
                    THEN Release(world, world.sitter[t]) ELSE world
  BY DEF Reload
<1>3. version' = [version EXCEPT ![t] = @ + 1] /\ job' = job /\ kick' = kick
  BY DEF Reload
<1>4. SurfaceFits'
  BY <1>1, <1>2, <1>3 DEF SurfaceFits
<1>5. ASSUME NEW steps \in Seq(Tiles), NEW seen \in Seens, Routed(steps, seen)
      PROVE  Routed(steps, seen)'
  BY <1>1, <1>2, <1>3, <1>5, RoutedStays
<1>6. PlansFit'
  <2>1. ASSUME NEW p \in Walks, Routed(p.path, p.seen) PROVE Routed(p.path, p.seen)'
    <3>1. p.path \in Seq(Tiles) /\ p.seen \in Seens
      BY DEF Walks
    <3>2. PICK steps, seen : steps = p.path /\ seen = p.seen
      OBVIOUS
    <3>3. Routed(steps, seen)'
      BY <1>5, <2>1, <3>1, <3>2
    <3>4. QED
      BY <3>2, <3>3
  <2>2. \A v \in Players :
          job[v].step = "apply" => job[v] \in Walks /\ Routed(job[v].path, job[v].seen)
    BY <1>1 DEF PlansFit, Idle
  <2>3. \A p \in Walks : Routed(p.path, p.seen) => Routed(p.path, p.seen)'
    BY <2>1
  <2>4. QED
    BY <1>1, <1>3, <2>2, <2>3 DEF PlansFit
<1>7. /\ Kept(new) /\ new.unit = world.unit
      /\ \A x \in DOMAIN new.sitter : x # t \/ tile[t] # "seat" \/ s = "seat"
  <2>1. CASE tile[t] = "seat" /\ s # "seat" /\ t \in DOMAIN world.sitter
    <3> DEFINE u == world.sitter[t]
    <3>1. new = ReleaseAll(world, {u})
      BY <1>2, <2>1 DEF Release
    <3>2. u \in DOMAIN world.seat /\ world.seat[u] = t
      BY <1>1, <2>1 DEF Kept, Sitting, Sits
    <3> HIDE DEF u
    <3>3. Kept(new)
      BY <1>1, <3>1, ReleasesKeep
    <3>4. new.unit = world.unit /\ t \notin DOMAIN new.sitter
      BY <1>1, <3>1, <3>2, Releases DEF Kept
    <3>5. QED
      BY <3>3, <3>4
  <2>2. CASE ~(tile[t] = "seat" /\ s # "seat" /\ t \in DOMAIN world.sitter)
    BY <1>1, <1>2, <2>2
  <2>3. QED
    BY <2>1, <2>2
<1>8. Planned(new)'
  <2>1. new.unit \in [Present(new) -> Bodies]
    BY <1>7, WorldParts DEF Kept
  <2>2. ASSUME NEW u \in Present(new) PROVE Routed(new.unit[u].steps, new.unit[u].seen)'
    <3>1. PICK steps, seen : steps = new.unit[u].steps /\ seen = new.unit[u].seen
      OBVIOUS
    <3>2. steps \in Seq(Tiles) /\ seen \in Seens
      BY <2>1, <3>1 DEF Bodies
    <3>3. Routed(steps, seen)
      BY <1>7, <3>1 DEF Kept, Planned
    <3>4. Routed(steps, seen)'
      BY <1>5, <3>2, <3>3
    <3>5. QED
      BY <3>1, <3>4
  <2>3. QED
    BY <2>2 DEF Planned, Present
<1>9. Sitting(new)'
  <2>1. ASSUME NEW x \in DOMAIN new.sitter PROVE Sits(new, x)'
    <3>1. Sits(new, x)
      BY <1>7 DEF Kept, Sitting
    <3>2. x # t \/ tile[t] # "seat" \/ s = "seat"
      BY <1>7
    <3>3. x \in Tiles /\ tile \in [Tiles -> {"open", "seat", "blocked"}]
      BY <1>1, <1>7, WorldParts DEF Kept, SurfaceFits
    <3>4. tile'[x] = "seat"
      BY <1>2, <3>1, <3>2, <3>3 DEF Sits
    <3>5. QED
      BY <3>1, <3>4 DEF Sits, Present
  <2>2. QED
    BY <2>1 DEF Sitting
<1>10. Kept(new)'
  BY <1>7, <1>8, <1>9 DEF Kept, Paired, Together, Present
<1>11. Kept(world)'
  BY <1>10
<1>12. Steady(world, new)
  BY <1>7 DEF Steady, Present
<1>13. QED
  BY <1>4, <1>6, <1>11, <1>12 DEF WorldInv

\* The room loop.
LEMMA LoopWell ==
    ASSUME WorldInv, Tick \/ Exit, NEW new, new = world'
    PROVE  WorldInv' /\ Steady(world, new)
<1>1. Kept(world) /\ UNCHANGED <<surface, job, kick>>
  BY DEF WorldInv, Tick, Exit
<1>2. CASE Tick
  <2>1. world' = Ticked[Len(Order)].world
    BY <1>2 DEF Tick
  <2>2. Handled(world, new)
    BY <1>1, <2>1, TickHandled
  <2>3. QED
    BY <1>1, <2>2, CommandWell
<1>3. CASE Exit
  <2>1. world' = world \/ \E u \in Present(world) : world' = RemoveUnit(world, u)
    BY <1>3 DEF Exit
  <2>2. Handled(world, new)
    BY <1>1, <2>1, SameHandled, RemoveHandled
  <2>3. QED
    BY <1>1, <2>2, CommandWell
<1>4. QED
  BY <1>2, <1>3

\* Every step keeps the invariant, and a unit on a path keeps to what was read for it.
LEMMA StepsWell ==
    ASSUME WorldInv, [WorldNext]_room
    PROVE  WorldInv' /\ Steady(world, world')
<1>1. PICK new : new = world'
  OBVIOUS
<1>2. CASE room' = room
  <2>1. world' = world /\ UNCHANGED <<surface, job, kick>>
    BY <1>2 DEF room
  <2>2. Handled(world, new)
    BY <1>1, <2>1, SameHandled DEF WorldInv
  <2>3. QED
    BY <1>1, <2>1, <2>2, CommandWell
<1>3. ASSUME NEW u \in Players, Orders(u) \/ Finish(u)
      PROVE  WorldInv' /\ Steady(world, new)
  <2>1. CASE Walk(u)
    BY <1>1, <2>1, WalkWell
  <2>2. CASE Kick(u)
    BY <1>1, <2>2, KickWell
  <2>3. CASE Enter(u) \/ Leave(u) \/ Decorate(u) \/ Teleport(u) \/ Control(u)
    BY <1>1, <2>3, OrdersWell DEF Units
  <2>4. CASE \E pet \in Pets : Mount(u, pet) \/ Dismount(u, pet)
    BY <1>1, <2>4, MountsWell
  <2>5. CASE ApplyWalk(u)
    BY <1>1, <2>5, ApplyWalkWell
  <2>6. CASE Miss(u)
    BY <1>1, <2>6, MissWell
  <2>7. CASE Face(u)
    BY <1>1, <2>7, FaceWell
  <2>8. CASE ApplyKick(u)
    BY <1>1, <2>8, ApplyKickWell
  <2>9. QED
    BY <1>3, <2>1, <2>2, <2>3, <2>4, <2>5, <2>6, <2>7, <2>8 DEF Orders, Finish
<1>4. ASSUME NEW pet \in Pets, AddEntity(pet) \/ Leave(pet) \/ Teleport(pet) \/ Control(pet)
      PROVE  WorldInv' /\ Steady(world, new)
  BY <1>1, <1>4, OrdersWell DEF Units
<1>5. ASSUME NEW t \in Tiles, Reload(t) PROVE WorldInv' /\ Steady(world, new)
  BY <1>1, <1>5, ReloadWell
<1>6. ASSUME Tick \/ Exit PROVE WorldInv' /\ Steady(world, new)
  BY <1>1, <1>6, LoopWell
<1>7. \/ room' = room
      \/ \E u \in Players : Orders(u) \/ Finish(u)
      \/ \E pet \in Pets : AddEntity(pet) \/ Leave(pet) \/ Teleport(pet) \/ Control(pet)
      \/ \E t \in Tiles : Reload(t)
      \/ Tick \/ Exit
  BY Zenon DEF WorldNext
<1>8. WorldInv' /\ Steady(world, new)
  <2>1. CASE room' = room
    BY <1>1, <1>2, <2>1
  <2>2. CASE \E u \in Players : Orders(u) \/ Finish(u)
    BY <1>3, <2>2
  <2>3. CASE \E pet \in Pets : AddEntity(pet) \/ Leave(pet) \/ Teleport(pet) \/ Control(pet)
    BY <1>4, <2>3
  <2>4. CASE \E t \in Tiles : Reload(t)
    BY <1>5, <2>4
  <2>5. CASE Tick \/ Exit
    BY <1>6, <2>5
  <2>6. QED
    BY <1>7, <2>1, <2>2, <2>3, <2>4, <2>5
<1>9. QED
  BY <1>1, <1>8

\* The room is loaded: everybody stands, nobody sits or rides.
LEMMA WorldStarts == ASSUME WorldInit PROVE WorldInv
<1>1. PICK t \in Tiles :
        world = [unit |-> [u \in Units |-> Standing(IF u \in Pets THEN t ELSE Door)],
                 seat |-> <<>>, sitter |-> <<>>, rides |-> {}]
  BY DEF WorldInit
<1>2. ASSUME NEW x \in Tiles
      PROVE  Standing(x) \in Bodies /\ Routed(Standing(x).steps, Standing(x).seen)
  <2>1. <<>> \in Seq(Tiles) /\ <<>> \in [{} -> Nat] /\ "none" \in Controls
    BY DEF Controls
  <2>2. <<>> \in Seens
    BY <2>1 DEF Seens
  <2>3. Standing(x) \in Bodies
    BY <2>1, <2>2 DEF Standing, Bodies
  <2>4. QED
    BY <2>3, RestRouted DEF Standing
<1> DEFINE units == [u \in Units |-> Standing(IF u \in Pets THEN t ELSE Door)]
<1>3. units \in [Units -> Bodies] /\ \A u \in Units : Routed(units[u].steps, units[u].seen)
  BY <1>2, WorldAssumption
<1>4. units \in UNION {[present -> Bodies] : present \in SUBSET Units}
  BY <1>3
<1>5. /\ <<>> \in UNION {[seated -> Tiles] : seated \in SUBSET Units}
      /\ <<>> \in UNION {[taken -> Units] : taken \in SUBSET Tiles}
      /\ DOMAIN <<>> = {}
  <2>1. <<>> \in [{} -> Tiles] /\ <<>> \in [{} -> Units]
    OBVIOUS
  <2>2. QED
    BY <2>1
<1>6. /\ world.unit = units /\ world.seat = <<>> /\ world.sitter = <<>> /\ world.rides = {}
      /\ world = [unit |-> units, seat |-> <<>>, sitter |-> <<>>, rides |-> {}]
  BY <1>1
<1> HIDE DEF units
<1>7. world \in Worlds
  BY <1>4, <1>5, <1>6 DEF Worlds
<1>8. Planned(world) /\ Paired(world) /\ Together(world) /\ Sitting(world)
  BY <1>3, <1>5, <1>6 DEF Planned, Paired, Together, Sitting, Present
<1>9. SurfaceFits
  BY DEF WorldInit, SurfaceFits
<1>10. PlansFit
  BY <1>5 DEF WorldInit, PlansFit, Idle
<1>11. QED
  BY <1>7, <1>8, <1>9, <1>10 DEF WorldInv, Kept

\* The next tile of a path that nothing outdates can be walked on.
LEMMA NextWalkable ==
    ASSUME NEW x \in Bodies, Routed(x.steps, x.seen), x.steps # <<>>,
           NEW y, y = Advanced(x), y = x \/ y.seen = <<>> \/ Valid(y.seen)
    PROVE  tile[y.at] = "open" \/ (tile[y.at] = "seat" /\ y.steps = <<>>)
<1>1. /\ y.seen = x.seen /\ y.steps = Tail(x.steps) /\ y.at = x.steps[1]
      /\ x.steps[1] \in DOMAIN x.seen /\ y.steps \in Seq(Tiles)
  BY AdvancedFits DEF Bodies
<1>2. PICK steps \in Seq(Tiles), rest \in Seq(Tiles) : steps = x.steps /\ rest = y.steps
  BY <1>1 DEF Bodies
<1>3. /\ Len(steps) \in Nat /\ Len(steps) >= 1 /\ Len(rest) = Len(steps) - 1
      /\ Len(steps) = 1 => rest = <<>>
  BY <1>1, <1>2
<1>4. steps # rest
  BY <1>3
<1>5. DOMAIN <<>> = {}
  OBVIOUS
<1>6. y # x /\ y.seen # <<>>
  BY <1>1, <1>2, <1>4, <1>5
<1>7. Walkable(steps)
  BY <1>1, <1>2, <1>6 DEF Routed
<1>8. tile[steps[1]] = "open" \/ (tile[steps[1]] = "seat" /\ 1 = Len(steps))
  BY <1>3, <1>7 DEF Walkable
<1>9. QED
  BY <1>1, <1>2, <1>3, <1>8

\* A tick moves a unit onto the next tile of a path that nothing outdates.
LEMMA StepWalkable ==
    ASSUME WorldInv, [WorldNext]_room, NEW u \in Present(world) \intersect Present(world'),
           world.unit[u].steps # <<>>, world'.unit[u] = Advanced(world.unit[u])
    PROVE  \/ tile[world'.unit[u].at] = "open"
           \/ tile[world'.unit[u].at] = "seat" /\ world'.unit[u].steps = <<>>
<1>1. PICK x, y : x = world.unit[u] /\ y = world'.unit[u]
  OBVIOUS
<1>2. x \in Bodies /\ Routed(x.steps, x.seen)
  BY <1>1, WorldParts DEF WorldInv, Kept, Planned
<1>3. y = x \/ y.seen = <<>> \/ Valid(y.seen)
  BY <1>1, StepsWell DEF Steady
<1>4. tile[y.at] = "open" \/ (tile[y.at] = "seat" /\ y.steps = <<>>)
  BY <1>1, <1>2, <1>3, NextWalkable
<1>5. QED
  BY <1>1, <1>4
-----------------------------------------------------------------------------
(***************************************************************************)
(* What holds of a room, whatever is commanded.                            *)
(***************************************************************************)
WorldSpec == WorldInit /\ [][WorldNext]_room

\* The inductive invariant: the plans that were not applied yet and the paths of the
\* units keep off what is in the way as long as nothing they read changed, a unit rides
\* one other at most and moves with it, and sitters sit.
THEOREM WorldInductive == WorldSpec => []WorldInv
<1>1. WorldInit => WorldInv
  BY WorldStarts
<1>2. WorldInv /\ [WorldNext]_room => WorldInv'
  BY StepsWell
<1>3. QED
  BY <1>1, <1>2, PTL DEF WorldSpec

\* Whoever commands a rider or its mount, and whatever was planned before they were
\* linked, they share tile, path and control.
THEOREM RidersStayTogether == WorldSpec => []MountedTogether
<1>1. WorldInv => MountedTogether
  BY DEF WorldInv, Kept, Together, MountedTogether
<1>2. QED
  BY <1>1, WorldInductive, PTL

\* The occupant a room records of a seat is there, rests and knows it, and the seat is
\* still there, however often furniture is reloaded.
THEOREM SittersStay == WorldSpec => []SittersSit
<1>1. WorldInv => SittersSit
  BY DEF WorldInv, Kept, Sitting, Sits, SittersSit
<1>2. QED
  BY <1>1, WorldInductive, PTL

\* A tick moves a unit only onto a tile that can be walked on now, and onto a seat only
\* to stay there, however long ago its path was found and whatever was reloaded since.
THEOREM StepsStayWalkable == WorldSpec => StepsAreWalkable
<1> DEFINE Walked ==
             \A u \in Present(world) \intersect Present(world') :
                 LET x == world.unit[u]
                     y == world'.unit[u]
                 IN  x.steps # <<>> /\ y = Advanced(x) =>
                         \/ tile[y.at] = "open"
                         \/ tile[y.at] = "seat" /\ y.steps = <<>>
<1>1. WorldInv /\ [WorldNext]_room => Walked
  BY StepWalkable
<1>2. WorldInv /\ [WorldNext]_room => [Walked]_room
  BY <1>1
<1> HIDE DEF Walked
<1>3. WorldSpec => [][Walked]_room
  BY <1>2, WorldInductive, PTL DEF WorldSpec
<1>4. QED
  BY <1>3 DEF StepsAreWalkable, Walked
=============================================================================
