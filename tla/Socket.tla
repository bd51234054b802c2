------------------------------- MODULE Socket -------------------------------
(***************************************************************************)
(* One WebSocket connection (src/pkg/http/websocket) and its session       *)
(* (src/networking/connection): the reader, which runs packet handlers,    *)
(* the heartbeat, any other goroutine that sends or disconnects, and the   *)
(* writer, which takes what they queue.  The handshake negotiates the      *)
(* Diffie channel (src/networking/crypto/diffie) while the others go on.   *)
(*                                                                         *)
(* The client is modelled from what the handshake expects of it.  Frames   *)
(* are complete; bytes read in the wrong mode are noise, which the decoder *)
(* refuses or keeps as the beginning of a longer frame.                    *)
(***************************************************************************)
EXTENDS Integers, Sequences, SequencesExt

CONSTANTS
    QueueSize,   \* Config.QueueSize
    Pings,       \* bound: ticks of the heartbeat
    Broadcasts,  \* bound: packets other goroutines send
    Required     \* SecurityPolicy.Mode = SecurityRequired

ASSUME SocketAssumption == QueueSize \in Nat \ {0} /\ Required \in BOOLEAN

Senders == {"reader", "heart", "other"}

VARIABLES
    state,     \* Session.state
    gone,      \* Session.disconnected
    channel,   \* Session.security and its state; "prepared" negotiated the streams
    queue,     \* socketSession.queue
    shut,      \* socketSession.closed
    finished,  \* finish has run: stop and done are closed, so is the connection
    todo,      \* what each goroutine has still to do: pairs of a step and a packet
    looping,   \* the goroutines that have not ended their loop
    wire,      \* the frames written, each with whether it was sealed
    inbox,     \* the client's frames that were not read
    noise,     \* socketSession.buffer holds bytes that were read in the wrong mode
    heard,     \* how many frames the client has received
    spent      \* how much of Pings and Broadcasts is used

sessionVars == <<state, gone, channel>>
socketVars == <<queue, shut, finished>>
clientVars == <<inbox, noise, heard>>
socket == <<sessionVars, socketVars, todo, looping, wire, clientVars, spent>>

SocketInit ==
    /\ state = "created" /\ gone = FALSE /\ channel = "none"
    /\ queue = <<>> /\ shut = FALSE /\ finished = FALSE
    /\ todo = [p \in Senders |-> <<>>]
    /\ looping = Senders \union {"writer"}
    /\ wire = <<>> /\ inbox = <<>> /\ noise = FALSE /\ heard = 0
    /\ spent = [p \in {"heart", "other"} |-> 0]

At(p, step) == todo[p] # <<>> /\ Head(todo[p])[1] = step
Packet(p) == Head(todo[p])[2]
Then(p, steps) == todo' = [todo EXCEPT ![p] = steps]
Rest(p) == Tail(todo[p])

\* Session.Disconnect.  A disconnection the client or the network caused tells
\* the client nothing.
Disconnecting(p, told) ==
    <<<<"dispose", "">>, <<"shut", "">>>>
    \o (IF told THEN <<<<"flush", "bye">>>> ELSE <<>>)
    \o <<<<"flush", "close">>, <<"wait", "">>, <<"secure", "">>>>
\* The end of socketSession.run, which waits once more, and of the heartbeat's loop.
LoopEnd(p) == IF p = "reader" THEN <<<<"wait", "run">>, <<"end", "">>>> ELSE <<<<"end", "">>>>
Ending(p, told) == Disconnecting(p, told) \o LoopEnd(p)
\* disconnectDiffie, by the handler: the reader goes on reading.
Refusing == <<<<"transition", "error">>>> \o Disconnecting("reader", TRUE)

\* An error of a handler ends the read loop, one of a ping that of the heartbeat;
\* a broadcast goes on with the next connection.
Failing(p) ==
    CASE p = "reader" -> IF <<"completed", "">> \in Range(todo[p]) THEN Refusing
                         ELSE Ending(p, TRUE)
      [] p = "heart" -> <<<<"end", "">>>>
      [] OTHER -> <<>>

(***************************************************************************)
(* Sending: Session.Send, then socketSession.send or activate.             *)
(***************************************************************************)
Active == {"created", "handshaking", "securing", "connected"}

Send(p) ==
    /\ At(p, "send")
    /\ Then(p, IF ~gone /\ state \in Active
               THEN <<<<"enqueue", Packet(p)>>>> \o Rest(p) ELSE Failing(p))
    /\ UNCHANGED <<sessionVars, socketVars, looping, wire, clientVars, spent>>

\* Never blocks: a full queue refuses.
Enqueue(p) ==
    /\ At(p, "enqueue")
    /\ IF ~shut /\ Len(queue) < QueueSize
       THEN queue' = Append(queue, Packet(p)) /\ Then(p, Rest(p))
       ELSE UNCHANGED queue /\ Then(p, Failing(p))
    /\ UNCHANGED <<sessionVars, shut, finished, looping, wire, clientVars, spent>>

(***************************************************************************)
(* Disposal.                                                               *)
(***************************************************************************)
\* A second Disconnect returns at once, and a handler returns its error.
Dispose(p) ==
    /\ At(p, "dispose")
    /\ IF gone
       THEN /\ Then(p, IF <<"end", "">> \in Range(Rest(p)) THEN LoopEnd(p)
                       ELSE IF p = "reader" THEN Ending(p, TRUE) ELSE <<>>)
            /\ UNCHANGED <<state, gone>>
       ELSE gone' = TRUE /\ state' = "closing" /\ Then(p, Rest(p))
    /\ UNCHANGED <<channel, socketVars, looping, wire, clientVars, spent>>

Shut(p) ==
    /\ At(p, "shut")
    /\ shut' = TRUE /\ Then(p, Rest(p))
    /\ UNCHANGED <<sessionVars, queue, finished, looping, wire, clientVars, spent>>

\* enqueueBestEffort waits for room for at most CloseGrace.
Flush(p) ==
    /\ At(p, "flush")
    /\ Len(queue) < QueueSize
    /\ queue' = Append(queue, Packet(p)) /\ Then(p, Rest(p))
    /\ UNCHANGED <<sessionVars, shut, finished, looping, wire, clientVars, spent>>

\* The timers of enqueueBestEffort and of wait.
GraceWaitOnly(p) == At(p, "wait")
GraceOver(p) == At(p, "flush") \/ At(p, "wait")
Grace(p) ==
    /\ GraceOver(p)
    /\ finished' = TRUE /\ Then(p, Rest(p))
    /\ UNCHANGED <<sessionVars, queue, shut, looping, wire, clientVars, spent>>

Wait(p) ==
    /\ At(p, "wait") /\ finished
    /\ Then(p, Rest(p))
    /\ UNCHANGED <<sessionVars, socketVars, looping, wire, clientVars, spent>>

\* After the disposer: the channel forgets its keys, the session is closed.
Secure(p) ==
    /\ At(p, "secure")
    /\ state' = "closed"
    /\ channel' = IF channel = "none" THEN "none" ELSE "failed"
    /\ Then(p, Rest(p))
    /\ UNCHANGED <<gone, socketVars, looping, wire, clientVars, spent>>

End(p) ==
    /\ At(p, "end")
    /\ looping' = looping \ {p} /\ Then(p, <<>>)
    /\ UNCHANGED <<sessionVars, socketVars, wire, clientVars, spent>>

(***************************************************************************)
(* The reader.                                                             *)
(***************************************************************************)
Reading == "reader" \in looping /\ todo["reader"] = <<>>

\* The steps that follow a packet, by its handler and policy; <<>> when it is done.
ActivateFirst == <<<<"enqueue", "activate">>, <<"send", "complete">>, <<"completed", "">>>>
DiffieComplete == <<<<"send", "complete">>, <<"enqueue", "activate">>, <<"completed", "">>>>
Handle(packet, now) ==
    CASE packet = "init" /\ now = "handshaking" ->
            IF channel = "none" THEN <<<<"begin", "">>, <<"send", "params">>>>
            ELSE <<<<"transition", "securing">>>> \o Refusing
      [] packet = "key" /\ now = "securing" -> <<<<"prepare", "">>>> \o DiffieComplete
      [] packet = "ticket" /\ now = "handshaking" ->
            IF Required /\ channel # "ready" THEN Refusing \o Ending("reader", TRUE)
            ELSE <<<<"authenticate", "">>, <<"send", "data">>>>
      [] packet = "pong" /\ now = "connected" -> <<>>
      [] OTHER -> Ending("reader", TRUE)

\* receive: Open, DecodeFrames, dispatch.  The first packet starts the handshake.
Receive ==
    LET frame == Head(inbox)
        now == IF state = "created" THEN "handshaking" ELSE state
        legible == ~noise /\ frame[2] = (channel = "ready")
    IN  /\ Reading /\ inbox # <<>> /\ ~finished
        /\ inbox' = Tail(inbox)
        /\ IF ~legible
           THEN /\ noise' = TRUE /\ UNCHANGED state
                /\ Then("reader", <<>>) \/ Then("reader", Ending("reader", TRUE))
           ELSE /\ UNCHANGED noise
                /\ IF gone THEN UNCHANGED state /\ Then("reader", Ending("reader", TRUE))
                   ELSE state' = now /\ Then("reader", Handle(frame[1], now))
        /\ UNCHANGED <<gone, channel, socketVars, looping, wire, heard, spent>>

\* readMessage fails: the connection is closed by either side, broken, or silent.
ReadError ==
    /\ Reading
    /\ Then("reader", Ending("reader", FALSE))
    /\ UNCHANGED <<sessionVars, socketVars, looping, wire, clientVars, spent>>

\* Session.Transition and the handlers' other changes; refused once disposed, and
\* then the handler returns the error.
Transitions ==
    [begin |-> "securing", completed |-> "handshaking", authenticate |-> "connected",
     securing |-> "securing", error |-> "error"]
Move ==
    LET step == Head(todo["reader"])
        to == IF step[1] = "transition" THEN step[2] ELSE step[1]
    IN  /\ todo["reader"] # <<>>
        /\ step[1] \in DOMAIN Transitions \union {"transition", "prepare"}
        /\ IF gone /\ step[1] # "prepare"
           THEN /\ UNCHANGED <<state, channel>>
                /\ Then("reader", IF step = <<"transition", "error">> THEN Rest("reader")
                                  ELSE Ending("reader", TRUE))
           ELSE /\ state' = IF to = "prepare" THEN state ELSE Transitions[to]
                /\ channel' = CASE to = "begin" -> "negotiating"
                                [] to = "prepare" /\ channel = "negotiating" -> "prepared"
                                [] OTHER -> channel
                /\ Then("reader", IF to = "prepare" /\ channel # "negotiating"
                                  THEN Refusing ELSE Rest("reader"))
        /\ UNCHANGED <<gone, socketVars, looping, wire, clientVars, spent>>

(***************************************************************************)
(* The heartbeat and other goroutines.                                     *)
(***************************************************************************)
Beat ==
    /\ "heart" \in looping /\ todo["heart"] = <<>>
    /\ spent["heart"] < Pings
    /\ spent' = [spent EXCEPT !["heart"] = @ + 1]
    /\ Then("heart", <<<<"send", "ping">>>>) \/ Then("heart", Ending("heart", TRUE))
    /\ UNCHANGED <<sessionVars, socketVars, looping, wire, clientVars>>

HeartStops ==
    /\ "heart" \in looping /\ todo["heart"] = <<>> /\ finished
    /\ looping' = looping \ {"heart"}
    /\ UNCHANGED <<sessionVars, socketVars, todo, wire, clientVars, spent>>

\* A broadcast, or a goroutine that disconnects the player.
Others ==
    /\ todo["other"] = <<>> /\ spent["other"] < Broadcasts
    /\ spent' = [spent EXCEPT !["other"] = @ + 1]
    /\ Then("other", <<<<"send", "data">>>>) \/ Then("other", Disconnecting("other", TRUE))
    /\ UNCHANGED <<sessionVars, socketVars, looping, wire, clientVars>>

(***************************************************************************)
(* The writer.                                                             *)
(***************************************************************************)
WriterEnds ==
    /\ finished' = TRUE /\ looping' = looping \ {"writer"}

Write ==
    LET item == Head(queue)
        packet == item \notin {"activate", "close"}
    IN  /\ "writer" \in looping /\ queue # <<>>
        /\ queue' = Tail(queue)
        /\ \/ /\ packet /\ ~finished
              /\ wire' = Append(wire, <<item, channel = "ready">>)
              /\ UNCHANGED <<channel, finished, looping>>
           \/ /\ item = "activate" /\ channel = "prepared"
              /\ channel' = "ready"
              /\ UNCHANGED <<wire, finished, looping>>
           \/ /\ packet \/ item = "close" \/ channel # "prepared"
              /\ WriterEnds /\ UNCHANGED <<wire, channel>>
        /\ UNCHANGED <<state, gone, shut, todo, clientVars, spent>>

WriterStops ==
    /\ "writer" \in looping /\ finished
    /\ looping' = looping \ {"writer"}
    /\ UNCHANGED <<sessionVars, socketVars, todo, wire, clientVars, spent>>

(***************************************************************************)
(* The client.                                                             *)
(***************************************************************************)
Secured == \E n \in 1 .. heard : wire[n][1] = "complete"

\* It begins with init or with its ticket, answers what it hears, and seals once
\* it has heard the completion.
Hear ==
    LET frame == wire[heard + 1] IN
    /\ heard < Len(wire) /\ ~finished
    /\ heard' = heard + 1
    /\ inbox' = inbox \o
           CASE frame[1] = "params" -> <<<<"key", FALSE>>>>
             [] frame[1] = "complete" -> <<<<"ticket", TRUE>>>>
             [] frame[1] = "ping" /\ "data" \in {wire[n][1] : n \in 1 .. heard} ->
                    <<<<"pong", Secured>>>>
             [] OTHER -> <<>>
    /\ UNCHANGED <<sessionVars, socketVars, todo, looping, wire, noise, spent>>

Speak ==
    /\ state = "created" /\ inbox = <<>> /\ ~finished
    /\ \E packet \in {"init", "ticket"} : inbox' = <<<<packet, FALSE>>>>
    /\ UNCHANGED <<sessionVars, socketVars, todo, looping, wire, noise, heard, spent>>

Goroutine(p) ==
    \/ Send(p) \/ Enqueue(p) \/ Dispose(p) \/ Shut(p) \/ Flush(p) \/ Grace(p)
    \/ Wait(p) \/ Secure(p) \/ End(p)
Server == Move \/ Receive \/ HeartStops \/ Write \/ WriterStops \/ \E p \in Senders : Goroutine(p)

SocketNext == Server \/ ReadError \/ Beat \/ Others \/ Hear \/ Speak

\* Goroutines run, timers fire, a read of a closed connection fails.
SocketFairness ==
    /\ \A p \in Senders : WF_socket(Goroutine(p))
    /\ WF_socket(Move) /\ WF_socket(HeartStops) /\ WF_socket(Write \/ WriterStops)
    /\ WF_socket(ReadError /\ finished)

(***************************************************************************)
(* Properties.                                                             *)
(***************************************************************************)
\* The completion of the handshake is plain although the channel is ready soon
\* after, and once a frame was sealed every later one is, also the last ones of a
\* disposal: the channel forgets its keys (security.go, Session.Disconnect) only
\* when nothing is written any more.
SealedInOrder ==
    \A m, n \in 1 .. Len(wire) :
        /\ wire[m][1] = "complete" => ~wire[m][2]
        /\ m < n /\ wire[m][2] => wire[n][2]

\* Whoever disposes of the session or closes the connection first, all four
\* goroutines come to their end and the session is closed: a full queue, a writer
\* that has ended or a second disposal keep nobody waiting.
EverybodyEnds ==
    (gone \/ finished) ~>
        looping \subseteq {"other"} /\ state = "closed" /\ todo["other"] = <<>>

============================================================================
