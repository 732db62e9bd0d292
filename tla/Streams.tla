------------------------------ MODULE Streams ------------------------------
(***************************************************************************)
(* The life of the process and of what it serves meanwhile: requests that  *)
(* end in one answer, event streams, and sockets (src/streaming.rs; main   *)
(* and shutdown_signal in src/main.rs).                                    *)
(*                                                                         *)
(* The shutdown follows from how axum serves: once the signal's future     *)
(* resolves it takes no new request, waits for the answers and streams     *)
(* under way, and then main returns and ends what is left.  A socket is    *)
(* not waited for: its connection has been upgraded out of the server.     *)
(* Connections are in order and lossless until one side leaves.            *)
(***************************************************************************)
EXTENDS Integers, Sequences

CONSTANTS
    Connections,
    MaxSequence,    \* the largest sequence number (u64::MAX): it saturates
    LineCapacity    \* bound: frames under way to a client

\* What the constants must be for the frames to have numbers at all.
StreamsConstants == MaxSequence \in Nat \ {0}

VARIABLES
    phase,      \* of the process: "serving", "draining" or "stopped"
    handlers,   \* the signals whose handler could be installed
    signals,    \* the signals sent to the process
    session,    \* whether the customer's session is good
    conn        \* the server's side of each connection, and its client's

vars == <<phase, handlers, signals, session, conn>>

----------------------------------------------------------------------------
Signals == {"SIGINT", "SIGTERM"}

Kinds == {"request", "sse", "ws"}

Frame(kind, sequence) == [kind |-> kind, sequence |-> sequence]

NoFrame == Frame("none", -1)

\* pc: "free", in its "handler", or "streaming"; next: the number of the next refresh;
\* line: frames under way; seen: the client's last frame but a pong; here: it listens.
Free == [pc |-> "free", kind |-> "request", next |-> 1, line |-> <<>>, seen |-> NoFrame,
         here |-> FALSE]

Running == phase # "stopped"

HasRoom(c) == Len(conn[c].line) < LineCapacity

Close(c) == conn' = [conn EXCEPT ![c] = Free]

Send(c, frame, next) ==
    conn' = [conn EXCEPT ![c].line = Append(@, frame), ![c].next = next, ![c].pc = "streaming"]

----------------------------------------------------------------------------
(* Clients.                                                                  *)

\* A request of any kind reaches the server, which accepts while it serves.
Request(c, kind) ==
    /\ phase = "serving"
    /\ conn[c] = Free
    /\ conn' = [conn EXCEPT ![c].pc = "handler", ![c].kind = kind, ![c].here = TRUE]
    /\ UNCHANGED <<phase, handlers, signals, session>>

Read(c) ==
    /\ conn[c].here /\ conn[c].line # <<>>
    /\ conn' = [conn EXCEPT ![c].line = Tail(@),
                            ![c].seen = IF Head(conn[c].line).kind = "pong" THEN @
                                        ELSE Head(conn[c].line)]
    /\ UNCHANGED <<phase, handlers, signals, session>>

\* The page is closed, or the network between is gone.
Leave(c) ==
    /\ conn[c].here
    /\ conn' = [conn EXCEPT ![c].here = FALSE]
    /\ UNCHANGED <<phase, handlers, signals, session>>

SessionTurns ==
    /\ session' = ~session
    /\ UNCHANGED <<phase, handlers, signals, conn>>

----------------------------------------------------------------------------
(* The server's side of a connection.                                        *)

\* The handler ends, at the latest when TimeoutLayer drops it: a request with its answer,
\* a stream that its session does not open with a refusal.
Answer(c) ==
    /\ Running /\ conn[c].pc = "handler"
    /\ conn[c].kind = "request" \/ ~session
    /\ Close(c)
    /\ UNCHANGED <<phase, handlers, signals, session>>

\* customer_events, customer_ws: the session is verified now and never again.
Open(c) ==
    /\ Running /\ conn[c].pc = "handler"
    /\ conn[c].kind # "request" /\ session
    /\ Send(c, Frame("connected", 0), 1)
    /\ UNCHANGED <<phase, handlers, signals, session>>

\* saturating_add
Succ(n) == IF n < MaxSequence THEN n + 1 ELSE MaxSequence

\* The heartbeat; a stream whose client does not read waits.
Tick(c) ==
    /\ Running /\ conn[c].pc = "streaming" /\ HasRoom(c)
    /\ Send(c, Frame("refresh", conn[c].next), Succ(conn[c].next))
    /\ UNCHANGED <<phase, handlers, signals, session>>

\* A client's "ping" is answered with the number of the refresh to come; other messages
\* change nothing.
Pong(c) ==
    /\ Running /\ conn[c].pc = "streaming" /\ conn[c].kind = "ws" /\ HasRoom(c)
    /\ Send(c, Frame("pong", conn[c].next), conn[c].next)
    /\ UNCHANGED <<phase, handlers, signals, session>>

\* A send or a read fails, or the client says goodbye.
Notice(c) ==
    /\ Running /\ conn[c].pc # "free" /\ ~conn[c].here
    /\ Close(c)
    /\ UNCHANGED <<phase, handlers, signals, session>>

----------------------------------------------------------------------------
(* The process.                                                              *)

Ended == phase' = "stopped" /\ conn' = [c \in Connections |-> Free]

\* A signal without a handler ends the process on the spot.
Signal(s) ==
    /\ Running /\ s \notin signals
    /\ signals' = signals \cup {s}
    /\ IF s \in handlers THEN UNCHANGED <<phase, conn>> ELSE Ended
    /\ UNCHANGED <<handlers, session>>

\* shutdown_signal: a failure to listen for SIGINT resolves it as the signal would; without
\* a handler for SIGTERM that future is pending for good.
ShutdownSignal == "SIGINT" \notin handlers \/ signals \cap handlers # {}

Drain ==
    /\ phase = "serving" /\ ShutdownSignal
    /\ phase' = "draining"
    /\ UNCHANGED <<handlers, signals, session, conn>>

\* What axum waits for.
Awaited(c) == conn[c].pc = "handler" \/ (conn[c].pc = "streaming" /\ conn[c].kind = "sse")

Stop ==
    /\ phase = "draining"
    /\ \A c \in Connections : ~Awaited(c)
    /\ Ended
    /\ UNCHANGED <<handlers, signals, session>>

\* The process is started again.
Start ==
    /\ phase = "stopped"
    /\ phase' = "serving" /\ signals' = {}
    /\ handlers' \in SUBSET Signals
    /\ UNCHANGED <<session, conn>>

----------------------------------------------------------------------------
Init ==
    /\ phase = "serving" /\ signals = {}
    /\ handlers \in SUBSET Signals
    /\ session \in BOOLEAN
    /\ conn = [c \in Connections |-> Free]

Finish(c) == Answer(c) \/ Open(c)

Next ==
    \/ \E c \in Connections :
          \/ \E kind \in Kinds : Request(c, kind)
          \/ Read(c) \/ Leave(c) \/ Answer(c) \/ Open(c) \/ Tick(c) \/ Pong(c) \/ Notice(c)
    \/ SessionTurns
    \/ \E s \in Signals : Signal(s)
    \/ Drain \/ Stop \/ Start

Spec == Init /\ [][Next]_vars

\* Handlers end (TimeoutLayer), sends to a client that left fail, and the runtime polls
\* what is ready, the heartbeat included; clients read what they are sent.  That they
\* ever leave is nothing the code sees to.
Fairness ==
    /\ WF_vars(Drain) /\ WF_vars(Stop)
    /\ \A c \in Connections :
          WF_vars(Finish(c)) /\ WF_vars(Notice(c)) /\ WF_vars(Tick(c)) /\ WF_vars(Read(c))

FairSpec == Spec /\ Fairness

----------------------------------------------------------------------------
Frames == [kind : {"connected", "refresh", "pong"}, sequence : 0..MaxSequence]

TypeOK ==
    /\ phase \in {"serving", "draining", "stopped"}
    /\ handlers \subseteq Signals /\ signals \subseteq Signals
    /\ session \in BOOLEAN
    /\ conn \in [Connections -> [pc : {"free", "handler", "streaming"}, kind : Kinds,
                                 next : 1..MaxSequence, line : Seq(Frames),
                                 seen : Frames \cup {NoFrame}, here : BOOLEAN]]

\* Frame k is the last but a pong before frame i, or before the end of the line.
LastBefore(line, k, i) ==
    /\ k < i /\ line[k].kind # "pong"
    /\ \A j \in (k + 1)..(i - 1) : line[j].kind = "pong"

Follows(frame, last) ==
    /\ frame.sequence = IF last = NoFrame THEN 0 ELSE Succ(last.sequence)
    /\ frame.kind = "connected" <=> last = NoFrame

\* What the client saw last, and what is on its way.
Line(q) == <<q.seen>> \o q.line

\* streaming.rs:26-37 and 49-70: on every stream, after "connected" each refresh has the
\* number after the last one's, with none left out or given twice before the numbers
\* saturate, however slow the client; a pong has the number the next refresh will have.
FramesInOrder ==
    \A c \in Connections : \A k, i \in DOMAIN Line(conn[c]) :
        LastBefore(Line(conn[c]), k, i) => Follows(Line(conn[c])[i], Line(conn[c])[k])

\* main.rs:136-141, "Waiting on SIGTERM (k8s) and Ctrl-C (local) lets connections drain",
\* and 165: a signal to the process is always followed by the end of the drain, and so of
\* the process.
DrainEnds == signals # {} ~> phase = "stopped"
=============================================================================
