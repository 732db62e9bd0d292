---------------------------- MODULE StreamsProofs ----------------------------
(***************************************************************************)
(* The order of the frames of a stream, for any number of connections, any *)
(* length of line and any largest number.                                  *)
(*                                                                         *)
(* A stream is looked at as one line: the frame its client saw last, then  *)
(* those on their way.  Frames are added at its end and taken away at its  *)
(* beginning, and a pong anywhere is passed over.  What a new frame needs  *)
(* is that the server's number is the one after the line's last (Ready),   *)
(* however much of the line the client has read.                           *)
(***************************************************************************)
EXTENDS Streams, TLAPS

Sides == [pc : {"free", "handler", "streaming"}, kind : Kinds, next : 1..MaxSequence,
          line : Seq(Frames), seen : Frames \cup {NoFrame}, here : BOOLEAN]

Ordered(line) ==
    \A k, i \in DOMAIN line : LastBefore(line, k, i) => Follows(line[i], line[k])

\* The server's number continues the line.
Ready(line, next) ==
    \A k \in DOMAIN line :
        LastBefore(line, k, Len(line) + 1) =>
            line[k] # NoFrame /\ next = Succ(line[k].sequence)

\* The frame f may come next.
Continues(f, line) ==
    \A k \in DOMAIN line : LastBefore(line, k, Len(line) + 1) => Follows(f, line[k])

\* What is last in the line that is this one and f.
LastIn(more, line, f) ==
    \A k \in DOMAIN more : LastBefore(more, k, Len(more) + 1) =>
        \/ k = Len(more) /\ more[k] = f /\ f.kind # "pong"
        \/ /\ k \in DOMAIN line /\ more[k] = line[k] /\ f.kind = "pong"
           /\ LastBefore(line, k, Len(line) + 1)

\* A connection that is no stream has no frames; the line of one that is goes on.
InStep(q) ==
    /\ q \in Sides
    /\ q.seen.kind # "pong"
    /\ IF q.pc = "streaming"
       THEN Ordered(Line(q)) /\ Ready(Line(q), q.next)
       ELSE q.line = <<>> /\ q.seen = NoFrame

IInv == StreamsConstants /\ TypeOK /\ \A c \in Connections : InStep(conn[c])

----------------------------------------------------------------------------
LEMMA SuccType ==
  ASSUME StreamsConstants, NEW n \in 0..MaxSequence
  PROVE  Succ(n) \in 1..MaxSequence
  BY DEF StreamsConstants, Succ

LEMMA NoFrameIsNone ==
  /\ NoFrame.kind = "none" /\ NoFrame.sequence = -1
  /\ \A f \in Frames : f # NoFrame
  BY DEF NoFrame, Frame, Frames

LEMMA FreeInStep ==
  ASSUME StreamsConstants
  PROVE  InStep(Free)
  <1>1. Free \in Sides
    BY DEF StreamsConstants, Free, Sides, Kinds
  <1> QED
    BY <1>1, NoFrameIsNone DEF Free, InStep

\* The elements of a line.
LEMMA LineOf ==
  ASSUME NEW q \in Sides
  PROVE  /\ Line(q) \in Seq(Frames \cup {NoFrame})
         /\ Len(Line(q)) = Len(q.line) + 1 /\ Len(q.line) \in Nat
         /\ Line(q)[1] = q.seen
         /\ \A i \in 1..Len(q.line) : Line(q)[i + 1] = q.line[i]
  <1>1. q.line \in Seq(Frames \cup {NoFrame}) /\ <<q.seen>> \in Seq(Frames \cup {NoFrame})
    BY DEF Sides
  <1>2. Len(<<q.seen>>) = 1 /\ <<q.seen>>[1] = q.seen
    OBVIOUS
  <1> HIDE DEF Sides
  <1> QED
    BY <1>1, <1>2 DEF Line

LEMMA LineDomain ==
  ASSUME NEW q \in Sides, Len(q.line) = 0
  PROVE  DOMAIN Line(q) = {1}
  <1>1. Line(q) \in Seq(Frames \cup {NoFrame}) /\ Len(Line(q)) = 0 + 1
    BY LineOf, Zenon
  <1> HIDE DEF Sides
  <1>2. DOMAIN Line(q) = 1..1
    BY <1>1
  <1> QED
    BY <1>2

\* One frame more at the end: the line is ordered if that frame follows the last.
LEMMA Extend ==
  ASSUME NEW S, NEW line \in Seq(S), NEW f \in S, NEW more, more = Append(line, f),
         Ordered(line), Continues(f, line)
  PROVE  Ordered(more) /\ LastIn(more, line, f)
  <1>1. /\ Len(line) \in Nat /\ Len(more) = Len(line) + 1
        /\ DOMAIN line = 1..Len(line) /\ DOMAIN more = 1..(Len(line) + 1)
        /\ more[Len(line) + 1] = f
        /\ \A j \in 1..Len(line) : more[j] = line[j]
    OBVIOUS
  <1>2. ASSUME NEW k \in DOMAIN more, NEW i \in 1..(Len(line) + 1), LastBefore(more, k, i)
        PROVE  k \in DOMAIN line /\ LastBefore(line, k, i)
    BY <1>1, <1>2 DEF LastBefore
  <1>3. Ordered(more)
    <2> SUFFICES ASSUME NEW k \in DOMAIN more, NEW i \in DOMAIN more, LastBefore(more, k, i)
                 PROVE  Follows(more[i], more[k])
      BY DEF Ordered
    <2>1. k \in DOMAIN line /\ LastBefore(line, k, i)
      BY <1>1, <1>2
    <2>2. CASE i = Len(line) + 1
      BY <1>1, <2>1, <2>2 DEF Continues
    <2>3. CASE i \in 1..Len(line)
      BY <1>1, <2>1, <2>3 DEF Ordered
    <2> QED
      BY <1>1, <2>2, <2>3
  <1>4. ASSUME NEW k \in DOMAIN more, LastBefore(more, k, Len(more) + 1)
        PROVE  \/ k = Len(more) /\ more[k] = f /\ f.kind # "pong"
               \/ /\ k \in DOMAIN line /\ more[k] = line[k] /\ f.kind = "pong"
                  /\ LastBefore(line, k, Len(line) + 1)
    <2>1. CASE k = Len(more)
      BY <1>1, <1>4, <2>1 DEF LastBefore
    <2>2. CASE k # Len(more)
      <3>1. k \in 1..Len(line) /\ Len(line) + 1 \in (k + 1)..Len(more)
        BY <1>1, <2>2
      <3>2. f.kind = "pong"
        BY <1>1, <1>4, <3>1 DEF LastBefore
      <3>3. LastBefore(line, k, Len(line) + 1)
        BY <1>1, <1>4, <3>1 DEF LastBefore
      <3> QED
        BY <1>1, <3>1, <3>2, <3>3
    <2> QED
      BY <2>1, <2>2
  <1> QED
    BY <1>3, <1>4 DEF LastIn

\* A frame is put on the line of a stream, or on that of a stream that opens.
LEMMA SendKeeps ==
  ASSUME IInv, NEW c \in Connections, NEW frame \in Frames, NEW next \in 1..MaxSequence,
         Ordered(Line(conn[c])), Send(c, frame, next),
         \A k \in DOMAIN Line(conn[c]) :
            LastBefore(Line(conn[c]), k, Len(Line(conn[c])) + 1) =>
                /\ Follows(frame, Line(conn[c])[k])
                /\ frame.kind = "pong" =>
                      Line(conn[c])[k] # NoFrame /\ next = Succ(Line(conn[c])[k].sequence),
         frame.kind # "pong" => next = Succ(frame.sequence)
  PROVE  conn' \in [Connections -> Sides] /\ \A d \in Connections : InStep(conn'[d])
  <1> DEFINE old == Line(conn[c])
             q == [conn[c] EXCEPT !.line = Append(@, frame), !.next = next, !.pc = "streaming"]
             new == Line(q)
  <1>1. conn \in [Connections -> Sides] /\ conn[c] \in Sides /\ InStep(conn[c])
    BY DEF IInv, TypeOK, Sides
  <1>2. conn' = [conn EXCEPT ![c] = q]
    BY <1>1 DEF Send, Sides
  <1>3. /\ q \in Sides /\ q.line = Append(conn[c].line, frame) /\ q.seen = conn[c].seen
        /\ q.next = next /\ q.pc = "streaming"
    <2>1. Append(conn[c].line, frame) \in Seq(Frames)
      BY <1>1 DEF Sides
    <2> QED
      BY <1>1, <2>1 DEF Sides
  <1>4. /\ old \in Seq(Frames \cup {NoFrame}) /\ new = Append(old, frame)
        /\ frame \in Frames \cup {NoFrame}
    <2>1. conn[c].line \in Seq(Frames \cup {NoFrame}) /\ <<conn[c].seen>> \in Seq(Frames \cup {NoFrame})
      BY <1>1 DEF Sides
    <2>2. new = <<conn[c].seen>> \o Append(conn[c].line, frame)
      BY <1>3 DEF Line
    <2>3. old = <<conn[c].seen>> \o conn[c].line
      BY DEF Line
    <2> DEFINE S == Frames \cup {NoFrame}
               first == <<conn[c].seen>>
               rest == conn[c].line
    <2>4. first \in Seq(S) /\ rest \in Seq(S) /\ frame \in S
      BY <2>1
    <2>5. old = first \o rest /\ new = first \o Append(rest, frame)
      BY <2>2, <2>3
    <2> HIDE DEF old, new, q, S, first, rest
    <2>6. first \o rest \in Seq(S) /\ first \o Append(rest, frame) = Append(first \o rest, frame)
      BY <2>4
    <2>7. old \in Seq(S) /\ new = Append(old, frame)
      BY <2>5, <2>6
    <2> QED
      BY <2>4, <2>7 DEF S
  <1> HIDE DEF q, new, old
  <1>5. \A k \in DOMAIN old : LastBefore(old, k, Len(old) + 1) =>
           /\ Follows(frame, old[k])
           /\ frame.kind = "pong" => old[k] # NoFrame /\ next = Succ(old[k].sequence)
    BY DEF old
  <1>6. Ordered(new) /\ LastIn(new, old, frame)
    <2>1. Ordered(old)
      BY DEF old
    <2>2. Continues(frame, old)
      BY <1>5 DEF Continues
    <2> DEFINE S == Frames \cup {NoFrame}
    <2>3. old \in Seq(S) /\ frame \in S /\ new = Append(old, frame)
      BY <1>4
    <2> HIDE DEF S
    <2> QED
      BY <2>1, <2>2, <2>3, Extend, Zenon
  <1>7. Ready(new, next)
    <2> SUFFICES ASSUME NEW k \in DOMAIN new, LastBefore(new, k, Len(new) + 1)
                 PROVE  new[k] # NoFrame /\ next = Succ(new[k].sequence)
      BY DEF Ready
    <2>1. CASE k = Len(new) /\ new[k] = frame /\ frame.kind # "pong"
      BY <2>1, NoFrameIsNone
    <2>2. CASE /\ k \in DOMAIN old /\ new[k] = old[k] /\ frame.kind = "pong"
               /\ LastBefore(old, k, Len(old) + 1)
      BY <2>2, <1>5
    <2> QED
      BY <1>6, <2>1, <2>2 DEF LastIn
  <1>8. InStep(q)
    BY <1>1, <1>3, <1>6, <1>7 DEF InStep, new
  <1> QED
    BY <1>1, <1>2, <1>3, <1>8 DEF IInv

\* One frame less at the beginning: a pong is dropped behind the frame seen last, any
\* other becomes the one seen last.
LEMMA ReadKeeps ==
  ASSUME IInv, NEW c \in Connections, Read(c)
  PROVE  conn' \in [Connections -> Sides] /\ \A d \in Connections : InStep(conn'[d])
  <1> DEFINE old == Line(conn[c])
             q == [conn[c] EXCEPT !.line = Tail(@),
                                  !.seen = IF Head(conn[c].line).kind = "pong" THEN @
                                           ELSE Head(conn[c].line)]
             new == Line(q)
             pong == Head(conn[c].line).kind = "pong"
  <1>1. conn \in [Connections -> Sides] /\ conn[c] \in Sides /\ InStep(conn[c])
    BY DEF IInv, TypeOK, Sides
  <1>2. conn' = [conn EXCEPT ![c] = q] /\ conn[c].line # <<>>
    BY DEF Read
  <1>3. /\ Head(conn[c].line) \in Frames /\ Tail(conn[c].line) \in Seq(Frames)
        /\ Len(Tail(conn[c].line)) = Len(conn[c].line) - 1 /\ Len(conn[c].line) \in Nat \ {0}
        /\ Head(conn[c].line) = conn[c].line[1]
        /\ \A i \in 1..(Len(conn[c].line) - 1) : Tail(conn[c].line)[i] = conn[c].line[i + 1]
    BY <1>1, <1>2 DEF Sides
  <1>4. /\ q \in Sides /\ q.line = Tail(conn[c].line) /\ q.next = conn[c].next
        /\ q.seen = IF pong THEN conn[c].seen ELSE Head(conn[c].line)
        /\ q.seen.kind # "pong" /\ q.pc = "streaming"
    BY <1>1, <1>2, <1>3 DEF Sides, InStep
  <1>5. /\ Len(old) = Len(conn[c].line) + 1 /\ Len(new) = Len(old) - 1
        /\ Len(old) \in Nat /\ Len(new) \in Nat \ {0}
        /\ DOMAIN old = 1..Len(old) /\ DOMAIN new = 1..Len(new)
        /\ new[1] = IF pong THEN old[1] ELSE old[2]
        /\ \A i \in 2..Len(new) : new[i] = old[i + 1]
        /\ pong <=> old[2].kind = "pong"
    <2>1. /\ old \in Seq(Frames \cup {NoFrame}) /\ Len(old) = Len(conn[c].line) + 1
          /\ old[1] = conn[c].seen
          /\ \A i \in 1..Len(conn[c].line) : old[i + 1] = conn[c].line[i]
      BY <1>1, LineOf
    <2>2. /\ new \in Seq(Frames \cup {NoFrame}) /\ Len(new) = Len(q.line) + 1
          /\ new[1] = q.seen
          /\ \A i \in 1..Len(q.line) : new[i + 1] = q.line[i]
      <3>1. q \in Sides
        BY <1>4
      <3> HIDE DEF q
      <3> QED
        BY <3>1, LineOf
    <2> HIDE DEF old, new, q
    <2>3. old[2] = conn[c].line[1]
      BY <1>3, <2>1
    <2>4. ASSUME NEW i \in 2..Len(new) PROVE new[i] = old[i + 1]
      <3>1. i - 1 \in 1..Len(q.line) /\ (i - 1) + 1 = i
        BY <1>3, <1>4, <2>2
      <3>2. new[i] = conn[c].line[i]
        BY <1>3, <1>4, <2>2, <3>1
      <3> QED
        BY <1>3, <1>4, <2>1, <2>2, <3>2
    <2> QED
      BY <1>3, <1>4, <2>1, <2>2, <2>3, <2>4
  <1> HIDE DEF old, new, q, pong
  <1>6. Ordered(old) /\ Ready(old, conn[c].next)
    BY <1>1, <1>2 DEF InStep, old
  \* The place in the old line of what is in place k of the new one.
  <1> DEFINE was(k) == IF k = 1 /\ pong THEN 1 ELSE k + 1
  <1>7. \A k \in 1..Len(new) : was(k) \in 1..Len(old) /\ new[k] = old[was(k)]
    BY <1>5
  <1>8. ASSUME NEW k \in 1..Len(new), NEW i \in 2..(Len(new) + 1), LastBefore(new, k, i)
        PROVE  LastBefore(old, was(k), i + 1)
    <2>1. was(k) < i + 1 /\ old[was(k)].kind # "pong"
      BY <1>7, <1>8 DEF LastBefore
    <2>2. ASSUME NEW j \in (was(k) + 1)..i PROVE old[j].kind = "pong"
      <3>1. CASE j = 2
        BY <1>5, <2>2, <3>1
      <3>2. CASE j # 2
        <4>1. j - 1 \in (k + 1)..(i - 1) /\ j - 1 \in 2..Len(new) /\ (j - 1) + 1 = j
          BY <1>5, <2>2, <3>2
        <4>2. new[j - 1].kind = "pong"
          BY <1>8, <4>1 DEF LastBefore
        <4> QED
          BY <1>5, <4>1, <4>2
      <3> QED
        BY <3>1, <3>2
    <2> QED
      BY <2>1, <2>2 DEF LastBefore
  <1>9. Ordered(new)
    <2> SUFFICES ASSUME NEW k \in 1..Len(new), NEW i \in 1..Len(new), LastBefore(new, k, i)
                 PROVE  Follows(new[i], new[k])
      BY <1>5 DEF Ordered
    <2>1. i \in 2..Len(new)
      BY DEF LastBefore
    <2>2. LastBefore(old, was(k), i + 1)
      BY <1>5, <1>8, <2>1
    <2>3. /\ was(k) \in DOMAIN old /\ i + 1 \in DOMAIN old
          /\ new[k] = old[was(k)] /\ new[i] = old[i + 1]
      BY <1>5, <1>7, <2>1
    <2> QED
      BY <1>6, <2>2, <2>3 DEF Ordered
  <1>10. Ready(new, q.next)
    <2> SUFFICES ASSUME NEW k \in 1..Len(new), LastBefore(new, k, Len(new) + 1)
                 PROVE  new[k] # NoFrame /\ conn[c].next = Succ(new[k].sequence)
      BY <1>4, <1>5 DEF Ready
    <2>1. LastBefore(old, was(k), Len(old) + 1)
      BY <1>5, <1>8
    <2>2. was(k) \in DOMAIN old /\ new[k] = old[was(k)]
      BY <1>5, <1>7
    <2> QED
      BY <1>6, <2>1, <2>2 DEF Ready
  <1>11. InStep(q)
    BY <1>4, <1>9, <1>10 DEF InStep, new
  <1> QED
    BY <1>1, <1>2, <1>4, <1>11 DEF IInv

----------------------------------------------------------------------------
\* A step that leaves each connection alone, frees it or moves it on before it streams.
LEMMA Others ==
  ASSUME IInv, conn' \in [Connections -> Sides],
         \A c \in Connections : conn'[c] = conn[c] \/ InStep(conn'[c])
  PROVE  \A c \in Connections : InStep(conn'[c])
  BY DEF IInv

LEMMA OpenKeeps ==
  ASSUME IInv, NEW c \in Connections, Open(c)
  PROVE  conn' \in [Connections -> Sides] /\ \A d \in Connections : InStep(conn'[d])
  <1>1. conn[c] \in Sides /\ conn[c].line = <<>> /\ conn[c].seen = NoFrame
    BY DEF IInv, TypeOK, Sides, InStep, Open
  <1>2. /\ Len(Line(conn[c])) = 1 /\ DOMAIN Line(conn[c]) = {1} /\ Line(conn[c])[1] = NoFrame
    <2>1. Len(conn[c].line) = 0
      BY <1>1
    <2> QED
      BY <1>1, <2>1, LineOf, LineDomain
  <1>3. Ordered(Line(conn[c]))
    BY <1>2 DEF Ordered, LastBefore
  <1>4. /\ Frame("connected", 0) \in Frames /\ Frame("connected", 0).kind = "connected"
        /\ Frame("connected", 0).sequence = 0 /\ 1 \in 1..MaxSequence /\ 1 = Succ(0)
    BY DEF IInv, StreamsConstants, Frame, Frames, Succ
  <1>5. Follows(Frame("connected", 0), NoFrame)
    BY <1>4 DEF Follows
  <1> QED
    BY <1>2, <1>3, <1>4, <1>5, SendKeeps DEF Open

LEMMA TickKeeps ==
  ASSUME IInv, NEW c \in Connections, Tick(c) \/ Pong(c)
  PROVE  conn' \in [Connections -> Sides] /\ \A d \in Connections : InStep(conn'[d])
  <1> DEFINE n == conn[c].next
             line == Line(conn[c])
  <1>1. conn[c] \in Sides /\ n \in 1..MaxSequence /\ Ordered(line) /\ Ready(line, n)
    BY DEF IInv, TypeOK, Sides, InStep, Tick, Pong
  <1>2. ASSUME NEW frame \in Frames, frame.kind \in {"refresh", "pong"}, frame.sequence = n
        PROVE  \A k \in DOMAIN line : LastBefore(line, k, Len(line) + 1) =>
                  /\ Follows(frame, line[k])
                  /\ line[k] # NoFrame /\ n = Succ(line[k].sequence)
    BY <1>1, <1>2 DEF Ready, Follows
  <1>3. n \in 0..MaxSequence /\ Succ(n) \in 1..MaxSequence
    BY <1>1, SuccType DEF IInv
  <1>4. CASE Tick(c)
    <2> DEFINE frame == Frame("refresh", n)
    <2>1. frame \in Frames /\ frame.kind = "refresh" /\ frame.sequence = n
      BY <1>3 DEF Frame, Frames
    <2>2. Send(c, frame, Succ(n))
      BY <1>4 DEF Tick
    <2> HIDE DEF frame
    <2> QED
      BY <1>1, <1>2, <1>3, <2>1, <2>2, SendKeeps
  <1>5. CASE Pong(c)
    <2> DEFINE frame == Frame("pong", n)
    <2>1. frame \in Frames /\ frame.kind = "pong" /\ frame.sequence = n
      BY <1>3 DEF Frame, Frames
    <2>2. Send(c, frame, n)
      BY <1>5 DEF Pong
    <2> HIDE DEF frame
    <2> QED
      BY <1>1, <1>2, <1>3, <2>1, <2>2, SendKeeps
  <1> QED
    BY <1>4, <1>5

\* A connection begins, ends or loses its client.
LEMMA ClientKeeps ==
  ASSUME IInv, NEW c \in Connections,
         \/ \E kind \in Kinds : Request(c, kind)
         \/ Leave(c) \/ Answer(c) \/ Notice(c)
  PROVE  conn' \in [Connections -> Sides] /\ \A d \in Connections : InStep(conn'[d])
  <1>1. conn \in [Connections -> Sides] /\ InStep(conn[c]) /\ conn[c] \in Sides
    BY DEF IInv, TypeOK, Sides
  <1>2. ASSUME NEW kind \in Kinds, Request(c, kind)
        PROVE  \E q \in Sides : InStep(q) /\ conn' = [conn EXCEPT ![c] = q]
    <2> DEFINE q == [conn[c] EXCEPT !.pc = "handler", !.kind = kind, !.here = TRUE]
    <2>1. conn' = [conn EXCEPT ![c] = q]
      BY <1>2 DEF Request
    <2>2. q \in Sides /\ q.pc = "handler" /\ q.line = conn[c].line /\ q.seen = conn[c].seen
      BY <1>1 DEF Sides
    <2> HIDE DEF q
    <2>3. conn[c].line = <<>> /\ conn[c].seen = NoFrame
      <3>1. conn[c] = Free
        BY <1>2 DEF Request
      <3> QED
        BY <3>1 DEF Free
    <2>4. InStep(q)
      BY <2>2, <2>3, NoFrameIsNone DEF InStep
    <2> QED
      BY <2>1, <2>2, <2>4
  <1>3. ASSUME Leave(c)
        PROVE  \E q \in Sides : InStep(q) /\ conn' = [conn EXCEPT ![c] = q]
    <2> DEFINE q == [conn[c] EXCEPT !.here = FALSE]
    <2>1. conn' = [conn EXCEPT ![c] = q]
      BY <1>3 DEF Leave
    <2>2. /\ q \in Sides /\ q.pc = conn[c].pc /\ q.line = conn[c].line
          /\ q.seen = conn[c].seen /\ q.next = conn[c].next
      BY <1>1 DEF Sides
    <2>3. Line(q) = Line(conn[c])
      BY <2>2 DEF Line
    <2>4. InStep(q)
      BY <1>1, <2>2, <2>3 DEF InStep
    <2> QED
      BY <2>1, <2>2, <2>4
  <1>4. ASSUME Answer(c) \/ Notice(c)
        PROVE  \E q \in Sides : InStep(q) /\ conn' = [conn EXCEPT ![c] = q]
    BY <1>4, FreeInStep DEF Answer, Notice, Close, IInv, InStep
  <1>5. PICK q \in Sides : InStep(q) /\ conn' = [conn EXCEPT ![c] = q]
    BY <1>2, <1>3, <1>4
  <1> QED
    BY <1>1, <1>5 DEF IInv

\* The end of the process frees every connection; its other steps leave them alone.
LEMMA ProcessKeeps ==
  ASSUME IInv, SessionTurns \/ Drain \/ Stop \/ Start \/ \E s \in Signals : Signal(s)
  PROVE  conn' \in [Connections -> Sides] /\ \A d \in Connections : InStep(conn'[d])
  <1>1. conn \in [Connections -> Sides] /\ \A d \in Connections : InStep(conn[d])
    BY DEF IInv, TypeOK, Sides
  <1>2. UNCHANGED conn \/ conn' = [c \in Connections |-> Free]
    BY DEF SessionTurns, Drain, Stop, Start, Signal, Ended
  <1>3. Free \in Sides /\ InStep(Free)
    BY FreeInStep DEF IInv, InStep
  <1> QED
    BY <1>1, <1>2, <1>3

LEMMA NextKeeps == IInv /\ [Next]_vars => IInv'
  <1> SUFFICES ASSUME IInv, [Next]_vars PROVE IInv'
    OBVIOUS
  <1>1. conn' \in [Connections -> Sides] /\ \A d \in Connections : InStep(conn'[d])
    <2>1. CASE UNCHANGED vars
      BY <2>1 DEF vars, IInv, TypeOK, Sides
    <2> QED
      BY <2>1, ReadKeeps, OpenKeeps, TickKeeps, ClientKeeps, ProcessKeeps DEF Next
  <1>2. /\ phase' \in {"serving", "draining", "stopped"}
        /\ handlers' \subseteq Signals /\ signals' \subseteq Signals
        /\ session' \in BOOLEAN
    <2>1. /\ phase \in {"serving", "draining", "stopped"}
          /\ handlers \subseteq Signals /\ signals \subseteq Signals
          /\ session \in BOOLEAN
      BY DEF IInv, TypeOK
    <2>2. CASE SessionTurns \/ Drain \/ Stop \/ Start \/ \E s \in Signals : Signal(s)
      BY <2>1, <2>2 DEF SessionTurns, Drain, Stop, Start, Signal, Ended
    <2>3. ASSUME NEW c \in Connections,
                 \/ \E kind \in Kinds : Request(c, kind)
                 \/ Read(c) \/ Leave(c) \/ Answer(c) \/ Open(c) \/ Tick(c) \/ Pong(c) \/ Notice(c)
          PROVE  UNCHANGED <<phase, handlers, signals, session>>
      BY <2>3 DEF Request, Read, Leave, Answer, Open, Tick, Pong, Notice
    <2>4. CASE UNCHANGED vars
      BY <2>1, <2>4 DEF vars
    <2> QED
      BY <2>1, <2>2, <2>3, <2>4 DEF Next
  <1>3. StreamsConstants'
    BY DEF IInv, StreamsConstants
  <1> QED
    BY <1>1, <1>2, <1>3 DEF IInv, TypeOK, Sides

\* The inductive invariant holds in every behaviour of the process.
THEOREM Invariance == StreamsConstants /\ Spec => []IInv
  <1>1. StreamsConstants /\ Init => IInv
    <2> SUFFICES ASSUME StreamsConstants, Init PROVE IInv
      OBVIOUS
    <2>1. conn = [c \in Connections |-> Free] /\ Free \in Sides /\ InStep(Free)
      BY FreeInStep DEF Init, InStep
    <2>2. \A c \in Connections : InStep(conn[c])
      BY <2>1
    <2> QED
      BY <2>1, <2>2 DEF IInv, Init, TypeOK, Sides
  <1> QED
    BY <1>1, NextKeeps, PTL DEF Spec

\* The process and its connections keep their types; no number passes the largest.
THEOREM Types == StreamsConstants /\ Spec => []TypeOK
  <1>1. IInv => TypeOK
    BY DEF IInv
  <1> QED
    BY <1>1, Invariance, PTL

\* On every stream the frames come in order, none left out and none given twice before
\* the numbers saturate, however slow the client is (streaming.rs:26-37 and 49-70).
THEOREM InOrder == StreamsConstants /\ Spec => []FramesInOrder
  <1>1. ASSUME IInv PROVE FramesInOrder
    <2> SUFFICES ASSUME NEW c \in Connections PROVE Ordered(Line(conn[c]))
      BY DEF FramesInOrder, Ordered
    <2>1. InStep(conn[c]) /\ conn[c] \in Sides
      BY <1>1 DEF IInv, InStep
    <2>2. CASE conn[c].pc = "streaming"
      BY <2>1, <2>2 DEF InStep
    <2>3. CASE conn[c].pc # "streaming"
      <3>1. Len(conn[c].line) = 0
        BY <2>1, <2>3 DEF InStep
      <3>2. DOMAIN Line(conn[c]) = {1}
        BY <2>1, <3>1, LineDomain
      <3> QED
        BY <3>2 DEF Ordered, LastBefore
    <2> QED
      BY <2>2, <2>3
  <1> QED
    BY <1>1, Invariance, PTL
=============================================================================
