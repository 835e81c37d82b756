----------------------------- MODULE LinkProofs -----------------------------
(***************************************************************************)
(* Proofs about the link, for every bound and every message: what the      *)
(* session's operators do, and that every step keeps the types.            *)
(***************************************************************************)
EXTENDS LinkInvariant, SequenceTheorems, TLAPS

-----------------------------------------------------------------------------
(* The session's operators.                                                *)

\* What is left of a sequence without its first g elements.
LEMMA Suffix ==
  ASSUME NEW S, NEW q \in Seq(S), NEW g \in Nat, g <= Len(q)
  PROVE  /\ SubSeq(q, g + 1, Len(q)) \in Seq(S)
         /\ Len(SubSeq(q, g + 1, Len(q))) = Len(q) - g
         /\ \A i \in 1 .. Len(q) - g : SubSeq(q, g + 1, Len(q))[i] = q[i + g]
  OBVIOUS

\* What stamping a message does to the session and to nothing else of it.
LEMMA StampedFacts ==
  ASSUME NEW s \in SessionType, NEW m \in Message
  PROVE  /\ Stamped(s, m) \in SessionType
         /\ Stamped(s, m).confirmed = s.confirmed
         /\ Stamped(s, m).kept = Append(s.kept, m)
         /\ Stamped(s, m).received = s.received
         /\ Stamped(s, m).next = s.next
         /\ StampFrame(s, m) \in Frame
  <1>1. Stamped(s, m) = [s EXCEPT !.kept = Append(s.kept, m), !.owed = FALSE]
    BY DEF Stamped, SessionType
  <1>2. /\ s.kept \in Seq(Message) /\ s.confirmed \in Nat /\ s.received \in Nat
        /\ Len(s.kept) \in Nat
    BY DEF SessionType
  <1>3. Append(s.kept, m) \in Seq(Message)
    BY <1>2
  <1>4. StampFrame(s, m) \in Frame
    BY <1>2 DEF StampFrame, NumberedFrame, Sent, Frame
  <1> QED
    BY <1>1, <1>3, <1>4 DEF SessionType

\* A release keeps the session's messages after the confirmed ones, in order.
LEMMA ReleasedFacts ==
  ASSUME NEW s \in SessionType, NEW n \in Nat, Accepts(s, n)
  PROVE  /\ Released(s, n) \in SessionType
         /\ Released(s, n).confirmed = n
         /\ Released(s, n).received = s.received
         /\ Released(s, n).next = s.next
         /\ Released(s, n).owed = s.owed
         /\ Len(Released(s, n).kept) = Len(s.kept) - (n - s.confirmed)
         /\ \A i \in 1 .. Len(Released(s, n).kept) :
              Released(s, n).kept[i] = s.kept[i + (n - s.confirmed)]
  <1> DEFINE gone == n - s.confirmed
             rest == SubSeq(s.kept, gone + 1, Len(s.kept))
  <1>1. /\ s.confirmed \in Nat /\ s.kept \in Seq(Message) /\ Len(s.kept) \in Nat
        /\ gone \in Nat /\ gone <= Len(s.kept)
    BY DEF SessionType, Accepts, Sent
  <1>3. /\ rest \in Seq(Message)
        /\ Len(rest) = Len(s.kept) - gone
        /\ \A i \in 1 .. Len(s.kept) - gone : rest[i] = s.kept[i + gone]
    BY <1>1, Suffix
  <1>4. s.cursor \in Nat /\ (IF s.cursor < gone THEN 0 ELSE s.cursor - gone) \in Nat
    BY <1>1 DEF SessionType
  <1>5. Released(s, n) = [s EXCEPT !.confirmed = n, !.kept = rest,
                            !.cursor = IF s.cursor < gone THEN 0 ELSE s.cursor - gone]
    BY DEF Released, SessionType
  <1> QED
    BY <1>1, <1>3, <1>4, <1>5 DEF SessionType

\* The new session has its type and tracks nothing.
LEMMA NewSessionFacts ==
  /\ NewSession \in SessionType
  /\ NewSession.confirmed = 0 /\ NewSession.kept = <<>>
  /\ NewSession.received = 0 /\ NewSession.next = 0 /\ NewSession.owed = FALSE
  BY DEF NewSession, SessionType

\* Handling a message counts it and touches nothing else but the debt.
LEMMA HandledFacts ==
  ASSUME NEW s \in SessionType
  PROVE  /\ Handled(s) \in SessionType
         /\ Handled(s).confirmed = s.confirmed /\ Handled(s).kept = s.kept
         /\ Handled(s).received = s.received + 1
         /\ Handled(s).next = s.next
  <1>1. Handled(s) = [s EXCEPT !.received = s.received + 1, !.owed = TRUE]
    BY DEF Handled, SessionType
  <1>2. s.received \in Nat /\ s.received + 1 \in Nat
    BY DEF SessionType
  <1> QED
    BY <1>1, <1>2 DEF SessionType

\* Writing a kept message again moves the cursor and settles the debt.
LEMMA ResentFacts ==
  ASSUME NEW s \in SessionType
  PROVE  /\ Resent(s) \in SessionType
         /\ Resent(s).confirmed = s.confirmed /\ Resent(s).kept = s.kept
         /\ Resent(s).received = s.received /\ Resent(s).next = s.next
  <1>1. Resent(s) = [s EXCEPT !.cursor = s.cursor + 1, !.owed = FALSE]
    BY DEF Resent, SessionType
  <1>2. s.cursor \in Nat /\ s.cursor + 1 \in Nat
    BY DEF SessionType
  <1> QED
    BY <1>1, <1>2 DEF SessionType

\* The frame written again is the kept message under the cursor, or its number.
LEMMA ResendFrameFacts ==
  ASSUME NEW s \in SessionType, HasResend(s)
  PROVE  /\ ResendFrame(s) \in Frame
         /\ s.cursor + 1 \in 1 .. Len(s.kept)
         /\ ResendFrame(s).kind = "numbered"
         /\ ResendFrame(s).seq = s.confirmed + s.cursor
         /\ ResendFrame(s).ack = s.received
         /\ ResendFrame(s).body =
              IF s.kept[s.cursor + 1].again THEN s.kept[s.cursor + 1] ELSE Nothing
  <1>1. /\ s.kept \in Seq(Message) /\ s.confirmed \in Nat /\ s.received \in Nat
        /\ Len(s.kept) \in Nat /\ s.cursor \in Nat
    BY DEF SessionType
  <1>2. s.cursor + 1 \in 1 .. Len(s.kept)
    BY <1>1 DEF HasResend
  <1>3. s.kept[s.cursor + 1] \in Message
    BY <1>1, <1>2
  <1> QED
    BY <1>1, <1>2, <1>3 DEF ResendFrame, NumberedFrame, Frame

\* A lone acknowledgement only settles the debt.
LEMMA AcknowledgedFacts ==
  ASSUME NEW s \in SessionType
  PROVE  /\ Acknowledged(s) \in SessionType
         /\ Acknowledged(s).confirmed = s.confirmed /\ Acknowledged(s).kept = s.kept
         /\ Acknowledged(s).received = s.received /\ Acknowledged(s).next = s.next
         /\ Acknowledged(s).owed = FALSE
         /\ AckFrame(s) \in Frame
  <1>1. Acknowledged(s) = [s EXCEPT !.owed = FALSE]
    BY DEF Acknowledged, SessionType
  <1>2. s.received \in Nat
    BY DEF SessionType
  <1>3. AckFrame(s) \in Frame
    BY <1>2 DEF AckFrame, Frame
  <1> QED
    BY <1>1, <1>3 DEF SessionType

\* A resumed session is released to r and reads on after what was handled.
LEMMA ResumedFacts ==
  ASSUME NEW s \in SessionType, NEW r \in Nat, Accepts(s, r)
  PROVE  /\ Resumed(s, r) \in SessionType
         /\ Resumed(s, r).confirmed = r
         /\ Resumed(s, r).kept = Released(s, r).kept
         /\ Resumed(s, r).received = s.received
         /\ Resumed(s, r).next = s.received
  <1> DEFINE t == Released(s, r)
  <1>1. t \in SessionType /\ t.confirmed = r /\ t.received = s.received
    BY ReleasedFacts
  <1>2. s.received \in Nat
    BY DEF SessionType
  <1> HIDE DEF t
  <1>3. [t EXCEPT !.cursor = 0, !.next = s.received] \in SessionType
    BY <1>1, <1>2 DEF SessionType
  <1>4. LET u == [t EXCEPT !.cursor = 0, !.next = s.received]
        IN  u.confirmed = t.confirmed /\ u.kept = t.kept
              /\ u.received = t.received /\ u.next = s.received
    BY <1>1 DEF SessionType
  <1>5. Resumed(s, r) = [t EXCEPT !.cursor = 0, !.next = s.received]
    BY DEF Resumed, t
  <1> QED
    BY <1>1, <1>3, <1>4, <1>5 DEF t

\* Reading a frame: what is released, and where the next message is expected.
LEMMA AfterReadFacts ==
  ASSUME NEW s \in SessionType, NEW f \in Frame
  PROVE  /\ AfterRead(s, f) \in SessionType
         /\ AfterRead(s, f).received = s.received
         /\ Verdict(s, f) = "error" \/ Releasable(s, f.ack)
         /\ Releasable(s, f.ack) =>
              /\ AfterRead(s, f).confirmed = f.ack
              /\ AfterRead(s, f).kept = Released(s, f.ack).kept
         /\ ~Releasable(s, f.ack) => AfterRead(s, f) = s
         /\ Verdict(s, f) \in {"message", "skipped"} =>
              /\ f.kind = "numbered" /\ f.seq = s.next
              /\ AfterRead(s, f).next = s.next + 1
         /\ Verdict(s, f) \notin {"message", "skipped"} => AfterRead(s, f).next = s.next
  <1> DEFINE t == Released(s, f.ack)
  <1>1. f.ack \in Nat /\ f.seq \in Nat /\ s.next \in Nat /\ f.kind \in {"numbered", "ack"}
    BY DEF Frame, SessionType
  <1>2. CASE ~Releasable(s, f.ack)
    BY <1>2 DEF AfterRead, Verdict
  <1>3. CASE Releasable(s, f.ack)
    <2>1. /\ t \in SessionType /\ t.confirmed = f.ack /\ t.received = s.received
          /\ t.next = s.next
      BY <1>1, <1>3, ReleasedFacts DEF Releasable
    <2>2. CASE f.kind = "ack"
      BY <1>3, <2>1, <2>2 DEF AfterRead, Verdict
    <2>3. CASE f.kind = "numbered"
      <3> DEFINE n == IF f.seq = s.next THEN t.next + 1 ELSE t.next
      <3>1. n \in Nat
        BY <1>1, <2>1
      <3>2. AfterRead(s, f) = [t EXCEPT !.owed = TRUE, !.next = n]
        BY <1>3, <2>1, <2>3 DEF AfterRead, SessionType
      <3> HIDE DEF t, n
      <3>3. LET u == [t EXCEPT !.owed = TRUE, !.next = n]
            IN  /\ u \in SessionType /\ u.confirmed = t.confirmed /\ u.kept = t.kept
                /\ u.received = t.received /\ u.next = n
        BY <2>1, <3>1 DEF SessionType
      <3>4. Verdict(s, f) \in {"message", "skipped"} <=> f.seq = s.next
        BY <1>1, <1>3, <2>3 DEF Verdict
      <3> QED
        BY <1>1, <1>3, <2>1, <2>3, <3>2, <3>3, <3>4 DEF n, t
    <2> QED
      BY <1>1, <2>2, <2>3
  <1> QED
    BY <1>2, <1>3

-----------------------------------------------------------------------------
(* Types.                                                                  *)

\* A frame that leaves keeps the wires typed.
LEMMA PutTypes ==
  ASSUME TypeOK, NEW e \in End, NEW f \in Frame, Put(e, f)
  PROVE  up' \in Seq(Frame) /\ down' \in Seq(Frame \cup Welcome)
  <1>1. up \in Seq(Frame) /\ down \in Seq(Frame \cup Welcome)
    BY DEF TypeOK
  <1>2. Append(up, f) \in Seq(Frame)
    BY <1>1
  <1>3. Append(down, f) \in Seq(Frame \cup Welcome)
    BY <1>1
  <1>4. up' \in {up, Append(up, f)} /\ down' \in {down, Append(down, f)}
    BY DEF Put, PutUp, PutDown
  <1> QED
    BY <1>1, <1>2, <1>3, <1>4

\* A message numbered by end e has its type, and so has what records it.
LEMMA StampTypes ==
  ASSUME TypeOK, NEW e \in End, NEW again \in BOOLEAN, NEW born \in Sessions,
         Stamp(e, NewMessage(e, again, born))
  PROVE  /\ NewMessage(e, again, born) \in Message
         /\ sess' \in [End -> SessionType]
         /\ hist' \in [Sessions -> [End -> Seq(Message)]]
         /\ StampFrame(sess[e], NewMessage(e, again, born)) \in Frame
  <1> DEFINE m == NewMessage(e, again, born)
  <1>1. number[e] \in Sessions /\ hist[number[e]][e] \in Seq(Message) /\ sess[e] \in SessionType
    BY DEF TypeOK
  <1>2. ConnOf(e) \in Conns
    BY DEF TypeOK, ConnOf
  <1>3. Len(hist[number[e]][e]) + 1 \in Nat
    BY <1>1
  <1>4. m \in Message
    BY <1>2, <1>3 DEF NewMessage, Message
  <1> HIDE DEF m
  <1>5. Stamped(sess[e], m) \in SessionType /\ StampFrame(sess[e], m) \in Frame
    BY <1>1, <1>4, StampedFacts
  <1>6. sess' = [sess EXCEPT ![e] = Stamped(sess[e], m)]
    BY DEF Stamp, m
  <1>7. hist' = [hist EXCEPT ![number[e]][e] = Append(hist[number[e]][e], m)]
    BY DEF Stamp, m
  <1>8. Append(hist[number[e]][e], m) \in Seq(Message)
    BY <1>1, <1>4
  <1> QED
    BY <1>1, <1>4, <1>5, <1>6, <1>7, <1>8 DEF TypeOK, m

\* The hello that resumes, or begins, leaves the backend's session typed.
LEMMA BeginTypes ==
  ASSUME TypeOK, NEW h \in Hello, Begin(h)
  PROVE  /\ sess' \in [End -> SessionType] /\ backlog' \in [End -> Seq(Sessions)]
         /\ number' \in [End -> Sessions] /\ known' \in Nat /\ drawn' \in Sessions
  <1>0. "backend" \in End /\ sess["backend"] \in SessionType /\ h.received \in Nat
        /\ h.instance \in Nat
    BY DEF End, TypeOK, Hello
  <1>1. CASE Resumes(h)
    <2>1. Resumed(sess["backend"], h.received) \in SessionType
      BY <1>0, <1>1, ResumedFacts DEF Resumes
    <2> QED
      BY <1>1, <2>1 DEF TypeOK, Begin
  <1>2. CASE ~Resumes(h)
    <2>1. drawn' \in Sessions
      BY <1>2, LinkBounds DEF TypeOK, Begin, Sessions
    <2>2. <<>> \in Seq(Sessions)
      OBVIOUS
    <2> QED
      BY <1>0, <1>2, <2>1, <2>2, NewSessionFacts DEF TypeOK, Begin
  <1> QED
    BY <1>1, <1>2

\* A runner and a backend that just started have their types.
LEMMA TypeInit == Init => TypeOK
  <1> SUFFICES ASSUME Init PROVE TypeOK
    OBVIOUS
  <1>1. 0 \in Sessions /\ 0 \in Conns
    BY LinkBounds DEF Sessions, Conns
  <1>2. sess \in [End -> SessionType]
    BY NewSessionFacts DEF Init
  <1>3. \A S : <<>> \in Seq(S)
    OBVIOUS
  <1>4. backlog \in [End -> Seq(Sessions)] /\ number \in [End -> Sessions]
    BY <1>1, <1>3 DEF Init, None
  <1>5. /\ hist \in [Sessions -> [End -> Seq(Message)]]
        /\ log \in [Sessions -> [End -> Seq(Entry)]]
    BY <1>3 DEF Init
  <1> QED
    BY <1>1, <1>2, <1>3, <1>4, <1>5 DEF Init, TypeOK, None

\* Every step of either end, of the network or of a restart keeps the types.
LEMMA TypeStep == TypeOK /\ [Next]_vars => TypeOK'
  <1> SUFFICES ASSUME TypeOK, [Next]_vars PROVE TypeOK'
    OBVIOUS
  <1> USE DEF runnerVars, backendVars, ghostVars
  <1>0. "runner" \in End /\ "backend" \in End
    BY DEF End
  <1>1. ASSUME NEW e \in End, NEW again \in BOOLEAN, Send(e, again) PROVE TypeOK'
    <2>1. number[e] \in Sessions
      BY DEF TypeOK
    <2>2. /\ sess' \in [End -> SessionType] /\ hist' \in [Sessions -> [End -> Seq(Message)]]
          /\ up' \in Seq(Frame) /\ down' \in Seq(Frame \cup Welcome)
      BY <1>1, <2>1, StampTypes, PutTypes DEF Send, StampAndPut
    <2> QED
      BY <1>1, <2>2 DEF TypeOK, Send
  <1>2. ASSUME NEW e \in End, Push(e) PROVE TypeOK'
    <2>1. Append(backlog[e], number[e]) \in Seq(Sessions)
      BY DEF TypeOK
    <2> QED
      BY <1>2, <2>1 DEF TypeOK, Push
  <1>3. ASSUME NEW e \in End, SendBacklog(e) PROVE TypeOK'
    <2>1. backlog[e] \in Seq(Sessions) /\ backlog[e] # <<>>
      BY <1>3 DEF TypeOK, SendBacklog
    <2>2. Head(backlog[e]) \in Sessions /\ Tail(backlog[e]) \in Seq(Sessions)
      BY <2>1
    <2>3. /\ sess' \in [End -> SessionType] /\ hist' \in [Sessions -> [End -> Seq(Message)]]
          /\ up' \in Seq(Frame) /\ down' \in Seq(Frame \cup Welcome)
      BY <1>3, <2>2, StampTypes, PutTypes DEF SendBacklog, StampAndPut
    <2> QED
      BY <1>3, <2>2, <2>3 DEF TypeOK, SendBacklog
  <1>4. ASSUME NEW e \in End, Resend(e) PROVE TypeOK'
    <2>1. sess[e] \in SessionType /\ HasResend(sess[e])
      BY <1>4 DEF TypeOK, Resend
    <2>2. Resent(sess[e]) \in SessionType /\ ResendFrame(sess[e]) \in Frame
      BY <2>1, ResentFacts, ResendFrameFacts
    <2>3. up' \in Seq(Frame) /\ down' \in Seq(Frame \cup Welcome)
      BY <1>4, <2>2, PutTypes DEF Resend
    <2> QED
      BY <1>4, <2>2, <2>3 DEF TypeOK, Resend
  <1>5. ASSUME NEW e \in End, ResendDone(e) PROVE TypeOK'
    BY <1>5 DEF TypeOK, ResendDone
  <1>6. ASSUME NEW e \in End, WriteAck(e) PROVE TypeOK'
    <2>1. Acknowledged(sess[e]) \in SessionType /\ AckFrame(sess[e]) \in Frame
      BY AcknowledgedFacts DEF TypeOK
    <2>2. up' \in Seq(Frame) /\ down' \in Seq(Frame \cup Welcome)
      BY <1>6, <2>1, PutTypes DEF WriteAck
    <2>3. early' \in BOOLEAN
      BY <1>6 DEF WriteAck
    <2> QED
      BY <1>6, <2>1, <2>2, <2>3 DEF TypeOK, WriteAck
  <1>7. CASE Connect
    <2>1. conn' \in Conns
      BY <1>7, LinkBounds DEF TypeOK, Connect, Conns
    <2> QED
      BY <1>7, <2>1 DEF TypeOK, Connect
  <1>8. CASE SayHello
    <2> DEFINE h == [conn |-> conn, instance |-> instance, session |-> number["runner"],
                     received |-> sess["runner"].received]
    <2>1. sess["runner"].received \in Nat
      BY <1>0 DEF TypeOK, SessionType
    <2>2. h \in Hello
      BY <1>0, <2>1 DEF TypeOK, Hello
    <2>3. pending' \in SUBSET Hello
      BY <1>8, <2>2 DEF TypeOK, SayHello
    <2> QED
      BY <1>8, <2>3 DEF TypeOK, SayHello
  <1>9. CASE ReadWelcome
    <2> DEFINE w == Head(down)
    <2>1. down \in Seq(Frame \cup Welcome) /\ down # <<>> /\ w.kind = "hello_ok"
      BY <1>9 DEF TypeOK, ReadWelcome
    <2>2. w \in Frame \cup Welcome /\ Tail(down) \in Seq(Frame \cup Welcome)
      BY <2>1
    <2>3. w \in Welcome
      BY <2>1, <2>2 DEF Frame, Welcome
    <2>4. w.session \in Sessions /\ w.received \in Nat
      BY <2>3 DEF Welcome
    <2>5. /\ sess["runner"] \in SessionType
          /\ Accepts(sess["runner"], w.received) =>
               Resumed(sess["runner"], w.received) \in SessionType
      BY <1>0, <2>4, ResumedFacts DEF TypeOK
    <2> HIDE DEF w
    <2>6. HelloOk(w.session, w.received)
      BY <1>9 DEF ReadWelcome, w
    <2>7. sess' \in [End -> SessionType]
      BY <2>5, <2>6, NewSessionFacts DEF TypeOK, HelloOk
    <2>8. <<>> \in Seq(Sessions) /\ backlog["runner"] \in Seq(Sessions)
      BY <1>0 DEF TypeOK
    <2>9. /\ backlog' \in [End -> Seq(Sessions)] /\ number' \in [End -> Sessions]
          /\ ended' \in BOOLEAN
      BY <2>4, <2>6, <2>8 DEF TypeOK, HelloOk
    <2>10. inbox' \in Seq(Arrival)
      <3>1. WelcomeArrival \in Arrival
        BY DEF WelcomeArrival, Arrival
      <3> QED
        BY <1>9, <3>1 DEF TypeOK, ReadWelcome
    <2> QED
      BY <1>9, <2>2, <2>7, <2>9, <2>10 DEF TypeOK, ReadWelcome
  <1>10. CASE Open
    BY <1>10 DEF TypeOK, Open
  <1>11. CASE RunnerReads
    <2> DEFINE f == Head(down)
    <2>1. down \in Seq(Frame \cup Welcome) /\ down # <<>> /\ f.kind # "hello_ok"
      BY <1>11 DEF TypeOK, RunnerReads
    <2>2. f \in Frame \cup Welcome /\ Tail(down) \in Seq(Frame \cup Welcome)
      BY <2>1
    <2>3. f \in Frame
      BY <2>1, <2>2 DEF Frame, Welcome
    <2>4. AfterRead(sess["runner"], f) \in SessionType
      BY <1>0, <2>3, AfterReadFacts DEF TypeOK
    <2>5. [kind |-> "numbered", body |-> f.body] \in Arrival
      BY <2>3 DEF Frame, Arrival
    <2>6. inbox' \in Seq(Arrival)
      BY <1>11, <2>5 DEF TypeOK, RunnerReads
    <2>7. sess' \in [End -> SessionType]
      BY <1>11, <2>4 DEF TypeOK, RunnerReads
    <2>8. down' \in Seq(Frame \cup Welcome)
      <3>1. down' \in {<<>>, Tail(down)}
        BY <1>11 DEF RunnerReads
      <3>2. <<>> \in Seq(Frame \cup Welcome)
        OBVIOUS
      <3> QED
        BY <2>2, <3>1, <3>2
    <2> QED
      BY <1>11, <2>6, <2>7, <2>8 DEF TypeOK, RunnerReads
  <1>12. CASE RunnerHandles
    <2>1. inbox \in Seq(Arrival) /\ inbox # <<>>
      BY <1>12 DEF TypeOK, RunnerHandles
    <2>2. Head(inbox) \in Arrival /\ Tail(inbox) \in Seq(Arrival)
      BY <2>1
    <2>3. [body |-> Head(inbox).body, conn |-> conn] \in Entry
      BY <2>2 DEF TypeOK, Arrival, Entry
    <2>4. CASE Head(inbox).kind = "welcome"
      BY <1>12, <2>2, <2>4 DEF TypeOK, RunnerHandles
    <2>5. CASE Head(inbox).kind # "welcome"
      <3>1. Handled(sess["runner"]) \in SessionType
        BY <1>0, HandledFacts DEF TypeOK
      <3>2. number["runner"] \in Sessions /\ log[number["runner"]]["runner"] \in Seq(Entry)
        BY <1>0 DEF TypeOK
      <3>3. Append(log[number["runner"]]["runner"],
                   [body |-> Head(inbox).body, conn |-> conn]) \in Seq(Entry)
        BY <2>3, <3>2
      <3> DEFINE q == Append(log[number["runner"]]["runner"],
                             [body |-> Head(inbox).body, conn |-> conn])
      <3>4. log' = [log EXCEPT ![number["runner"]]["runner"] = q]
        BY <1>12, <2>5 DEF RunnerHandles
      <3>5. q \in Seq(Entry) /\ log \in [Sessions -> [End -> Seq(Entry)]]
        BY <3>3 DEF TypeOK
      <3> HIDE DEF q
      <3>6. log' \in [Sessions -> [End -> Seq(Entry)]]
        BY <1>0, <3>2, <3>4, <3>5
      <3>7. sess' \in [End -> SessionType]
        <4>1. sess' = [sess EXCEPT !["runner"] = Handled(sess["runner"])]
          BY <1>12, <2>5 DEF RunnerHandles
        <4> QED
          BY <1>0, <3>1, <4>1 DEF TypeOK
      <3>8. /\ inbox' \in Seq(Arrival) /\ ended' = ended
            /\ UNCHANGED <<backlog, number, conn, phase, early, instance,
                           backendVars, up, down, faults, hist>>
        BY <1>12, <2>2, <2>5 DEF RunnerHandles
      <3> QED
        BY <3>6, <3>7, <3>8 DEF TypeOK
    <2> QED
      BY <2>4, <2>5
  <1>13. ASSUME NEW h \in pending, Adopt(h) PROVE TypeOK'
    <2>1. h \in Hello
      BY <1>13 DEF TypeOK
    <2>2. /\ sess' \in [End -> SessionType] /\ backlog' \in [End -> Seq(Sessions)]
          /\ number' \in [End -> Sessions] /\ known' \in Nat /\ drawn' \in Sessions
      BY <1>13, <2>1, BeginTypes DEF Adopt
    <2> DEFINE w == [kind |-> "hello_ok", session |-> number'["backend"],
                     received |-> sess'["backend"].received]
    <2>3. number'["backend"] \in Sessions /\ sess'["backend"].received \in Nat
      BY <1>0, <2>2 DEF SessionType
    <2>4. w \in Frame \cup Welcome
      BY <2>3 DEF Welcome
    <2>5. <<w>> \in Seq(Frame \cup Welcome)
      BY <2>4
    <2>6. down' \in {down, <<w>>}
      BY <1>13 DEF Adopt
    <2> HIDE DEF w
    <2>7. down' \in Seq(Frame \cup Welcome) /\ up' \in Seq(Frame)
      <3>1. down \in Seq(Frame \cup Welcome)
        BY DEF TypeOK
      <3>2. up' = <<>>
        BY <1>13 DEF Adopt
      <3>3. <<>> \in Seq(Frame)
        OBVIOUS
      <3>4. down' \in Seq(Frame \cup Welcome)
        BY <2>5, <2>6, <3>1
      <3> QED
        BY <3>2, <3>3, <3>4
    <2>8. held' \in Conns
      BY <1>13, <2>1 DEF Adopt, Hello
    <2> QED
      BY <1>13, <2>2, <2>7, <2>8 DEF TypeOK, Adopt
  <1>14. 0 \in Conns /\ 0 \in Sessions /\ \A S : <<>> \in Seq(S)
    BY LinkBounds DEF Conns, Sessions
  <1>f. Fault => faults' \in Nat
    BY DEF Fault, TypeOK
  <1>15. ASSUME NEW h \in pending, GiveWay(h) PROVE TypeOK'
    BY <1>14, <1>15 DEF TypeOK, GiveWay, None
  <1>16. ASSUME NEW h \in pending, ProbeMissed(h) PROVE TypeOK'
    BY <1>14, <1>f, <1>16 DEF TypeOK, ProbeMissed, None
  <1>17. ASSUME NEW h \in pending, Refuse(h) PROVE TypeOK'
    BY <1>17 DEF TypeOK, Refuse
  <1>18. ASSUME NEW h \in pending, Forget(h) PROVE TypeOK'
    BY <1>18 DEF TypeOK, Forget
  <1>19. CASE BackendReads
    <2> DEFINE f == Head(up)
               t == AfterRead(sess["backend"], f)
               took == Verdict(sess["backend"], f) \in {"message", "skipped"}
    <2>1. up \in Seq(Frame) /\ up # <<>>
      BY <1>19 DEF TypeOK, BackendReads
    <2>2. f \in Frame /\ Tail(up) \in Seq(Frame)
      BY <2>1
    <2>3. t \in SessionType
      BY <1>0, <2>2, AfterReadFacts DEF TypeOK
    <2>4. Handled(t) \in SessionType
      BY <2>3, HandledFacts
    <2>5. sess' \in [End -> SessionType]
      BY <1>19, <2>3, <2>4 DEF TypeOK, BackendReads
    <2>6. [body |-> f.body, conn |-> held] \in Entry
      BY <2>2 DEF TypeOK, Frame, Entry
    <2>7. number["backend"] \in Sessions /\ log[number["backend"]]["backend"] \in Seq(Entry)
      BY <1>0 DEF TypeOK
    <2>8. Append(log[number["backend"]]["backend"], [body |-> f.body, conn |-> held]) \in Seq(Entry)
      BY <2>6, <2>7
    <2>9. log' \in [Sessions -> [End -> Seq(Entry)]]
      <3>1. CASE took
        BY <1>19, <2>7, <2>8, <3>1 DEF TypeOK, BackendReads
      <3>2. CASE ~took
        BY <1>19, <3>2 DEF TypeOK, BackendReads
      <3> QED
        BY <3>1, <3>2
    <2>10. up' \in Seq(Frame) /\ held' \in Conns /\ replaying' \in BOOLEAN
      BY <1>14, <1>19, <2>2 DEF TypeOK, BackendReads, None
    <2> QED
      BY <1>19, <2>5, <2>9, <2>10 DEF TypeOK, BackendReads
  <1>20. CASE RunnerNotices
    BY <1>14, <1>20 DEF TypeOK, RunnerNotices
  <1>21. CASE BackendNotices
    BY <1>14, <1>21 DEF TypeOK, BackendNotices, None
  <1>22. CASE RunnerLoses
    BY <1>14, <1>f, <1>22 DEF TypeOK, RunnerLoses
  <1>23. CASE BackendLoses
    BY <1>14, <1>f, <1>23 DEF TypeOK, BackendLoses, None
  <1>24. ASSUME NEW q \in BOOLEAN, OwnerFails(q) PROVE TypeOK'
    <2>1. CASE q
      <3> DEFINE m == NewMessage("runner", TRUE, number["runner"])
      <3>1. Stamp("runner", m) /\ PutUp(StampFrame(sess["runner"], m))
        BY <1>24, <2>1 DEF OwnerFails
      <3>2. number["runner"] \in Sessions
        BY <1>0 DEF TypeOK
      <3>3. /\ sess' \in [End -> SessionType] /\ hist' \in [Sessions -> [End -> Seq(Message)]]
            /\ StampFrame(sess["runner"], m) \in Frame
        BY <1>0, <3>1, <3>2, StampTypes
      <3>4. up' \in Seq(Frame)
        <4>1. up' \in {up, Append(up, StampFrame(sess["runner"], m))}
          BY <3>1 DEF PutUp
        <4> HIDE DEF m
        <4>2. up \in Seq(Frame) /\ Append(up, StampFrame(sess["runner"], m)) \in Seq(Frame)
          BY <3>3 DEF TypeOK
        <4> QED
          BY <4>1, <4>2
      <3> QED
        BY <1>14, <1>f, <1>24, <3>3, <3>4 DEF TypeOK, OwnerFails
    <2>2. CASE ~q
      BY <1>14, <1>f, <1>24, <2>2 DEF TypeOK, OwnerFails
    <2> QED
      BY <2>1, <2>2
  <1>25. CASE RunnerRestarts
    <2>1. sess' \in [End -> SessionType]
      BY <1>25, NewSessionFacts DEF TypeOK, RunnerRestarts
    <2>2. instance' \in Nat
      BY <1>25 DEF TypeOK, RunnerRestarts
    <2> QED
      BY <1>14, <1>f, <1>25, <2>1, <2>2 DEF TypeOK, RunnerRestarts, None
  <1>26. CASE BackendRestarts
    <2>1. sess' \in [End -> SessionType]
      BY <1>26, NewSessionFacts DEF TypeOK, BackendRestarts
    <2> QED
      BY <1>14, <1>f, <1>26, <2>1 DEF TypeOK, BackendRestarts, None
  <1>27. CASE UNCHANGED vars
    BY <1>27 DEF TypeOK, vars
  <1> QED
    BY <1>1, <1>2, <1>3, <1>4, <1>5, <1>6, <1>7, <1>8, <1>9, <1>10, <1>11, <1>12, <1>13,
       <1>15, <1>16, <1>17, <1>18, <1>19, <1>20, <1>21, <1>22, <1>23, <1>24, <1>25,
       <1>26, <1>27
    DEF Next, Traffic, Runner, Adoption, Backend, Faults

\* Every state of the link has its types, for all bounds: no operation of
\* either end leaves a counter, a queue or a wire outside its domain.
THEOREM TypeCorrect == Spec => []TypeOK
  <1> QED
    BY TypeInit, TypeStep, PTL DEF Spec
=============================================================================
