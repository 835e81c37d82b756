----------------------------- MODULE LinkSteps ------------------------------
(***************************************************************************)
(* The invariant IInv is kept by every other step of the link: what is     *)
(* read and handled, hellos and welcomes, and connections and processes    *)
(* that end.                                                               *)
(***************************************************************************)
EXTENDS LinkWrites

\* Messages that are released leave the others tracked.
LEMMA ReleasedTracks ==
  ASSUME NEW s \in SessionType, NEW n \in Nat, Accepts(s, n), NEW w, Tracks(s, w),
         NEW t \in SessionType, t.confirmed = n, t.kept = Released(s, n).kept
  PROVE  Tracks(t, w)
  <1>1. /\ Len(t.kept) = Len(s.kept) - (n - s.confirmed)
        /\ \A i \in 1 .. Len(t.kept) : t.kept[i] = s.kept[i + (n - s.confirmed)]
    BY ReleasedFacts
  <1>2. /\ s.confirmed \in Nat /\ Len(s.kept) \in Nat /\ Len(t.kept) \in Nat
        /\ s.confirmed <= n /\ n <= s.confirmed + Len(s.kept)
    BY DEF SessionType, Accepts, Sent
  <1>3. /\ s.confirmed + Len(s.kept) = Len(w)
        /\ \A i \in 1 .. Len(s.kept) : s.kept[i] = w[s.confirmed + i]
    BY DEF Tracks, Sent
  <1>4. Sent(t) = Len(w)
    BY <1>1, <1>2, <1>3 DEF Sent
  <1>5. ASSUME NEW i \in 1 .. Len(t.kept) PROVE t.kept[i] = w[n + i]
    <2>1. i + (n - s.confirmed) \in 1 .. Len(s.kept)
      BY <1>1, <1>2
    <2>2. s.confirmed + (i + (n - s.confirmed)) = n + i
      BY <1>2
    <2> QED
      BY <1>1, <1>3, <2>1, <2>2
  <1> QED
    BY <1>4, <1>5 DEF Tracks

\* A step that changes no wire, session or history keeps the invariant: a hello
\* may go, and the writer's phase may move on.
LEMMA QuietKeeps ==
  ASSUME IInv, UNCHANGED <<sess, number, conn, inbox, held, drawn, up, down, hist, log>>,
         pending' \subseteq pending, phase' = phase \/ (Reading /\ Reading')
  PROVE  Parts'
  <1>1. Connections'
    BY DEF IInv, Connections, Reading
  <1>2. Numbers'
    BY DEF IInv, Numbers, Reading
  <1>3. Hellos'
    BY DEF IInv, Hellos, Reading
  <1>4. Welcomes'
    BY DEF IInv, Welcomes, Reading
  <1>5. Wires'
    BY DEF IInv, Wires, FrameOf, DownSession, Reading
  <1>6. Ends'
    BY DEF IInv, Ends
  <1>7. Inboxes'
    BY DEF IInv, Inboxes, Welcomed, Reading
  <1>8. Logs'
    BY DEF IInv, Logs
  <1> QED
    BY <1>1, <1>2, <1>3, <1>4, <1>5, <1>6, <1>7, <1>8 DEF Parts

\* The backend's end of its connection goes, and what was on the way to it.
LEMMA CloseKeeps ==
  ASSUME IInv, held' = None, up' = <<>>,
         UNCHANGED <<sess, number, conn, phase, inbox, pending, drawn, down, hist, log>>
  PROVE  Parts'
  <1>0. conn \in Nat
    BY LinkBounds DEF IInv, TypeOK, Conns
  <1>1. Connections'
    BY <1>0 DEF IInv, Connections, None
  <1>2. Numbers'
    BY DEF IInv, Numbers, Reading, Connections
  <1>3. Hellos'
    BY DEF IInv, Hellos
  <1>4. Welcomes'
    BY DEF IInv, Welcomes, Connections
  <1>5. Wires'
    BY DEF IInv, Wires, FrameOf, DownSession
  <1>6. Ends'
    BY DEF IInv, Ends
  <1>7. Inboxes'
    BY DEF IInv, Inboxes, Welcomed, Reading
  <1>8. Logs'
    BY DEF IInv, Logs
  <1> QED
    BY <1>1, <1>2, <1>3, <1>4, <1>5, <1>6, <1>7, <1>8 DEF Parts

\* The runner's end of its connection goes, and what was on the way to it; the
\* owner routes what was read, or drops it.
LEMMA LoseKeeps ==
  ASSUME IInv, phase' = "down", down' = <<>>, inbox' \in {inbox, <<>>},
         UNCHANGED <<sess, number, conn, pending, held, drawn, up, hist, log>>
  PROVE  Parts'
  <1>1. Connections'
    BY DEF IInv, Connections
  <1>2. Numbers'
    BY DEF IInv, Numbers, Reading
  <1>3. Hellos'
    BY DEF IInv, Hellos
  <1>4. Welcomes'
    BY DEF Welcomes
  <1>5. Wires'
    BY DEF IInv, Wires, FrameOf, DownSession
  <1>6. Ends'
    BY DEF IInv, Ends
  <1>7. Inboxes'
    BY DEF IInv, Inboxes, Welcomed, Reading
  <1>8. Logs'
    BY DEF IInv, Logs
  <1> QED
    BY <1>1, <1>2, <1>3, <1>4, <1>5, <1>6, <1>7, <1>8 DEF Parts

\* A new connection of the runner's, which has said nothing.
LEMMA ConnectKeeps ==
  ASSUME IInv, Connect
  PROVE  Parts'
  <1>0. /\ phase = "down" /\ inbox = <<>> /\ down = <<>> /\ conn' = conn + 1
        /\ phase' = "greeting"
        /\ UNCHANGED <<sess, number, inbox, pending, held, drawn, up, down, hist, log>>
    BY DEF Connect, backendVars, ghostVars, IInv, Connections
  <1>1. conn \in Nat /\ held \in Nat /\ \A h \in pending : h.conn \in Nat
    BY LinkBounds DEF IInv, TypeOK, Conns, Hello
  <1>2. Connections'
    BY <1>0, <1>1 DEF IInv, Connections, None
  <1>3. Numbers'
    BY <1>0 DEF IInv, Numbers, Reading
  <1>4. Hellos'
    BY <1>0 DEF IInv, Hellos
  <1>5. Welcomes'
    BY <1>0 DEF Welcomes
  <1>6. Wires'
    BY <1>0 DEF IInv, Wires, FrameOf
  <1>7. Ends'
    BY <1>0 DEF IInv, Ends
  <1>8. Inboxes'
    BY <1>0 DEF Inboxes, Reading
  <1>9. Logs'
    BY <1>0 DEF IInv, Logs
  <1> QED
    BY <1>2, <1>3, <1>4, <1>5, <1>6, <1>7, <1>8, <1>9 DEF Parts

\* The hello names what the runner holds and counts what it handled.
LEMMA SayHelloKeeps ==
  ASSUME IInv, SayHello
  PROVE  Parts'
  <1> DEFINE h == [conn |-> conn, instance |-> instance, session |-> number["runner"],
                   received |-> sess["runner"].received]
  <1>0. /\ phase = "greeting" /\ phase' = "waiting" /\ ~sess["runner"].owed
        /\ pending' = pending \/ pending' = pending \cup {h}
        /\ UNCHANGED <<sess, number, conn, inbox, held, drawn, up, down, hist, log>>
    BY DEF SayHello, ghostVars
  <1>1. /\ down = <<>> /\ inbox = <<>> /\ held # conn /\ conn # None
        /\ \A k \in pending : k.conn # conn
    BY <1>0 DEF IInv, Connections
  <1>2. /\ h.conn = conn /\ h.session = number["runner"]
        /\ h.received = sess["runner"].received
    OBVIOUS
  <1>3. "runner" \in End /\ conn \in Nat /\ sess["runner"].received \in Nat
    BY LinkBounds DEF IInv, TypeOK, Conns, End, SessionType
  <1> HIDE DEF h
  <1>4. Connections'
    BY <1>0, <1>1, <1>2, <1>3 DEF IInv, Connections
  <1>5. Numbers'
    BY <1>0 DEF IInv, Numbers, Reading
  <1>6. Hellos'
    <2>1. h.session <= drawn /\ (h.session # None => h.received <= Len(log[h.session]["runner"]))
      BY <1>2, <1>3 DEF IInv, Numbers, Ends
    <2> QED
      BY <1>0, <1>1, <1>2, <2>1 DEF IInv, Hellos
  <1>7. Welcomes'
    BY <1>0, <1>1 DEF Welcomes
  <1>8. Wires'
    BY <1>0, <1>1 DEF IInv, Wires, FrameOf
  <1>9. Ends'
    BY <1>0 DEF IInv, Ends
  <1>10. Inboxes'
    BY <1>0, <1>1 DEF Inboxes, Reading
  <1>11. Logs'
    BY <1>0 DEF IInv, Logs
  <1> QED
    BY <1>4, <1>5, <1>6, <1>7, <1>8, <1>9, <1>10, <1>11 DEF Parts

\* The welcome's session is the runner's, which it carries on from what the
\* backend handled, or one it begins.
LEMMA ReadWelcomeKeeps ==
  ASSUME IInv, TypeOK', ReadWelcome
  PROVE  Parts'
  <1> DEFINE w == Head(down)
             s == sess["runner"]
             n == w.session
  <1>0. /\ phase = "waiting" /\ down # <<>> /\ w.kind = "hello_ok"
        /\ HelloOk(n, w.received) /\ down' = Tail(down) /\ phase' = "answered"
        /\ inbox' = Append(inbox, WelcomeArrival)
        /\ UNCHANGED <<conn, pending, held, drawn, up, hist, log>>
    BY DEF ReadWelcome, backendVars, ghostVars
  <1>1. inbox = <<>>
    BY <1>0 DEF IInv, Connections
  <1>2. down \in Seq(Frame \cup Welcome) /\ s \in SessionType /\ "runner" \in End
        /\ "backend" \in End /\ TypeOK
    BY DEF IInv, TypeOK, End
  <1>3. w \in Frame \cup Welcome
    BY <1>0, <1>2
  <1>4. n \in Sessions /\ w.received \in Nat
    <2> HIDE DEF w
    <2> QED
      BY <1>0, <1>3 DEF Frame, Welcome
  <1>5. /\ n # None /\ n <= drawn /\ (held = conn => n = number["backend"])
        /\ w.received <= Len(log[n]["backend"])
        /\ IF n = number["runner"]
             THEN Accepts(s, w.received)
             ELSE hist[n]["runner"] = <<>> /\ log[n]["runner"] = <<>>
    BY <1>0 DEF IInv, Welcomes
  <1>6. \A h \in pending : h.conn # conn
    BY <1>0 DEF IInv, Connections
  <1>7. /\ number'["runner"] = n /\ number'["backend"] = number["backend"]
        /\ sess'["backend"] = sess["backend"]
        /\ sess'["runner"] = IF n = number["runner"] THEN Resumed(s, w.received) ELSE NewSession
    <2>1. number \in [End -> Sessions] /\ sess \in [End -> SessionType]
      BY <1>2 DEF TypeOK
    <2> HIDE DEF w
    <2> QED
      BY <1>0, <1>2, <1>5, <2>1 DEF HelloOk
  <1>8. inbox' = <<WelcomeArrival>>
    BY <1>0, <1>1
  <1>9. /\ Len(Tail(down)) = Len(down) - 1 /\ Len(down) \in Nat \ {0}
        /\ \A i \in 1 .. Len(Tail(down)) : Tail(down)[i] = down[i + 1]
    BY <1>0, <1>2
  <1> HIDE DEF w, s, n
  <1>10. Connections'
    BY <1>0, <1>6 DEF IInv, Connections
  <1>11. Numbers'
    <2>1. \A e \in End : number'[e] <= drawn
      BY <1>5, <1>7 DEF IInv, Numbers, End
    <2> QED
      BY <1>0, <1>5, <1>7, <2>1 DEF IInv, Numbers
  <1>12. Hellos'
    BY <1>0 DEF IInv, Hellos
  <1>13. Welcomes'
    BY <1>0 DEF Welcomes
  <1>14. Wires'
    <2>1. DownSession = n /\ DownSession' = n
      BY <1>0, <1>7 DEF DownSession, w, n
    <2>2. ASSUME NEW i \in 1 .. Len(down')
          PROVE  down'[i].kind # "hello_ok" /\ FrameOf(down[i], DownSession, "backend", conn)'
      <3>1. down'[i] = down[i + 1] /\ i + 1 \in 1 .. Len(down) /\ i + 1 # 1
        BY <1>0, <1>9
      <3>2. down[i + 1].kind # "hello_ok" /\ FrameOf(down[i + 1], n, "backend", conn)
        BY <2>1, <3>1 DEF IInv, Wires
      <3> QED
        BY <1>0, <2>1, <3>1, <3>2 DEF FrameOf
    <2>3. ASSUME NEW i \in 1 .. Len(up')
          PROVE  FrameOf(up[i], number["backend"], "runner", held)'
      BY <1>0, <1>7 DEF IInv, Wires, FrameOf
    <2> QED
      BY <1>0, <2>2, <2>3 DEF Wires
  <1>15. Ends'
    <2>1. /\ Tracks(sess'["runner"], hist[n]["runner"])
          /\ sess'["runner"].received = Len(log[n]["runner"])
          /\ sess'["runner"].confirmed <= Len(log[n]["backend"])
      <3>1. CASE n = number["runner"]
        <4>1. /\ Tracks(s, hist[n]["runner"]) /\ s.received = Len(log[n]["runner"])
          BY <1>2, <1>5, <3>1 DEF IInv, Ends, s
        <4>2. /\ sess'["runner"] \in SessionType /\ sess'["runner"].confirmed = w.received
              /\ sess'["runner"].kept = Released(s, w.received).kept
              /\ sess'["runner"].received = s.received
          BY <1>2, <1>4, <1>5, <1>7, <3>1, ResumedFacts
        <4>3. Tracks(sess'["runner"], hist[n]["runner"])
          BY <1>2, <1>4, <1>5, <3>1, <4>1, <4>2, ReleasedTracks
        <4> QED
          BY <1>5, <4>1, <4>2, <4>3
      <3>2. CASE n # number["runner"]
        <4>1. /\ hist[n]["runner"] = <<>> /\ log[n]["runner"] = <<>>
              /\ sess'["runner"] = NewSession
          BY <1>5, <1>7, <3>2
        <4>2. Len(log[n]["backend"]) \in Nat
          BY <1>2, <1>4, HistoryTypes
        <4> QED
          BY <4>1, <4>2, NewSessionFacts DEF Tracks, Sent
      <3> QED
        BY <3>1, <3>2
    <2>2. /\ Other("runner") = "backend" /\ sess["backend"].next = sess["backend"].received
      BY DEF Other, IInv, Ends
    <2>3. ASSUME NEW e \in End, number'[e] # None
          PROVE  /\ Tracks(sess'[e], hist[number'[e]][e])
                 /\ sess'[e].received = Len(log[number'[e]][e])
                 /\ sess'[e].confirmed <= Len(log[number'[e]][Other(e)])
      <3>1. CASE e = "runner"
        BY <1>7, <2>1, <2>2, <3>1
      <3>2. CASE e = "backend"
        BY <1>2, <1>7, <2>3, <3>2 DEF IInv, Ends
      <3> QED
        BY <3>1, <3>2 DEF End
    <2> QED
      BY <1>0, <1>7, <2>2, <2>3 DEF Ends
  <1>16. Inboxes'
    <2>1. Len(inbox') = 1 /\ inbox'[1].kind = "welcome" /\ inbox' # <<>>
      BY <1>8 DEF WelcomeArrival
    <2>2. Welcomed' = 1
      BY <2>1 DEF Welcomed
    <2>3. /\ sess'["runner"].next = sess'["runner"].received
          /\ sess'["runner"].received \in Nat
      BY <1>2, <1>4, <1>5, <1>7, ResumedFacts, NewSessionFacts DEF SessionType
    <2> QED
      BY <2>1, <2>2, <2>3 DEF Inboxes
  <1>17. Logs'
    BY <1>0 DEF IInv, Logs
  <1> QED
    BY <1>10, <1>11, <1>12, <1>13, <1>14, <1>15, <1>16, <1>17 DEF Parts

\* A runner that starts again holds no session and no connection.
LEMMA RunnerRestartsKeeps ==
  ASSUME IInv, RunnerRestarts
  PROVE  Parts'
  <1>0. /\ phase' = "down" /\ inbox' = <<>> /\ down' = <<>>
        /\ UNCHANGED <<conn, pending, held, drawn, up, hist, log>>
    BY DEF RunnerRestarts, backendVars, ghostVars
  <1>1. /\ number'["runner"] = None /\ number'["backend"] = number["backend"]
        /\ sess'["backend"] = sess["backend"]
    BY DEF RunnerRestarts, IInv, TypeOK, End
  <1>2. drawn \in Nat
    BY LinkBounds DEF IInv, TypeOK, Sessions
  <1>3. Connections'
    BY <1>0 DEF IInv, Connections
  <1>4. Numbers'
    <2>1. \A e \in End : number'[e] <= drawn
      BY <1>1, <1>2 DEF IInv, Numbers, End, None
    <2> QED
      BY <1>0, <1>1, <2>1 DEF IInv, Numbers, Reading
  <1>5. Hellos'
    BY <1>0 DEF IInv, Hellos
  <1>6. Welcomes'
    BY <1>0 DEF Welcomes
  <1>7. Wires'
    BY <1>0, <1>1 DEF IInv, Wires, FrameOf
  <1>8. Ends'
    BY <1>0, <1>1 DEF IInv, Ends, End
  <1>9. Inboxes'
    BY <1>0 DEF Inboxes, Reading
  <1>10. Logs'
    BY <1>0 DEF IInv, Logs
  <1> QED
    BY <1>3, <1>4, <1>5, <1>6, <1>7, <1>8, <1>9, <1>10 DEF Parts

\* A backend that starts again holds no session, connection or hello.
LEMMA BackendRestartsKeeps ==
  ASSUME IInv, BackendRestarts
  PROVE  Parts'
  <1>0. /\ pending' = {} /\ held' = None /\ up' = <<>>
        /\ UNCHANGED <<conn, phase, inbox, drawn, down, hist, log>>
    BY DEF BackendRestarts, runnerVars, ghostVars
  <1>1. /\ number'["backend"] = None /\ number'["runner"] = number["runner"]
        /\ sess'["runner"] = sess["runner"] /\ sess'["backend"] = NewSession
    BY DEF BackendRestarts, IInv, TypeOK, End
  <1>2. drawn \in Nat /\ conn \in Nat
    BY LinkBounds DEF IInv, TypeOK, Sessions, Conns
  <1>3. Connections'
    BY <1>0, <1>2 DEF IInv, Connections, None
  <1>4. Numbers'
    <2>1. \A e \in End : number'[e] <= drawn
      BY <1>1, <1>2 DEF IInv, Numbers, End, None
    <2> QED
      BY <1>0, <1>1, <2>1 DEF IInv, Numbers, Reading, Connections
  <1>5. Hellos'
    BY <1>0 DEF Hellos
  <1>6. Welcomes'
    BY <1>0, <1>1 DEF IInv, Welcomes, Connections
  <1>7. Wires'
    BY <1>0, <1>1 DEF IInv, Wires, FrameOf, DownSession
  <1>8. Ends'
    BY <1>0, <1>1, NewSessionFacts DEF IInv, Ends, End
  <1>9. Inboxes'
    BY <1>0, <1>1 DEF IInv, Inboxes, Reading, Welcomed
  <1>10. Logs'
    BY <1>0 DEF IInv, Logs
  <1> QED
    BY <1>3, <1>4, <1>5, <1>6, <1>7, <1>8, <1>9, <1>10 DEF Parts

\* A frame of the runner's reader is of its session: what it releases was
\* handled, and what it carries is the next message after those read.
LEMMA RunnerReadsKeeps ==
  ASSUME IInv, TypeOK', RunnerReads
  PROVE  Parts'
  <1> DEFINE s == sess["runner"]
             f == Head(down)
             n == number["runner"]
             took == Verdict(s, f) \in {"message", "skipped"}
             t == AfterRead(s, f)
  <1>0. /\ Reading /\ down # <<>> /\ f.kind # "hello_ok"
        /\ sess' = [sess EXCEPT !["runner"] = t]
        /\ inbox' = IF took THEN Append(inbox, [kind |-> "numbered", body |-> f.body]) ELSE inbox
        /\ IF Verdict(s, f) = "error" THEN phase' = "down" /\ down' = <<>>
           ELSE phase' = phase /\ down' = Tail(down)
        /\ UNCHANGED <<number, conn, pending, held, drawn, up, hist, log>>
    BY DEF RunnerReads, Reading, backendVars
  <1>1. /\ TypeOK /\ "runner" \in End /\ "backend" \in End /\ s \in SessionType
        /\ down \in Seq(Frame \cup Welcome) /\ inbox \in Seq(Arrival) /\ n \in Sessions
    BY DEF IInv, TypeOK, End
  <1>2. f \in Frame \cup Welcome /\ 1 \in 1 .. Len(down) /\ f = down[1]
    BY <1>0, <1>1
  <1>3. f \in Frame
    <2> HIDE DEF f
    <2> QED
      BY <1>0, <1>2 DEF Welcome
  <1>4. n # None /\ phase # "waiting"
    BY <1>0 DEF IInv, Numbers, Reading
  <1>5. FrameOf(f, n, "backend", conn)
    BY <1>0, <1>2, <1>4 DEF IInv, Wires, DownSession
  <1>6. sess'["runner"] = t /\ sess'["backend"] = sess["backend"]
    BY <1>0, <1>1 DEF TypeOK
  <1>7. /\ t \in SessionType /\ t.received = s.received
        /\ Releasable(s, f.ack) => t.confirmed = f.ack /\ t.kept = Released(s, f.ack).kept
        /\ ~Releasable(s, f.ack) => t = s
        /\ took => f.kind = "numbered" /\ f.seq = s.next /\ t.next = s.next + 1
        /\ ~took => t.next = s.next
    BY <1>1, <1>3, AfterReadFacts
  <1>8. /\ Tracks(s, hist[n]["runner"]) /\ s.received = Len(log[n]["runner"])
        /\ s.confirmed <= Len(log[n]["backend"])
    BY <1>1, <1>4 DEF IInv, Ends, Other
  <1>9. /\ Len(Tail(down)) = Len(down) - 1 /\ Len(down) \in Nat \ {0}
        /\ \A i \in 1 .. Len(Tail(down)) : Tail(down)[i] = down[i + 1]
    BY <1>0, <1>1
  <1>10. phase' \in {phase, "down"} /\ (phase' = "down" => down' = <<>>)
         /\ (phase' # "down" => down' = Tail(down))
    BY <1>0 DEF Reading
  <1>11. inbox # <<>> \/ took \/ inbox' = <<>>
    BY <1>0
  <1> HIDE DEF s, f, n, took, t
  <1>12. Connections'
    BY <1>0, <1>4, <1>10 DEF IInv, Connections, Reading
  <1>13. Numbers'
    BY <1>0, <1>4, <1>10 DEF IInv, Numbers, Reading, n
  <1>14. Hellos'
    BY <1>0, <1>4, <1>10 DEF IInv, Hellos
  <1>15. Welcomes'
    BY <1>4, <1>10 DEF Welcomes
  <1>16. Wires'
    <2>1. DownSession = n /\ DownSession' = n
      BY <1>0, <1>4, <1>10 DEF DownSession, n
    <2>2. ASSUME NEW i \in 1 .. Len(down')
          PROVE  down'[i].kind # "hello_ok" /\ FrameOf(down[i], DownSession, "backend", conn)'
      <3>1. down' = Tail(down)
        BY <1>10, <2>2
      <3>2. down'[i] = down[i + 1] /\ i + 1 \in 1 .. Len(down)
        BY <1>9, <3>1
      <3>3. down[i + 1].kind # "hello_ok" /\ FrameOf(down[i + 1], n, "backend", conn)
        BY <1>4, <2>1, <3>2 DEF IInv, Wires
      <3> QED
        BY <1>0, <2>1, <3>2, <3>3 DEF FrameOf
    <2>3. ASSUME NEW i \in 1 .. Len(up')
          PROVE  FrameOf(up[i], number["backend"], "runner", held)'
      BY <1>0 DEF IInv, Wires, FrameOf
    <2> QED
      BY <2>2, <2>3 DEF Wires
  <1>17. Ends'
    <2>1. Tracks(t, hist[n]["runner"]) /\ t.confirmed <= Len(log[n]["backend"])
      <3>1. CASE Releasable(s, f.ack)
        <4>1. f.ack \in Nat /\ Accepts(s, f.ack) /\ f.ack <= Len(log[n]["backend"])
          BY <1>3, <1>5, <3>1 DEF Frame, Releasable, FrameOf
        <4>2. Tracks(t, hist[n]["runner"])
          BY <1>1, <1>7, <1>8, <3>1, <4>1, ReleasedTracks
        <4> QED
          BY <1>7, <3>1, <4>1, <4>2
      <3>2. CASE ~Releasable(s, f.ack)
        BY <1>7, <1>8, <3>2
      <3> QED
        BY <3>1, <3>2
    <2>2. ASSUME NEW e \in End, number[e] # None
          PROVE  /\ Tracks(sess'[e], hist[number[e]][e])
                 /\ sess'[e].received = Len(log[number[e]][e])
                 /\ sess'[e].confirmed <= Len(log[number[e]][Other(e)])
      <3>1. CASE e = "runner"
        BY <1>6, <1>7, <1>8, <2>1, <3>1 DEF Other, n
      <3>2. CASE e = "backend"
        BY <1>1, <1>6, <2>2, <3>2 DEF IInv, Ends
      <3> QED
        BY <3>1, <3>2 DEF End
    <2>3. sess["backend"].next = sess["backend"].received
      BY DEF IInv, Ends
    <2> QED
      BY <1>0, <1>6, <2>2, <2>3 DEF Ends
  <1>18. Inboxes'
    <2> DEFINE a == [kind |-> "numbered", body |-> f.body]
               w == hist[n]["backend"]
    <2>1. /\ \A j \in 2 .. Len(inbox) : inbox[j].kind = "numbered"
          /\ \A j \in 1 .. Len(inbox) : j > Welcomed =>
               Carried(inbox[j].body, s.received + j - Welcomed, w, conn)
          /\ s.next = s.received + Len(inbox) - Welcomed
      BY <1>0 DEF IInv, Inboxes, s, n
    <2>2. Len(inbox) \in Nat /\ s.received \in Nat /\ s.next \in Nat /\ Welcomed \in {0, 1}
      BY <1>1 DEF SessionType, Welcomed
    <2>3. CASE ~took
      <3>1. inbox' = inbox /\ Welcomed' = Welcomed
        BY <1>0, <2>3 DEF Welcomed
      <3> QED
        BY <1>0, <1>6, <1>7, <2>1, <2>3, <3>1 DEF Inboxes, n
    <2>4. CASE took
      <3>0. inbox' = Append(inbox, a) /\ a.kind = "numbered" /\ a.body = f.body
        BY <1>0, <2>4
      <3> HIDE DEF a, w
      <3>1. /\ Len(inbox') = Len(inbox) + 1 /\ inbox'[Len(inbox) + 1] = a
            /\ \A j \in 1 .. Len(inbox) : inbox'[j] = inbox[j]
        BY <1>1, <3>0
      <3>2. Welcomed' = Welcomed
        <4>1. CASE inbox = <<>>
          BY <3>0, <3>1, <4>1 DEF Welcomed
        <4>2. CASE inbox # <<>>
          <5>1. 1 \in 1 .. Len(inbox) /\ inbox' # <<>>
            BY <1>1, <3>1, <4>2
          <5> QED
            BY <3>1, <4>2, <5>1 DEF Welcomed
        <4> QED
          BY <4>1, <4>2
      <3>3. Carried(f.body, s.received + (Len(inbox) + 1) - Welcomed, w, conn)
        <4>1. f.seq + 1 = s.received + (Len(inbox) + 1) - Welcomed
          BY <1>7, <2>1, <2>2, <2>4
        <4>2. Carried(f.body, f.seq + 1, w, conn)
          BY <1>5, <1>7, <2>4 DEF FrameOf, w
        <4> QED
          BY <4>1, <4>2
      <3>4. ASSUME NEW j \in 1 .. Len(inbox'), j > Welcomed
            PROVE  Carried(inbox'[j].body, s.received + j - Welcomed, w, conn)
        <4>1. CASE j \in 1 .. Len(inbox)
          BY <2>1, <3>1, <3>4, <4>1
        <4>2. CASE j = Len(inbox) + 1
          BY <3>0, <3>1, <3>3, <4>2
        <4> QED
          BY <2>2, <3>1, <4>1, <4>2
      <3>5. ASSUME NEW j \in 2 .. Len(inbox') PROVE inbox'[j].kind = "numbered"
        <4>1. CASE j \in 2 .. Len(inbox)
          BY <2>1, <2>2, <3>1, <4>1
        <4>2. CASE j = Len(inbox) + 1
          BY <3>0, <3>1, <4>2
        <4> QED
          BY <2>2, <3>1, <4>1, <4>2
      <3>6. t.next = t.received + Len(inbox') - Welcomed
        BY <1>7, <2>1, <2>2, <2>4, <3>1
      <3> QED
        BY <1>0, <1>6, <1>7, <3>2, <3>4, <3>5, <3>6 DEF Inboxes, n, w
    <2> QED
      BY <2>3, <2>4
  <1>19. Logs'
    BY <1>0 DEF IInv, Logs
  <1> QED
    BY <1>12, <1>13, <1>14, <1>15, <1>16, <1>17, <1>18, <1>19 DEF Parts

\* Handling one more message of a session keeps what the histories say: the
\* handled are the written, in order, and nothing claimed of them is lost.
LEMMA LogKeeps ==
  ASSUME IInv, TypeOK', NEW e \in End, number[e] # None, NEW x \in Entry,
         Carried(x.body, Len(log[number[e]][e]) + 1, hist[number[e]][Other(e)], x.conn),
         log' = [log EXCEPT ![number[e]][e] = Append(log[number[e]][e], x)], hist' = hist
  PROVE  /\ Grows(log, log') /\ Logs'
         /\ Len(log'[number[e]][e]) = Len(log[number[e]][e]) + 1
         /\ \A k \in Sessions, d \in End : k # number[e] \/ d # e => log'[k][d] = log[k][d]
         /\ \A k \in Sessions : k > drawn => \A d \in End : log'[k][d] = log[k][d]
  <1> DEFINE n == number[e]
  <1>0. TypeOK /\ n \in Sessions /\ Other(e) \in End
    BY DEF IInv, TypeOK, Other, End
  <1>1. log'[n][e] = Append(log[n][e], x)
        /\ \A k \in Sessions, d \in End : k # n \/ d # e => log'[k][d] = log[k][d]
    BY <1>0 DEF TypeOK
  <1>2. /\ Grows(log, log') /\ Len(log'[n][e]) = Len(log[n][e]) + 1
        /\ log'[n][e][Len(log[n][e]) + 1] = x
    <2> HIDE DEF n
    <2> QED
      BY <1>0, <1>1, LogGrows
  <1>3. Len(log[n][e]) \in Nat /\ hist[n][Other(e)] \in Seq(Message)
    BY <1>0, HistoryTypes
  <1>4. \A k \in Sessions : k > drawn => \A d \in End : log'[k][d] = log[k][d]
    <2>1. n <= drawn /\ n \in Nat /\ drawn \in Nat
      BY <1>0, LinkBounds DEF IInv, Numbers, TypeOK, Sessions
    <2> HIDE DEF n
    <2> QED
      BY <1>1, <2>1 DEF Sessions
  <1>5. Carried(x.body, Len(log[n][e]) + 1, hist[n][Other(e)], x.conn)
    OBVIOUS
  <1> HIDE DEF n
  <1>6. ASSUME NEW k \in Sessions, NEW d \in End
        PROVE  /\ Len(log'[k][d]) <= Len(hist[k][Other(d)])
               /\ \A i \in 1 .. Len(log'[k][d]) :
                    Carried(log'[k][d][i].body, i, hist[k][Other(d)], log'[k][d][i].conn)
    <2>1. /\ Len(log[k][d]) <= Len(hist[k][Other(d)])
          /\ \A i \in 1 .. Len(log[k][d]) :
               Carried(log[k][d][i].body, i, hist[k][Other(d)], log[k][d][i].conn)
      BY DEF IInv, Logs
    <2>2. CASE k # n \/ d # e
      BY <1>1, <2>1, <2>2
    <2>3. CASE k = n /\ d = e
      <3>1. Len(log'[n][e]) <= Len(hist[n][Other(e)])
        <4>1. Len(log[n][e]) + 1 \in 1 .. Len(hist[n][Other(e)])
          BY <1>5 DEF Carried
        <4> QED
          BY <1>2, <4>1
      <3>2. ASSUME NEW i \in 1 .. Len(log'[n][e])
            PROVE  Carried(log'[n][e][i].body, i, hist[n][Other(e)], log'[n][e][i].conn)
        <4>1. CASE i \in 1 .. Len(log[n][e])
          <5>1. log'[n][e][i] = log[n][e][i]
            BY <1>0, <1>2, <4>1 DEF Grows
          <5> QED
            BY <2>1, <2>3, <4>1, <5>1
        <4>2. CASE i = Len(log[n][e]) + 1
          BY <1>2, <1>5, <4>2
        <4> QED
          BY <1>2, <1>3, <4>1, <4>2
      <3> QED
        BY <2>3, <3>1, <3>2
    <2> QED
      BY <2>2, <2>3
  <1>7. Logs'
    BY <1>6 DEF Logs
  <1> QED
    BY <1>1, <1>2, <1>4, <1>7 DEF n

\* The owner routes the oldest arrival: the welcome, or the message after those
\* it counted.
LEMMA RunnerHandlesKeeps ==
  ASSUME IInv, TypeOK', RunnerHandles
  PROVE  Parts'
  <1> DEFINE s == sess["runner"]
             n == number["runner"]
             a == Head(inbox)
             w == hist[n]["backend"]
  <1>0. /\ inbox # <<>> /\ inbox' = Tail(inbox)
        /\ UNCHANGED <<number, conn, phase, pending, held, drawn, up, down, hist>>
    BY DEF RunnerHandles, backendVars
  <1>1. /\ TypeOK /\ "runner" \in End /\ "backend" \in End /\ s \in SessionType
        /\ inbox \in Seq(Arrival) /\ n \in Sessions /\ conn \in Conns
        /\ sess \in [End -> SessionType]
    BY DEF IInv, TypeOK, End
  <1>2. /\ a \in Arrival /\ a = inbox[1] /\ 1 \in 1 .. Len(inbox) /\ Len(inbox) \in Nat
        /\ Len(inbox') = Len(inbox) - 1
        /\ \A j \in 1 .. Len(inbox') : inbox'[j] = inbox[j + 1]
    BY <1>0, <1>1
  <1>3. n # None /\ phase \notin {"waiting", "greeting"}
    BY <1>0 DEF IInv, Numbers, Connections
  <1>4. /\ \A j \in 2 .. Len(inbox) : inbox[j].kind = "numbered"
        /\ \A j \in 1 .. Len(inbox) : j > Welcomed =>
             Carried(inbox[j].body, s.received + j - Welcomed, w, conn)
        /\ Reading => s.next = s.received + Len(inbox) - Welcomed
    BY DEF IInv, Inboxes
  <1>5. /\ Tracks(s, hist[n]["runner"]) /\ s.received = Len(log[n]["runner"])
        /\ s.confirmed <= Len(log[n]["backend"]) /\ s.received \in Nat /\ s.next \in Nat
    BY <1>1, <1>3 DEF IInv, Ends, Other, SessionType
  <1>6. Welcomed = (IF a.kind = "welcome" THEN 1 ELSE 0)
    BY <1>0, <1>2 DEF Welcomed
  <1>7. a.kind \in {"welcome", "numbered"}
    BY <1>2 DEF Arrival
  <1> HIDE DEF s, n, a, w
  <1>8. Welcomed' = 0 /\ \A j \in 2 .. Len(inbox') : inbox'[j].kind = "numbered"
    <2>1. \A j \in 1 .. Len(inbox') : inbox'[j].kind = "numbered"
      BY <1>2, <1>4
    <2>2. inbox' # <<>> => 1 \in 1 .. Len(inbox')
      <3>1. inbox' \in Seq(Arrival)
        BY <1>0, <1>1
      <3> QED
        BY <3>1
    <2> QED
      BY <2>1, <2>2 DEF Welcomed
  <1>9. Connections'
    BY <1>0, <1>3 DEF IInv, Connections
  <1>10. Welcomes'
    BY <1>0, <1>3 DEF Welcomes
  <1>11. CASE a.kind = "welcome"
    <2>0. UNCHANGED <<sess, log>>
      BY <1>11 DEF RunnerHandles, a
    <2>1. Numbers'
      BY <1>0, <1>3, <2>0 DEF IInv, Numbers, Reading, n
    <2>2. Hellos'
      BY <1>0, <2>0 DEF IInv, Hellos
    <2>3. Wires'
      BY <1>0, <2>0 DEF IInv, Wires, FrameOf, DownSession
    <2>4. Ends'
      BY <1>0, <2>0 DEF IInv, Ends
    <2>5. Inboxes'
      <3>1. ASSUME NEW j \in 1 .. Len(inbox')
            PROVE  Carried(inbox'[j].body, s.received + j - 0, w, conn)
        <4>1. /\ j + 1 \in 1 .. Len(inbox) /\ j + 1 > Welcomed
              /\ s.received + (j + 1) - Welcomed = s.received + j - 0
          BY <1>2, <1>5, <1>6, <1>11
        <4> QED
          BY <1>2, <1>4, <4>1
      <3>2. Reading => s.next = s.received + Len(inbox') - 0
        BY <1>2, <1>4, <1>5, <1>6, <1>11
      <3> QED
        BY <1>0, <1>8, <2>0, <3>1, <3>2 DEF Inboxes, Reading, s, n, w
    <2>6. Logs'
      BY <1>0, <2>0 DEF IInv, Logs
    <2> QED
      BY <1>9, <1>10, <2>1, <2>2, <2>3, <2>4, <2>5, <2>6 DEF Parts
  <1>12. CASE a.kind = "numbered"
    <2> DEFINE x == [body |-> a.body, conn |-> conn]
    <2>0. /\ sess' = [sess EXCEPT !["runner"] = Handled(s)]
          /\ log' = [log EXCEPT ![n]["runner"] = Append(log[n]["runner"], x)]
      BY <1>12 DEF RunnerHandles, a, s, n
    <2>1. x \in Entry /\ x.body = a.body /\ x.conn = conn
      BY <1>1, <1>2 DEF Arrival, Entry
    <2>2. Carried(a.body, Len(log[n]["runner"]) + 1, w, conn)
      <3>1. Carried(inbox[1].body, s.received + 1 - 0, w, conn)
        BY <1>2, <1>4, <1>6, <1>12
      <3>2. s.received + 1 - 0 = Len(log[n]["runner"]) + 1
        BY <1>5
      <3> QED
        BY <1>2, <3>1, <3>2
    <2> HIDE DEF x
    <2>3. /\ Grows(log, log') /\ Logs'
          /\ Len(log'[n]["runner"]) = Len(log[n]["runner"]) + 1
          /\ \A k \in Sessions, d \in End : k # n \/ d # "runner" => log'[k][d] = log[k][d]
          /\ \A k \in Sessions : k > drawn => \A d \in End : log'[k][d] = log[k][d]
      BY <1>0, <1>1, <1>3, <2>0, <2>1, <2>2, LogKeeps DEF n, w, Other
    <2>4. /\ sess'["runner"] = Handled(s) /\ sess'["backend"] = sess["backend"]
      BY <1>1, <2>0
    <2>5. /\ Handled(s).confirmed = s.confirmed /\ Handled(s).kept = s.kept
          /\ Handled(s).received = s.received + 1 /\ Handled(s).next = s.next
      BY <1>1, HandledFacts
    <2>6. Numbers'
      BY <1>0, <1>3, <2>3 DEF IInv, Numbers, Reading, n
    <2>7. Hellos'
      <3>1. ASSUME NEW h \in pending, h.session # None
            PROVE  h.received <= Len(log'[h.session]["runner"])
        <4>1. h.session \in Sessions /\ h.received \in Nat
          BY <1>1 DEF TypeOK, Hello
        <4>2. h.received <= Len(log[h.session]["runner"])
          BY <3>1 DEF IInv, Hellos
        <4>3. Len(log[h.session]["runner"]) <= Len(log'[h.session]["runner"])
          BY <1>1, <2>3, <4>1 DEF Grows
        <4>4. Len(log[h.session]["runner"]) \in Nat /\ Len(log'[h.session]["runner"]) \in Nat
          BY <1>1, <4>1, HistoryTypes, NextHistoryTypes
        <4> QED
          BY <4>1, <4>2, <4>3, <4>4
      <3> QED
        BY <1>0, <3>1 DEF IInv, Hellos
    <2>8. Wires'
      <3>1. Grows(hist, hist')
        BY <1>0, <1>1, GrowsSame
      <3>2. DownSession' = DownSession
        BY <1>0 DEF DownSession
      <3>3. /\ \A i \in 1 .. Len(up) :
                 /\ up[i].ack <= Len(log'[number["backend"]]["runner"])
                 /\ up[i].kind = "numbered" =>
                      Carried(up[i].body, up[i].seq + 1, hist'[number["backend"]]["runner"], held)
            /\ \A i \in 1 .. Len(down) :
                 /\ down[i].kind # "hello_ok"
                 /\ down[i].ack <= Len(log'[DownSession]["backend"])
                 /\ down[i].kind = "numbered" =>
                      Carried(down[i].body, down[i].seq + 1, hist'[DownSession]["backend"], conn)
        BY <1>0, <1>1, <1>3, <2>3, <3>1, WiresGrow DEF IInv
      <3> QED
        BY <1>0, <3>2, <3>3 DEF Wires, FrameOf
    <2>9. Ends'
      <3>1. Tracks(Handled(s), hist[n]["runner"])
        BY <1>5, <2>5 DEF Tracks, Sent
      <3>2. log'[n]["backend"] = log[n]["backend"]
        BY <1>1, <2>3
      <3>3. ASSUME number["backend"] # None
            PROVE  /\ Tracks(sess["backend"], hist[number["backend"]]["backend"])
                   /\ sess["backend"].received = Len(log'[number["backend"]]["backend"])
                   /\ sess["backend"].confirmed <= Len(log'[number["backend"]]["runner"])
        <4> DEFINE b == number["backend"]
        <4>1. /\ Tracks(sess["backend"], hist[b]["backend"])
              /\ sess["backend"].received = Len(log[b]["backend"])
              /\ sess["backend"].confirmed <= Len(log[b]["runner"])
          BY <1>1, <3>3 DEF IInv, Ends, Other
        <4>2. b \in Sessions /\ sess["backend"].confirmed \in Nat
          BY <1>1 DEF TypeOK, SessionType
        <4> HIDE DEF b
        <4>3. log'[b]["backend"] = log[b]["backend"]
          BY <1>1, <2>3, <4>2
        <4>4. Len(log[b]["runner"]) <= Len(log'[b]["runner"])
          BY <1>1, <2>3, <4>2 DEF Grows
        <4>5. Len(log[b]["runner"]) \in Nat /\ Len(log'[b]["runner"]) \in Nat
          BY <1>1, <4>2, HistoryTypes, NextHistoryTypes
        <4>6. sess["backend"].confirmed <= Len(log'[b]["runner"])
          BY <4>1, <4>2, <4>4, <4>5
        <4> QED
          BY <4>1, <4>3, <4>6 DEF b
      <3>4. ASSUME NEW e \in End, number[e] # None
            PROVE  /\ Tracks(sess'[e], hist[number[e]][e])
                   /\ sess'[e].received = Len(log'[number[e]][e])
                   /\ sess'[e].confirmed <= Len(log'[number[e]][Other(e)])
        <4>1. CASE e = "runner"
          BY <1>5, <2>3, <2>4, <2>5, <3>1, <3>2, <4>1 DEF Other, n
        <4>2. CASE e = "backend"
          BY <2>4, <3>3, <3>4, <4>2 DEF Other
        <4> QED
          BY <4>1, <4>2 DEF End
      <3>5. sess["backend"].next = sess["backend"].received
        BY DEF IInv, Ends
      <3> QED
        BY <1>0, <2>4, <3>4, <3>5 DEF Ends
    <2>10. Inboxes'
      <3>0. Welcomed = 0
        BY <1>6, <1>12
      <3>1. ASSUME NEW j \in 1 .. Len(inbox')
            PROVE  Carried(inbox'[j].body, s.received + 1 + j - 0, w, conn)
        <4>1. /\ j + 1 \in 1 .. Len(inbox) /\ j + 1 > Welcomed
              /\ s.received + (j + 1) - Welcomed = s.received + 1 + j - 0
          <5>1. /\ Len(inbox) \in Nat /\ Len(inbox') = Len(inbox) - 1 /\ s.received \in Nat
            BY <1>2, <1>5
          <5> QED
            BY <3>0, <5>1
        <4> QED
          BY <1>2, <1>4, <4>1
      <3>2. Reading => s.next = s.received + 1 + Len(inbox') - 0
        BY <1>2, <1>4, <1>5, <1>6, <1>12
      <3> QED
        BY <1>0, <1>8, <2>4, <2>5, <3>1, <3>2 DEF Inboxes, Reading, n, w
    <2> QED
      BY <1>9, <1>10, <2>3, <2>6, <2>7, <2>8, <2>9, <2>10 DEF Parts
  <1> QED
    BY <1>7, <1>11, <1>12

\* A frame of the backend's driver is of its session: what it releases was
\* handled, and what it carries is the next message, which it handles at once.
LEMMA BackendReadsKeeps ==
  ASSUME IInv, TypeOK', BackendReads
  PROVE  Parts'
  <1> DEFINE s == sess["backend"]
             f == Head(up)
             n == number["backend"]
             took == Verdict(s, f) \in {"message", "skipped"}
             t == AfterRead(s, f)
             x == [body |-> f.body, conn |-> held]
  <1>0. /\ held # None /\ up # <<>>
        /\ sess' = [sess EXCEPT !["backend"] = IF took THEN Handled(t) ELSE t]
        /\ log' = IF took THEN [log EXCEPT ![n]["backend"] = Append(log[n]["backend"], x)] ELSE log
        /\ \/ held' = held /\ up' = Tail(up)
           \/ ~took /\ held' = None /\ up' = <<>>
        /\ UNCHANGED <<number, conn, phase, inbox, pending, drawn, down, hist>>
    <2>1. /\ held # None /\ up # <<>>
          /\ sess' = [sess EXCEPT !["backend"] = IF took THEN Handled(t) ELSE t]
          /\ log' = IF took THEN [log EXCEPT ![n]["backend"] = Append(log[n]["backend"], x)] ELSE log
          /\ UNCHANGED <<number, conn, phase, inbox, pending, drawn, down, hist>>
      BY DEF BackendReads, runnerVars
    <2>2. IF Verdict(s, f) = "error" THEN held' = None /\ up' = <<>>
          ELSE held' = held /\ up' = Tail(up)
      BY DEF BackendReads
    <2> QED
      BY <2>1, <2>2
  <1>1. /\ TypeOK /\ "runner" \in End /\ "backend" \in End /\ s \in SessionType
        /\ up \in Seq(Frame) /\ n \in Sessions /\ sess \in [End -> SessionType]
        /\ held \in Conns /\ conn \in Conns
    BY DEF IInv, TypeOK, End
  <1>2. f \in Frame /\ 1 \in 1 .. Len(up) /\ f = up[1]
    BY <1>0, <1>1
  <1>3. n # None
    BY <1>0 DEF IInv, Numbers
  <1>4. FrameOf(f, n, "runner", held)
    BY <1>2 DEF IInv, Wires
  <1>5. sess'["backend"] = (IF took THEN Handled(t) ELSE t) /\ sess'["runner"] = sess["runner"]
    BY <1>0, <1>1
  <1>6. /\ t \in SessionType /\ t.received = s.received
        /\ Releasable(s, f.ack) => t.confirmed = f.ack /\ t.kept = Released(s, f.ack).kept
        /\ ~Releasable(s, f.ack) => t = s
        /\ took => f.kind = "numbered" /\ f.seq = s.next /\ t.next = s.next + 1
        /\ ~took => t.next = s.next
    BY <1>1, <1>2, AfterReadFacts
  <1>7. /\ Tracks(s, hist[n]["backend"]) /\ s.received = Len(log[n]["backend"])
        /\ s.confirmed <= Len(log[n]["runner"]) /\ s.next = s.received /\ s.received \in Nat
    BY <1>1, <1>3 DEF IInv, Ends, Other, SessionType
  <1>8. /\ Len(Tail(up)) = Len(up) - 1 /\ Len(up) \in Nat
        /\ \A i \in 1 .. Len(Tail(up)) : Tail(up)[i] = up[i + 1]
    BY <1>0, <1>1
  <1>9. x \in Entry /\ x.body = f.body /\ x.conn = held
    BY <1>1, <1>2 DEF Frame, Entry
  <1> HIDE DEF s, f, n, took, t, x
  <1>10. /\ Grows(log, log') /\ Logs'
         /\ Len(log'[n]["backend"]) = IF took THEN Len(log[n]["backend"]) + 1
                                      ELSE Len(log[n]["backend"])
         /\ \A k \in Sessions, d \in End : k # n \/ d # "backend" => log'[k][d] = log[k][d]
         /\ \A k \in Sessions : k > drawn => \A d \in End : log'[k][d] = log[k][d]
    <2>1. CASE took
      <3>1. Carried(x.body, Len(log[n]["backend"]) + 1, hist[n]["runner"], x.conn)
        BY <1>4, <1>6, <1>7, <1>9, <2>1 DEF FrameOf
      <3>2. log' = [log EXCEPT ![n]["backend"] = Append(log[n]["backend"], x)] /\ hist' = hist
        BY <1>0, <2>1
      <3>3. Other("backend") = "runner"
        BY DEF Other
      <3> QED
        BY <1>1, <1>3, <1>9, <2>1, <3>1, <3>2, <3>3, LogKeeps DEF n
    <2>2. CASE ~took
      <3>1. log' = log /\ hist' = hist
        BY <1>0, <2>2
      <3>2. Logs'
        BY <3>1 DEF IInv, Logs
      <3> QED
        BY <1>1, <2>2, <3>1, <3>2, GrowsSame
    <2> QED
      BY <2>1, <2>2
  <1>11. Grows(hist, hist')
    BY <1>0, <1>1, GrowsSame
  <1>12. \A k \in Sessions : log'[k]["runner"] = log[k]["runner"]
    BY <1>1, <1>10
  <1>13. held' \in {held, None} /\ (held' = None => up' = <<>>)
    BY <1>0
  <1>14. Connections'
    <2>1. conn \in Nat
      BY <1>1, LinkBounds DEF Conns
    <2> QED
      BY <1>0, <1>13, <2>1 DEF IInv, Connections, None
  <1>15. Numbers'
    <2>1. (held' # None => n # None) /\ (held' = conn /\ Reading => held = conn)
      BY <1>3, <1>13 DEF IInv, Connections, Reading
    <2>2. \A k \in Sessions : k > drawn => \A e \in End : hist[k][e] = <<>> /\ log'[k][e] = <<>>
      BY <1>10 DEF IInv, Numbers
    <2> QED
      BY <1>0, <2>1, <2>2 DEF IInv, Numbers, Reading, n
  <1>16. Hellos'
    <2>1. \A h \in pending : h.session \in Sessions
      BY <1>1 DEF TypeOK, Hello
    <2> QED
      BY <1>0, <1>12, <2>1 DEF IInv, Hellos
  <1>17. Welcomes'
    <2> SUFFICES ASSUME phase = "waiting" PROVE Welcomes'
      BY <1>0 DEF Welcomes
    <2>1. held' = conn => held = conn
      BY <1>13 DEF IInv, Connections
    <2>2. CASE down = <<>>
      BY <1>0, <1>5, <2>1, <2>2 DEF IInv, Welcomes
    <2>3. CASE down # <<>>
      <3>1. \A k \in Sessions : Len(log[k]["backend"]) <= Len(log'[k]["backend"])
        BY <1>1, <1>10 DEF Grows
      <3>2. \A k \in Sessions : hist'[k]["runner"] = hist[k]["runner"]
        BY <1>0
      <3> QED
        BY <1>0, <1>1, <1>5, <1>12, <2>1, <2>3, <3>1, <3>2, WelcomesSame DEF IInv
    <2> QED
      BY <2>2, <2>3
  <1>18. Wires'
    <2>1. phase = "waiting" /\ down # <<>> => DownSession \in Sessions
      <3> SUFFICES ASSUME phase = "waiting", down # <<>> PROVE DownSession \in Sessions
        OBVIOUS
      <3>1. Head(down) \in Frame \cup Welcome /\ Head(down).kind = "hello_ok"
        <4>1. down \in Seq(Frame \cup Welcome)
          BY <1>1 DEF TypeOK
        <4>2. Head(down).kind = "hello_ok"
          BY DEF IInv, Welcomes
        <4> QED
          BY <4>1, <4>2
      <3> QED
        BY <3>1 DEF DownSession, Frame, Welcome
    <2>2. down # <<>> \/ \A i \in 1 .. Len(down) : FALSE
      OBVIOUS
    <2>3. number["runner"] \in Sessions /\ DownSession' = DownSession
      BY <1>0, <1>1 DEF TypeOK, DownSession
    <2>4. ASSUME NEW i \in 1 .. Len(down), ~(phase = "waiting" /\ i = 1)
          PROVE  /\ down[i].kind # "hello_ok"
                 /\ FrameOf(down[i], DownSession, "backend", conn)'
      <3>1. down[i] \in Frame \cup Welcome /\ DownSession \in Sessions
        <4>1. down \in Seq(Frame \cup Welcome)
          BY <1>1 DEF TypeOK
        <4>2. DownSession \in Sessions
          BY <2>1, <2>2, <2>3 DEF DownSession
        <4> QED
          BY <4>1, <4>2
      <3>2. down[i].kind # "hello_ok" /\ FrameOf(down[i], DownSession, "backend", conn)
        BY <2>4 DEF IInv, Wires
      <3>3. /\ down[i].ack <= Len(log'[DownSession]["backend"])
            /\ down[i].kind = "numbered" =>
                 Carried(down[i].body, down[i].seq + 1, hist'[DownSession]["backend"], conn)
        BY <1>1, <1>10, <1>11, <3>1, <3>2, FrameGrows
      <3> QED
        BY <1>0, <2>3, <3>2, <3>3 DEF FrameOf
    <2>5. ASSUME NEW i \in 1 .. Len(up')
          PROVE  FrameOf(up[i], number["backend"], "runner", held)'
      <3>1. held' = held /\ up' = Tail(up)
        BY <1>0, <2>5
      <3>2. up'[i] = up[i + 1] /\ i + 1 \in 1 .. Len(up)
        BY <1>8, <3>1
      <3>3. FrameOf(up[i + 1], n, "runner", held)
        BY <3>2 DEF IInv, Wires, n
      <3>4. log'[n]["runner"] = log[n]["runner"] /\ hist' = hist /\ number' = number
        BY <1>0, <1>1, <1>12
      <3> QED
        BY <3>1, <3>2, <3>3, <3>4 DEF FrameOf, n
    <2> QED
      BY <1>0, <2>4, <2>5 DEF Wires
  <1>19. Ends'
    <2>1. Tracks(t, hist[n]["backend"]) /\ t.confirmed <= Len(log[n]["runner"])
      <3>1. CASE Releasable(s, f.ack)
        <4>1. f.ack \in Nat /\ Accepts(s, f.ack) /\ f.ack <= Len(log[n]["runner"])
          BY <1>2, <1>4, <3>1 DEF Frame, Releasable, FrameOf
        <4>2. Tracks(t, hist[n]["backend"])
          BY <1>1, <1>6, <1>7, <3>1, <4>1, ReleasedTracks
        <4> QED
          BY <1>6, <3>1, <4>1, <4>2
      <3>2. CASE ~Releasable(s, f.ack)
        BY <1>6, <1>7, <3>2
      <3> QED
        BY <3>1, <3>2
    <2>2. /\ Tracks(sess'["backend"], hist[n]["backend"])
          /\ sess'["backend"].received = Len(log'[n]["backend"])
          /\ sess'["backend"].confirmed <= Len(log[n]["runner"])
          /\ sess'["backend"].next = sess'["backend"].received
      <3>1. CASE took
        <4>1. /\ sess'["backend"].confirmed = t.confirmed /\ sess'["backend"].kept = t.kept
              /\ sess'["backend"].received = t.received + 1 /\ sess'["backend"].next = t.next
          BY <1>5, <1>6, <3>1, HandledFacts
        <4>2. Tracks(sess'["backend"], hist[n]["backend"])
          BY <2>1, <4>1 DEF Tracks, Sent
        <4> QED
          BY <1>6, <1>7, <1>10, <2>1, <3>1, <4>1, <4>2
      <3>2. CASE ~took
        BY <1>5, <1>6, <1>7, <1>10, <2>1, <3>2
      <3> QED
        BY <3>1, <3>2
    <2>3. ASSUME number["runner"] # None
          PROVE  /\ Tracks(sess["runner"], hist[number["runner"]]["runner"])
                 /\ sess["runner"].received = Len(log'[number["runner"]]["runner"])
                 /\ sess["runner"].confirmed <= Len(log'[number["runner"]]["backend"])
      <3> DEFINE b == number["runner"]
      <3>1. /\ Tracks(sess["runner"], hist[b]["runner"])
            /\ sess["runner"].received = Len(log[b]["runner"])
            /\ sess["runner"].confirmed <= Len(log[b]["backend"])
        BY <1>1, <2>3 DEF IInv, Ends, Other
      <3>2. b \in Sessions /\ sess["runner"].confirmed \in Nat
        BY <1>1 DEF TypeOK, SessionType
      <3> HIDE DEF b
      <3>3. log'[b]["runner"] = log[b]["runner"]
        BY <1>12, <3>2
      <3>4. Len(log[b]["backend"]) <= Len(log'[b]["backend"])
        BY <1>1, <1>10, <3>2 DEF Grows
      <3>5. Len(log[b]["backend"]) \in Nat /\ Len(log'[b]["backend"]) \in Nat
        BY <1>1, <3>2, HistoryTypes, NextHistoryTypes
      <3>6. sess["runner"].confirmed <= Len(log'[b]["backend"])
        BY <3>1, <3>2, <3>4, <3>5
      <3> QED
        BY <3>1, <3>3, <3>6 DEF b
    <2>4. ASSUME NEW e \in End, number[e] # None
          PROVE  /\ Tracks(sess'[e], hist[number[e]][e])
                 /\ sess'[e].received = Len(log'[number[e]][e])
                 /\ sess'[e].confirmed <= Len(log'[number[e]][Other(e)])
      <3>1. CASE e = "backend"
        BY <1>1, <1>12, <2>2, <3>1 DEF Other, n
      <3>2. CASE e = "runner"
        BY <1>5, <2>3, <2>4, <3>2 DEF Other
      <3> QED
        BY <3>1, <3>2 DEF End
    <2> QED
      BY <1>0, <2>2, <2>4 DEF Ends
  <1>20. Inboxes'
    BY <1>0, <1>1, <1>5, <1>11, InboxesGrow DEF IInv, Reading
  <1> QED
    BY <1>10, <1>14, <1>15, <1>16, <1>17, <1>18, <1>19, <1>20 DEF Parts

\* What beginning a session leaves at the backend: the session both know, or
\* one nobody had.
LEMMA BeginFacts ==
  ASSUME IInv, NEW h \in pending, Begin(h), UNCHANGED <<hist, log>>
  PROVE  /\ number'["runner"] = number["runner"] /\ sess'["runner"] = sess["runner"]
         /\ drawn \in Nat /\ drawn' \in Nat /\ drawn <= drawn'
         /\ number'["backend"] # None /\ number'["backend"] <= drawn'
         /\ Ends'
         /\ sess'["backend"].received <= Len(log[number'["backend"]]["backend"])
         /\ \/ /\ number'["backend"] = h.session
               /\ h.session = number["runner"] => Accepts(sess["runner"], sess'["backend"].received)
            \/ /\ number'["backend"] = drawn + 1
               /\ hist[drawn + 1]["runner"] = <<>> /\ log[drawn + 1]["runner"] = <<>>
  <1> DEFINE s == sess["backend"]
             n == number["backend"]
  <1>0. /\ TypeOK /\ "runner" \in End /\ "backend" \in End /\ s \in SessionType
        /\ n \in Sessions /\ h.received \in Nat /\ h.session \in Sessions
        /\ sess \in [End -> SessionType] /\ number \in [End -> Sessions]
    BY DEF IInv, TypeOK, End, Hello
  <1>1. drawn \in Nat /\ n \in Nat /\ number["runner"] \in Nat /\ MaxSessions \in Nat
        /\ drawn \in Sessions
    BY <1>0, LinkBounds DEF TypeOK, Sessions
  <1>2. /\ Other("runner") = "backend" /\ Other("backend") = "runner"
        /\ \A e \in End : e = "runner" \/ e = "backend"
    BY DEF Other, End
  <1>3. \A e \in End : number[e] # None =>
          /\ Tracks(sess[e], hist[number[e]][e])
          /\ sess[e].received = Len(log[number[e]][e])
          /\ sess[e].confirmed <= Len(log[number[e]][Other(e)])
    BY DEF IInv, Ends
  <1>4. CASE Resumes(h)
    <2>0. /\ h.session # None /\ h.session = n /\ Accepts(s, h.received)
          /\ sess' = [sess EXCEPT !["backend"] = Resumed(s, h.received)]
          /\ UNCHANGED <<number, drawn>>
      BY <1>4 DEF Begin, Resumes
    <2> DEFINE t == Resumed(s, h.received)
    <2>1. sess'["backend"] = t /\ sess'["runner"] = sess["runner"]
      BY <1>0, <2>0
    <2>2. /\ t \in SessionType /\ t.confirmed = h.received
          /\ t.kept = Released(s, h.received).kept
          /\ t.received = s.received /\ t.next = s.received
      BY <1>0, <2>0, ResumedFacts
    <2> HIDE DEF s, t, n
    <2>3. /\ Tracks(s, hist[n]["backend"]) /\ s.received = Len(log[n]["backend"])
      BY <1>0, <1>3, <2>0 DEF n, s
    <2>4. Tracks(t, hist[n]["backend"])
      BY <1>0, <2>0, <2>2, <2>3, ReleasedTracks
    <2>5. t.confirmed <= Len(log[n]["runner"])
      BY <2>0, <2>2 DEF IInv, Hellos
    <2>6. n <= drawn
      BY <1>0 DEF IInv, Numbers, n
    <2>7. Ends'
      <3>1. ASSUME NEW e \in End, number[e] # None
            PROVE  /\ Tracks(sess'[e], hist[number[e]][e])
                   /\ sess'[e].received = Len(log[number[e]][e])
                   /\ sess'[e].confirmed <= Len(log[number[e]][Other(e)])
        <4>1. CASE e = "backend"
          BY <1>2, <2>1, <2>2, <2>3, <2>4, <2>5, <4>1 DEF n
        <4>2. CASE e = "runner"
          BY <1>3, <2>1, <3>1, <4>2
        <4> QED
          BY <1>2, <4>1, <4>2
      <3> QED
        BY <2>0, <2>1, <2>2, <3>1 DEF Ends
    <2>8. ASSUME h.session = number["runner"] PROVE Accepts(sess["runner"], t.received)
      <3>1. /\ Tracks(sess["runner"], hist[n]["runner"])
            /\ sess["runner"].confirmed <= Len(log[n]["backend"])
        BY <1>0, <1>2, <1>3, <2>0, <2>8
      <3>2. Len(log[n]["backend"]) <= Len(hist[n]["runner"])
        BY <1>0, <1>2 DEF IInv, Logs
      <3> QED
        BY <2>2, <2>3, <3>1, <3>2 DEF Tracks, Accepts
    <2>9. s.received <= Len(log[n]["backend"])
      BY <1>0, <2>3 DEF SessionType
    <2> QED
      BY <1>1, <2>0, <2>1, <2>2, <2>6, <2>7, <2>8, <2>9 DEF n
  <1>5. CASE ~Resumes(h)
    <2> DEFINE k == drawn + 1
    <2>0. /\ drawn < MaxSessions /\ drawn' = drawn + 1
          /\ sess' = [sess EXCEPT !["backend"] = NewSession]
          /\ number' = [number EXCEPT !["backend"] = drawn']
      BY <1>5 DEF Begin
    <2>1. /\ sess'["backend"] = NewSession /\ sess'["runner"] = sess["runner"]
          /\ number'["backend"] = k /\ number'["runner"] = number["runner"]
      BY <1>0, <2>0
    <2>2. k \in Sessions /\ k > drawn /\ k # None
      BY <1>1, <2>0 DEF Sessions, None
    <2> HIDE DEF k
    <2>3. \A e \in End : hist[k][e] = <<>> /\ log[k][e] = <<>>
      BY <2>2 DEF IInv, Numbers
    <2>4. /\ Tracks(NewSession, hist[k]["backend"])
          /\ NewSession.received = Len(log[k]["backend"])
          /\ NewSession.confirmed <= Len(log[k]["runner"])
      BY <1>0, <2>3, NewSessionFacts DEF Tracks, Sent
    <2>5. Ends'
      <3>1. ASSUME NEW e \in End, number'[e] # None
            PROVE  /\ Tracks(sess'[e], hist[number'[e]][e])
                   /\ sess'[e].received = Len(log[number'[e]][e])
                   /\ sess'[e].confirmed <= Len(log[number'[e]][Other(e)])
        <4>1. CASE e = "backend"
          BY <1>2, <2>1, <2>4, <4>1
        <4>2. CASE e = "runner"
          BY <1>3, <2>1, <3>1, <4>2
        <4> QED
          BY <1>2, <4>1, <4>2
      <3> QED
        BY <2>1, <3>1, NewSessionFacts DEF Ends
    <2>6. NewSession.received <= Len(log[k]["backend"])
      BY <2>4, NewSessionFacts
    <2>7. drawn' = k /\ k \in Nat /\ drawn <= k /\ k <= k
      BY <1>1, <2>0 DEF k
    <2> QED
      BY <1>0, <1>1, <2>1, <2>2, <2>3, <2>5, <2>6, <2>7 DEF k
  <1> QED
    BY <1>4, <1>5

\* The adopted hello's connection is served, and the runner that waits on it is
\* answered with a session it can go on with.
LEMMA AdoptKeeps ==
  ASSUME IInv, TypeOK', NEW h \in pending, Adopt(h)
  PROVE  Parts'
  <1> DEFINE b == number'["backend"]
             w == [kind |-> "hello_ok", session |-> b, received |-> sess'["backend"].received]
             answers == h.conn = conn /\ phase = "waiting"
  <1>0. /\ held = None /\ pending' = pending \ {h} /\ held' = h.conn /\ up' = <<>>
        /\ Begin(h) /\ down' = (IF answers THEN <<w>> ELSE down)
        /\ UNCHANGED <<conn, phase, inbox, hist, log>>
    BY DEF Adopt, runnerVars, ghostVars
  <1>1. /\ number'["runner"] = number["runner"] /\ sess'["runner"] = sess["runner"]
        /\ drawn \in Nat /\ drawn' \in Nat /\ drawn <= drawn'
        /\ b # None /\ b <= drawn' /\ Ends'
        /\ sess'["backend"].received <= Len(log[b]["backend"])
        /\ \/ /\ b = h.session
              /\ h.session = number["runner"] => Accepts(sess["runner"], sess'["backend"].received)
           \/ /\ b = drawn + 1
              /\ hist[drawn + 1]["runner"] = <<>> /\ log[drawn + 1]["runner"] = <<>>
    BY <1>0, BeginFacts
  <1>2. /\ w.kind = "hello_ok" /\ w.session = b /\ w.received = sess'["backend"].received
        /\ <<w>> # <<>> /\ Head(<<w>>) = w /\ Len(<<w>>) = 1
    OBVIOUS
  <1>3. /\ h.conn # None /\ h.conn <= conn
        /\ h.conn = conn => phase \in {"waiting", "down"} /\ down = <<>>
        /\ \A k \in pending : k.conn = h.conn => k = h
    BY DEF IInv, Connections
  <1>4. /\ TypeOK /\ number["runner"] \in Nat /\ number["runner"] <= drawn
        /\ \A k \in pending : k.session \in Nat
        /\ \A k \in Sessions : k \in Nat
    <2>1. "runner" \in End /\ number \in [End -> Sessions] /\ pending \in SUBSET Hello
      BY DEF IInv, TypeOK, End
    <2>2. \A k \in Sessions : k \in Nat
      BY LinkBounds DEF Sessions
    <2>3. \A k \in pending : k.session \in Sessions
      BY <2>1 DEF Hello
    <2> QED
      BY <2>1, <2>2, <2>3 DEF IInv, Numbers
  <1> HIDE DEF w, b
  <1>5. Connections'
    BY <1>0, <1>2, <1>3 DEF IInv, Connections
  <1>6. Numbers'
    <2>1. \A e \in End : number'[e] <= drawn'
      BY <1>1, <1>4 DEF End, b
    <2>2. \A k \in Sessions : k > drawn' => k > drawn
      BY <1>1, <1>4
    <2>3. (held' = conn /\ Reading) => FALSE
      BY <1>0, <1>3 DEF Reading
    <2> QED
      BY <1>0, <1>1, <2>1, <2>2, <2>3 DEF IInv, Numbers, Reading, b
  <1>7. Hellos'
    <2>1. \A k \in pending : k.session <= drawn'
      BY <1>1, <1>4 DEF IInv, Hellos
    <2> QED
      BY <1>0, <1>1, <2>1 DEF IInv, Hellos
  <1>8. Welcomes'
    <2> SUFFICES ASSUME phase = "waiting" PROVE Welcomes'
      BY <1>0 DEF Welcomes
    <2>1. ~sess["runner"].owed
      BY DEF IInv, Welcomes
    <2>2. CASE h.conn = conn
      <3>1. down' = <<w>> /\ h.session = number["runner"]
        BY <1>0, <2>2 DEF IInv, Hellos
      <3>2. IF b = number["runner"]
              THEN Accepts(sess["runner"], w.received)
              ELSE hist[b]["runner"] = <<>> /\ log[b]["runner"] = <<>>
        BY <1>1, <1>2, <1>4, <3>1
      <3> QED
        BY <1>0, <1>1, <1>2, <2>1, <3>1, <3>2 DEF Welcomes, b
    <2>3. CASE h.conn # conn
      <3>1. down' = down /\ held' # conn
        BY <1>0, <2>3
      <3>2. ASSUME down # <<>>
            PROVE  Head(down).session \in Nat /\ Head(down).session <= drawn'
        <4>1. Head(down).kind = "hello_ok" /\ Head(down).session <= drawn
          BY <3>2 DEF IInv, Welcomes
        <4>2. Head(down) \in Frame \cup Welcome
          <5>1. down \in Seq(Frame \cup Welcome)
            BY <1>4 DEF TypeOK
          <5> QED
            BY <3>2, <5>1
        <4>3. Head(down).session \in Nat
          BY <1>4, <4>1, <4>2 DEF Frame, Welcome
        <4> QED
          BY <1>1, <4>1, <4>3
      <3> QED
        BY <1>0, <1>1, <2>1, <3>1, <3>2 DEF IInv, Welcomes
    <2> QED
      BY <2>2, <2>3
  <1>9. Wires'
    <2>1. CASE answers
      BY <1>0, <1>2, <2>1 DEF Wires
    <2>2. CASE ~answers
      <3>1. down' = down /\ DownSession' = DownSession
        BY <1>0, <1>1, <2>2 DEF DownSession
      <3> QED
        BY <1>0, <3>1 DEF IInv, Wires, FrameOf
    <2> QED
      BY <2>1, <2>2
  <1>10. Inboxes'
    BY <1>0, <1>1 DEF IInv, Inboxes, Welcomed, Reading
  <1>11. Logs'
    BY <1>0 DEF IInv, Logs
  <1> QED
    BY <1>1, <1>5, <1>6, <1>7, <1>8, <1>9, <1>10, <1>11 DEF Parts

\* An owner that fails numbers what its queues hold; the frame goes on only
\* where the backend serves its connection, which is of the runner's session.
LEMMA OwnerFailsKeeps ==
  ASSUME IInv, TypeOK', NEW q \in BOOLEAN, OwnerFails(q)
  PROVE  Parts'
  <1>0. /\ phase' = "down" /\ inbox' = <<>> /\ down' = <<>>
        /\ Reading \/ (phase = "waiting" /\ Unheard)
        /\ UNCHANGED <<number, conn, pending, held, drawn, log>>
    BY DEF OwnerFails, backendVars, Reading
  <1>1. CASE ~q
    <2>1. UNCHANGED <<sess, hist, up>>
      BY <1>1 DEF OwnerFails
    <2> QED
      BY <1>0, <2>1, LoseKeeps
  <1>2. CASE q
    <2> DEFINE n == number["runner"]
               m == NewMessage("runner", TRUE, n)
               f == StampFrame(sess["runner"], m)
    <2>0. TypeOK /\ "runner" \in End /\ "backend" \in End /\ n \in Sessions
          /\ up \in Seq(Frame)
      BY DEF IInv, TypeOK, End
    <2>1. Stamp("runner", m) /\ PutUp(f)
      BY <1>2 DEF OwnerFails
    <2>2. m \in Message /\ m.conn = conn
      BY <2>0, <2>1, StampTypes DEF NewMessage, ConnOf
    <2> HIDE DEF m
    <2>3. /\ Grows(hist, hist')
          /\ \A k \in Sessions, d \in End : k # n \/ d # "runner" => hist'[k][d] = hist[k][d]
          /\ sess'["backend"] = sess["backend"]
          /\ Ends' /\ f \in Frame
      BY <1>0, <2>0, <2>1, <2>2, StampKeeps
    <2>4. n # None => /\ f.ack <= Len(log[n]["runner"])
                      /\ Carried(f.body, f.seq + 1, hist'[n]["runner"], conn)
      BY <1>0, <2>0, <2>1, <2>2, StampKeeps DEF ConnOf
    <2>5. up' = (IF held = conn THEN Append(up, f) ELSE up)
      BY <2>1 DEF PutUp
    <2>6. held = conn => Reading /\ held # None /\ n = number["backend"] /\ n # None
      BY <1>0 DEF Unheard, IInv, Connections, Numbers, Reading
    <2> HIDE DEF f, n
    <2>7. Connections'
      BY <1>0, <2>5, <2>6 DEF IInv, Connections
    <2>8. Numbers'
      <3>1. drawn \in Nat /\ n <= drawn /\ \A k \in Sessions : k \in Nat
        BY <2>0, LinkBounds DEF IInv, Numbers, TypeOK, Sessions, n
      <3>2. \A k \in Sessions : k > drawn => \A d \in End : hist'[k][d] = hist[k][d]
        BY <2>0, <2>3, <3>1
      <3> QED
        BY <1>0, <3>2 DEF IInv, Numbers, Reading
    <2>9. Hellos'
      BY <1>0 DEF IInv, Hellos
    <2>10. Welcomes'
      BY <1>0 DEF Welcomes
    <2>11. Wires'
      <3>1. Grows(log, log')
        BY <1>0, <2>0, GrowsSame
      <3>2. ASSUME NEW i \in 1 .. Len(up')
            PROVE  FrameOf(up[i], number["backend"], "runner", held)'
        <4>1. CASE i \in 1 .. Len(up) /\ up'[i] = up[i]
          <5>1. up[i] \in Frame /\ number["backend"] \in Sessions
            BY <2>0, <4>1 DEF TypeOK
          <5>2. up[i].kind # "hello_ok" /\ FrameOf(up[i], number["backend"], "runner", held)
            BY <4>1, <5>1 DEF IInv, Wires, Frame
          <5>3. /\ up[i].ack <= Len(log'[number["backend"]]["runner"])
                /\ up[i].kind = "numbered" =>
                     Carried(up[i].body, up[i].seq + 1, hist'[number["backend"]]["runner"], held)
            BY <2>0, <2>3, <3>1, <5>1, <5>2, FrameGrows
          <5> QED
            BY <1>0, <4>1, <5>3 DEF FrameOf
        <4>2. CASE held = conn /\ up'[i] = f
          BY <1>0, <2>4, <2>6, <4>2 DEF FrameOf
        <4>3. \/ i \in 1 .. Len(up) /\ up'[i] = up[i]
              \/ held = conn /\ up'[i] = f
          BY <2>0, <2>3, <2>5
        <4> QED
          BY <4>1, <4>2, <4>3
      <3> QED
        BY <1>0, <3>2 DEF Wires
    <2>12. Inboxes'
      BY <1>0 DEF Inboxes, Reading
    <2>13. Logs'
      BY <1>0, <2>0, <2>3, LogsGrow DEF IInv
    <2> QED
      BY <2>3, <2>7, <2>8, <2>9, <2>10, <2>11, <2>12, <2>13 DEF Parts
  <1> QED
    BY <1>1, <1>2
=============================================================================
