----------------------------- MODULE LinkWrites -----------------------------
(***************************************************************************)
(* The invariant IInv is kept by what either end writes: a new message, a  *)
(* kept one written again and an acknowledgement.                          *)
(***************************************************************************)
EXTENDS LinkProofs

\* Whatever history h says, g says too.
Grows(h, g) ==
  \A n \in Sessions, e \in End :
    /\ Len(h[n][e]) <= Len(g[n][e])
    /\ \A i \in 1 .. Len(h[n][e]) : g[n][e][i] = h[n][e][i]

\* Everything but the types.
Parts == Connections /\ Numbers /\ Hellos /\ Welcomes /\ Wires /\ Ends /\ Inboxes /\ Logs

\* The histories are sequences before a step.
LEMMA HistoryTypes ==
  ASSUME TypeOK, NEW n \in Sessions, NEW e \in End
  PROVE  /\ hist[n][e] \in Seq(Message) /\ log[n][e] \in Seq(Entry)
         /\ Len(hist[n][e]) \in Nat /\ Len(log[n][e]) \in Nat
  <1>1. /\ hist \in [Sessions -> [End -> Seq(Message)]]
        /\ log \in [Sessions -> [End -> Seq(Entry)]]
    BY DEF TypeOK
  <1> QED
    BY <1>1

\* The histories are sequences after a step.
LEMMA NextHistoryTypes ==
  ASSUME TypeOK', NEW n \in Sessions, NEW e \in End
  PROVE  /\ hist'[n][e] \in Seq(Message) /\ log'[n][e] \in Seq(Entry)
         /\ Len(hist'[n][e]) \in Nat /\ Len(log'[n][e]) \in Nat
  <1>1. /\ hist' \in [Sessions -> [End -> Seq(Message)]]
        /\ log' \in [Sessions -> [End -> Seq(Entry)]]
    BY DEF TypeOK
  <1> QED
    BY <1>1

\* A history that did not change grew by nothing.
LEMMA GrowsSame ==
  ASSUME TypeOK
  PROVE  (hist' = hist => Grows(hist, hist')) /\ (log' = log => Grows(log, log'))
  <1>1. \A n \in Sessions, e \in End : Len(hist[n][e]) \in Nat /\ Len(log[n][e]) \in Nat
    BY HistoryTypes
  <1> QED
    BY <1>1 DEF Grows

\* A message carried of some messages is carried of more.
LEMMA CarriedGrows ==
  ASSUME NEW S, NEW w \in Seq(S), NEW v \in Seq(S), NEW b, NEW i, NEW c,
         Len(w) <= Len(v), \A j \in 1 .. Len(w) : v[j] = w[j], Carried(b, i, w, c)
  PROVE  Carried(b, i, v, c)
  BY DEF Carried

\* A message carried of a session's messages stays carried as they grow.
LEMMA CarriedStays ==
  ASSUME TypeOK, TypeOK', Grows(hist, hist'), NEW n \in Sessions, NEW e \in End,
         NEW b, NEW i, NEW c, Carried(b, i, hist[n][e], c)
  PROVE  Carried(b, i, hist'[n][e], c)
  <1> DEFINE w == hist[n][e]
             v == hist'[n][e]
  <1>1. w \in Seq(Message) /\ v \in Seq(Message)
    BY HistoryTypes, NextHistoryTypes
  <1>2. Len(w) <= Len(v) /\ \A j \in 1 .. Len(w) : v[j] = w[j]
    BY DEF Grows
  <1>3. Carried(b, i, w, c)
    OBVIOUS
  <1> HIDE DEF w, v
  <1>4. Carried(b, i, v, c)
    BY <1>1, <1>2, <1>3, CarriedGrows
  <1> QED
    BY <1>4 DEF v

\* One more message written, and what stays of what was.
LEMMA HistGrows ==
  ASSUME TypeOK, TypeOK', NEW n \in Sessions, NEW e \in End, NEW x \in Message,
         hist'[n][e] = Append(hist[n][e], x),
         \A k \in Sessions, d \in End : k # n \/ d # e => hist'[k][d] = hist[k][d]
  PROVE  /\ Grows(hist, hist')
         /\ Len(hist'[n][e]) = Len(hist[n][e]) + 1
         /\ hist'[n][e][Len(hist[n][e]) + 1] = x
  <1>1. \A k \in Sessions, d \in End : hist[k][d] \in Seq(Message) /\ Len(hist[k][d]) \in Nat
    BY DEF TypeOK
  <1>3. /\ Len(hist'[n][e]) = Len(hist[n][e]) + 1
        /\ \A i \in 1 .. Len(hist[n][e]) : hist'[n][e][i] = hist[n][e][i]
        /\ hist'[n][e][Len(hist[n][e]) + 1] = x
    BY <1>1
  <1>4. ASSUME NEW k \in Sessions, NEW d \in End
        PROVE  /\ Len(hist[k][d]) <= Len(hist'[k][d])
               /\ \A i \in 1 .. Len(hist[k][d]) : hist'[k][d][i] = hist[k][d][i]
    <2>1. CASE k = n /\ d = e
      BY <1>1, <1>3, <2>1
    <2>2. CASE k # n \/ d # e
      BY <1>1, <2>2
    <2> QED
      BY <2>1, <2>2
  <1> QED
    BY <1>3, <1>4 DEF Grows

\* One more message handled, and what stays of what was.
LEMMA LogGrows ==
  ASSUME TypeOK, TypeOK', NEW n \in Sessions, NEW e \in End, NEW x \in Entry,
         log'[n][e] = Append(log[n][e], x),
         \A k \in Sessions, d \in End : k # n \/ d # e => log'[k][d] = log[k][d]
  PROVE  /\ Grows(log, log')
         /\ Len(log'[n][e]) = Len(log[n][e]) + 1
         /\ log'[n][e][Len(log[n][e]) + 1] = x
  <1>1. \A k \in Sessions, d \in End : log[k][d] \in Seq(Entry) /\ Len(log[k][d]) \in Nat
    BY DEF TypeOK
  <1>3. /\ Len(log'[n][e]) = Len(log[n][e]) + 1
        /\ \A i \in 1 .. Len(log[n][e]) : log'[n][e][i] = log[n][e][i]
        /\ log'[n][e][Len(log[n][e]) + 1] = x
    BY <1>1
  <1>4. ASSUME NEW k \in Sessions, NEW d \in End
        PROVE  /\ Len(log[k][d]) <= Len(log'[k][d])
               /\ \A i \in 1 .. Len(log[k][d]) : log'[k][d][i] = log[k][d][i]
    <2>1. CASE k = n /\ d = e
      BY <1>1, <1>3, <2>1
    <2>2. CASE k # n \/ d # e
      BY <1>1, <2>2
    <2> QED
      BY <2>1, <2>2
  <1> QED
    BY <1>3, <1>4 DEF Grows

\* What a frame says stays true as the histories grow.
LEMMA FrameGrows ==
  ASSUME TypeOK, TypeOK', Grows(hist, hist'), Grows(log, log'),
         NEW f \in Frame \cup Welcome, NEW n \in Sessions, NEW e \in End, NEW c,
         f.kind # "hello_ok", FrameOf(f, n, e, c)
  PROVE  /\ f.ack <= Len(log'[n][e])
         /\ f.kind = "numbered" => Carried(f.body, f.seq + 1, hist'[n][e], c)
  <1>1. hist[n][e] \in Seq(Message) /\ hist'[n][e] \in Seq(Message)
    BY DEF TypeOK
  <1>2. log[n][e] \in Seq(Entry) /\ log'[n][e] \in Seq(Entry)
    BY DEF TypeOK
  <1>3. Len(log[n][e]) \in Nat /\ Len(log'[n][e]) \in Nat /\ Len(log[n][e]) <= Len(log'[n][e])
    BY <1>2 DEF Grows
  <1>4. f.ack \in Nat /\ f.ack <= Len(log[n][e])
    BY DEF Frame, Welcome, FrameOf
  <1>5. f.ack <= Len(log'[n][e])
    BY <1>3, <1>4
  <1>6. ASSUME f.kind = "numbered" PROVE Carried(f.body, f.seq + 1, hist'[n][e], c)
    <2>1. Carried(f.body, f.seq + 1, hist[n][e], c)
      BY <1>6 DEF FrameOf
    <2> QED
      BY <2>1, CarriedStays
  <1> QED
    BY <1>5, <1>6

\* What was handled is what was written, though more is written.
LEMMA LogsGrow ==
  ASSUME TypeOK, TypeOK', Logs, Grows(hist, hist'), log' = log
  PROVE  Logs'
  <1> SUFFICES ASSUME NEW n \in Sessions, NEW e \in End
               PROVE  /\ Len(log[n][e]) <= Len(hist'[n][Other(e)])
                      /\ \A i \in 1 .. Len(log[n][e]) :
                           Carried(log[n][e][i].body, i, hist'[n][Other(e)], log[n][e][i].conn)
    BY DEF Logs
  <1>1. Other(e) \in End
    BY DEF Other, End
  <1>2. hist[n][Other(e)] \in Seq(Message) /\ hist'[n][Other(e)] \in Seq(Message)
    BY <1>1 DEF TypeOK
  <1>3. log[n][e] \in Seq(Entry)
    BY DEF TypeOK
  <1>4. Len(log[n][e]) <= Len(hist'[n][Other(e)])
    BY <1>1, <1>2, <1>3 DEF Logs, Grows
  <1>5. ASSUME NEW i \in 1 .. Len(log[n][e])
        PROVE  Carried(log[n][e][i].body, i, hist'[n][Other(e)], log[n][e][i].conn)
    <2>1. Carried(log[n][e][i].body, i, hist[n][Other(e)], log[n][e][i].conn)
      BY DEF Logs
    <2> QED
      BY <1>1, <2>1, CarriedStays
  <1> QED
    BY <1>4, <1>5

\* What is on the wires stays true as the histories grow.
LEMMA WiresGrow ==
  ASSUME TypeOK, TypeOK', Wires, Grows(hist, hist'), Grows(log, log'),
         UNCHANGED <<number, held, conn, phase>>
  PROVE  /\ \A i \in 1 .. Len(up) :
              /\ up[i].ack <= Len(log'[number["backend"]]["runner"])
              /\ up[i].kind = "numbered" =>
                   Carried(up[i].body, up[i].seq + 1, hist'[number["backend"]]["runner"], held)
         /\ \A i \in 1 .. Len(down) :
              (phase = "waiting" => DownSession \in Sessions) =>
              IF phase = "waiting" /\ i = 1 THEN TRUE
              ELSE /\ down[i].kind # "hello_ok"
                   /\ down[i].ack <= Len(log'[DownSession]["backend"])
                   /\ down[i].kind = "numbered" =>
                        Carried(down[i].body, down[i].seq + 1, hist'[DownSession]["backend"], conn)
  <1>0. "runner" \in End /\ "backend" \in End
    BY DEF End
  <1>1. number["backend"] \in Sessions /\ number["runner"] \in Sessions
    BY <1>0 DEF TypeOK
  <1>2. ASSUME NEW i \in 1 .. Len(up)
        PROVE  /\ up[i].ack <= Len(log'[number["backend"]]["runner"])
               /\ up[i].kind = "numbered" =>
                    Carried(up[i].body, up[i].seq + 1, hist'[number["backend"]]["runner"], held)
    <2>1. up[i] \in Frame
      BY DEF TypeOK
    <2>2. up[i].kind # "hello_ok"
      BY <2>1 DEF Frame
    <2>3. FrameOf(up[i], number["backend"], "runner", held)
      BY DEF Wires
    <2> QED
      BY <1>0, <1>1, <2>1, <2>2, <2>3, FrameGrows
  <1>3. ASSUME NEW i \in 1 .. Len(down), phase = "waiting" => DownSession \in Sessions,
               ~(phase = "waiting" /\ i = 1)
        PROVE  /\ down[i].kind # "hello_ok"
               /\ down[i].ack <= Len(log'[DownSession]["backend"])
               /\ down[i].kind = "numbered" =>
                    Carried(down[i].body, down[i].seq + 1, hist'[DownSession]["backend"], conn)
    <2>1. down[i] \in Frame \cup Welcome
      BY DEF TypeOK
    <2>2. down[i].kind # "hello_ok" /\ FrameOf(down[i], DownSession, "backend", conn)
      BY <1>3 DEF Wires
    <2>3. DownSession \in Sessions
      BY <1>1, <1>3 DEF DownSession
    <2> QED
      BY <1>0, <2>1, <2>2, <2>3, FrameGrows
  <1> QED
    BY <1>2, <1>3

\* What the wires hold when an end wrote a frame of its session.
LEMMA WiresPut ==
  ASSUME IInv, TypeOK', Grows(hist, hist'), Grows(log, log'),
         NEW e \in End, NEW f \in Frame, Put(e, f),
         UNCHANGED <<number, held, conn, phase>>,
         e = "runner" /\ held = conn => Reading,
         e = "backend" => held # None,
         e = "backend" \/ held = conn =>
           /\ f.ack <= Len(log'[number[e]][e])
           /\ f.kind = "numbered" => Carried(f.body, f.seq + 1, hist'[number[e]][e], ConnOf(e))
  PROVE  /\ Wires'
         /\ held = None => up' = up
         /\ down # <<>> => down' # <<>> /\ Head(down') = Head(down)
         /\ ~Reading => (down = <<>> => down' = <<>>)
  <1>0. "runner" \in End /\ "backend" \in End /\ f.kind # "hello_ok"
    BY DEF End, Frame
  <1>1. up \in Seq(Frame) /\ down \in Seq(Frame \cup Welcome)
    BY DEF IInv, TypeOK
  <1>2. e = "runner" => down' = down /\ up' = IF held = conn THEN Append(up, f) ELSE up
    BY DEF Put, PutUp
  <1>3. e = "backend" => up' = up /\ down' = IF Live THEN Append(down, f) ELSE down
    BY DEF Put, PutDown
  <1>4. e \in {"runner", "backend"}
    BY DEF End
  <1>5. held = None => up' = up
    BY <1>2, <1>3, <1>4 DEF IInv, Connections, Reading
  <1>6. down # <<>> => down' # <<>> /\ Head(down') = Head(down)
    BY <1>1, <1>2, <1>3, <1>4
  <1>7. ~Reading => (down = <<>> => down' = <<>>)
    <2>1. ASSUME ~Reading, e = "backend", Live PROVE down # <<>>
      BY <2>1 DEF IInv, Connections, Welcomes, TypeOK, Live, Reading
    <2> QED
      BY <1>2, <1>3, <1>4, <2>1
  <1>8. phase = "waiting" /\ down # <<>> => DownSession \in Sessions /\ DownSession' = DownSession
    <2>1. ASSUME phase = "waiting", down # <<>> PROVE DownSession \in Sessions
      <3>1. Head(down) \in Frame \cup Welcome /\ Head(down).kind = "hello_ok"
        BY <1>1, <2>1 DEF IInv, Welcomes
      <3> QED
        BY <2>1, <3>1 DEF DownSession, Frame, Welcome
    <2> QED
      BY <1>6, <2>1 DEF DownSession
  <1>9. phase # "waiting" => DownSession' = DownSession
    BY DEF DownSession
  <1>10. /\ \A i \in 1 .. Len(up) :
              /\ up[i].ack <= Len(log'[number["backend"]]["runner"])
              /\ up[i].kind = "numbered" =>
                   Carried(up[i].body, up[i].seq + 1, hist'[number["backend"]]["runner"], held)
         /\ \A i \in 1 .. Len(down) :
              IF phase = "waiting" /\ i = 1 THEN TRUE
              ELSE /\ down[i].kind # "hello_ok"
                   /\ down[i].ack <= Len(log'[DownSession]["backend"])
                   /\ down[i].kind = "numbered" =>
                        Carried(down[i].body, down[i].seq + 1, hist'[DownSession]["backend"], conn)
    BY <1>1, <1>8, WiresGrow DEF IInv
  <1>11. ASSUME NEW i \in 1 .. Len(up')
         PROVE  FrameOf(up[i], number["backend"], "runner", held)'
    <2>1. CASE i \in 1 .. Len(up) /\ up'[i] = up[i]
      BY <1>10, <2>1 DEF FrameOf
    <2>2. CASE e = "runner" /\ held = conn /\ up'[i] = f
      <3>1. number["runner"] = number["backend"] /\ ConnOf(e) = held
        BY <2>2 DEF IInv, Numbers, ConnOf
      <3> QED
        BY <2>2, <3>1 DEF FrameOf
    <2>3. \/ i \in 1 .. Len(up) /\ up'[i] = up[i]
          \/ e = "runner" /\ held = conn /\ up'[i] = f
      BY <1>1, <1>2, <1>3, <1>4
    <2> QED
      BY <2>1, <2>2, <2>3
  <1>12. ASSUME NEW i \in 1 .. Len(down'), ~(phase = "waiting" /\ i = 1)
         PROVE  /\ down'[i].kind # "hello_ok"
                /\ FrameOf(down[i], DownSession, "backend", conn)'
    <2>1. CASE i \in 1 .. Len(down) /\ down'[i] = down[i]
      <3>1. DownSession' = DownSession
        BY <1>1, <1>8, <1>9, <2>1
      <3> QED
        BY <1>10, <1>12, <2>1, <3>1 DEF FrameOf
    <2>2. CASE e = "backend" /\ Live /\ down'[i] = f
      <3>1. ConnOf(e) = conn
        BY <2>2 DEF ConnOf, Live
      <3>2. DownSession' = number["backend"]
        <4>1. CASE phase = "waiting"
          <5>1. down # <<>> /\ Head(down).session = number["backend"]
            BY <2>2, <4>1 DEF IInv, Welcomes, Live
          <5> QED
            BY <1>6, <4>1, <5>1 DEF DownSession
        <4>2. CASE phase # "waiting"
          <5>1. Reading
            BY <2>2, <4>2 DEF IInv, Connections, Live, Reading, TypeOK
          <5> QED
            BY <2>2, <4>2, <5>1 DEF IInv, Numbers, Live, DownSession
        <4> QED
          BY <4>1, <4>2
      <3> QED
        BY <1>0, <2>2, <3>1, <3>2 DEF FrameOf
    <2>3. \/ i \in 1 .. Len(down) /\ down'[i] = down[i]
          \/ e = "backend" /\ Live /\ down'[i] = f
      BY <1>1, <1>2, <1>3, <1>4
    <2> QED
      BY <2>1, <2>2, <2>3
  <1>13. Wires'
    BY <1>11, <1>12 DEF Wires
  <1> QED
    BY <1>5, <1>6, <1>7, <1>13

-----------------------------------------------------------------------------
(* Writing.                                                                *)

\* A numbered message is the last its end wrote, and its frame says so.
LEMMA StampKeeps ==
  ASSUME IInv, TypeOK', NEW e \in End, NEW m \in Message, Stamp(e, m), UNCHANGED <<number, log>>
  PROVE  /\ Grows(hist, hist')
         /\ \A k \in Sessions, d \in End : k # number[e] \/ d # e => hist'[k][d] = hist[k][d]
         /\ \A d \in End : d # e => sess'[d] = sess[d]
         /\ sess'[e].received = sess[e].received /\ sess'[e].next = sess[e].next
         /\ Ends'
         /\ StampFrame(sess[e], m) \in Frame
         /\ StampFrame(sess[e], m).kind = "numbered"
         /\ number[e] # None =>
              /\ StampFrame(sess[e], m).ack <= Len(log[number[e]][e])
              /\ m.conn = ConnOf(e) =>
                   Carried(StampFrame(sess[e], m).body, StampFrame(sess[e], m).seq + 1,
                           hist'[number[e]][e], ConnOf(e))
  <1> DEFINE n == number[e]
             f == StampFrame(sess[e], m)
  <1>0. "runner" \in End /\ "backend" \in End
    BY DEF End
  <1>1. /\ n \in Sessions /\ sess[e] \in SessionType
        /\ hist \in [Sessions -> [End -> Seq(Message)]] /\ log \in [Sessions -> [End -> Seq(Entry)]]
        /\ sess \in [End -> SessionType] /\ number \in [End -> Sessions]
    BY DEF IInv, TypeOK
  <1>2. hist' = [hist EXCEPT ![n][e] = Append(hist[n][e], m)]
    BY DEF Stamp
  <1> HIDE DEF n
  <1>3. /\ Grows(hist, hist')
        /\ Len(hist'[n][e]) = Len(hist[n][e]) + 1
        /\ hist'[n][e][Len(hist[n][e]) + 1] = m
        /\ \A k \in Sessions, d \in End : k # n \/ d # e => hist'[k][d] = hist[k][d]
    <2>1. /\ hist'[n][e] = Append(hist[n][e], m)
          /\ \A k \in Sessions, d \in End : k # n \/ d # e => hist'[k][d] = hist[k][d]
      BY <1>1, <1>2
    <2>2. TypeOK /\ n \in Sessions
      BY <1>1 DEF IInv
    <2>3. Grows(hist, hist') /\ Len(hist'[n][e]) = Len(hist[n][e]) + 1
          /\ hist'[n][e][Len(hist[n][e]) + 1] = m
      BY <2>1, <2>2, HistGrows
    <2> QED
      BY <2>1, <2>3
  <1>4. /\ sess'[e] = Stamped(sess[e], m)
        /\ \A d \in End : d # e => sess'[d] = sess[d]
    BY <1>1 DEF Stamp
  <1>5. /\ sess'[e].confirmed = sess[e].confirmed /\ sess'[e].kept = Append(sess[e].kept, m)
        /\ sess'[e].received = sess[e].received /\ sess'[e].next = sess[e].next
        /\ f \in Frame
    BY <1>1, <1>4, StampedFacts
  <1>6. /\ f.kind = "numbered" /\ f.ack = sess[e].received /\ f.body = m
        /\ f.seq = sess[e].confirmed + Len(sess[e].kept)
    BY DEF StampFrame, NumberedFrame, Sent
  <1>7. /\ sess[e].confirmed \in Nat /\ sess[e].kept \in Seq(Message) /\ Len(sess[e].kept) \in Nat
    BY <1>1 DEF SessionType
  <1>8. ASSUME n # None
        PROVE  Tracks(sess'[e], hist'[n][e])
    <2>1. Tracks(sess[e], hist[n][e])
      BY <1>8 DEF IInv, Ends, n
    <2>2. \A i \in 1 .. Len(sess[e].kept) :
            /\ sess[e].confirmed + i \in 1 .. Len(hist[n][e])
            /\ sess'[e].kept[i] = sess[e].kept[i]
      BY <1>5, <1>7, <2>1 DEF Tracks, Sent
    <2>3. \A i \in 1 .. Len(hist[n][e]) : hist'[n][e][i] = hist[n][e][i]
      BY <1>1, <1>3 DEF Grows
    <2>4. Len(sess'[e].kept) = Len(sess[e].kept) + 1 /\ sess'[e].kept[Len(sess[e].kept) + 1] = m
      BY <1>5, <1>7
    <2>5. Sent(sess'[e]) = Len(hist'[n][e])
      <3>1. Len(hist[n][e]) = sess[e].confirmed + Len(sess[e].kept)
        BY <2>1 DEF Tracks, Sent
      <3>2. Len(hist'[n][e]) = Len(hist[n][e]) + 1
        BY <1>3
      <3> QED
        BY <1>5, <1>7, <2>4, <3>1, <3>2 DEF Sent
    <2>6. ASSUME NEW i \in 1 .. Len(sess'[e].kept)
          PROVE  sess'[e].kept[i] = hist'[n][e][sess'[e].confirmed + i]
      <3>1. CASE i \in 1 .. Len(sess[e].kept)
        BY <1>5, <2>1, <2>2, <2>3, <3>1 DEF Tracks
      <3>2. CASE i = Len(sess[e].kept) + 1
        <4>1. Len(hist[n][e]) = sess[e].confirmed + Len(sess[e].kept)
          BY <2>1 DEF Tracks, Sent
        <4>2. hist'[n][e][Len(hist[n][e]) + 1] = m
          BY <1>3
        <4>3. sess'[e].confirmed + i = Len(hist[n][e]) + 1
          BY <1>5, <1>7, <3>2, <4>1
        <4> QED
          BY <2>4, <3>2, <4>2, <4>3
      <3>3. Len(sess[e].kept) \in Nat /\ Len(sess'[e].kept) = Len(sess[e].kept) + 1
        BY <1>7, <2>4
      <3>4. i \in 1 .. Len(sess[e].kept) \/ i = Len(sess[e].kept) + 1
        BY <3>3
      <3> QED
        BY <3>1, <3>2, <3>4
    <2> QED
      BY <2>5, <2>6 DEF Tracks
  <1>9. Ends'
    <2> USE DEF n
    <2>1. ASSUME NEW d \in End, number[d] # None
          PROVE  /\ Tracks(sess'[d], hist'[number[d]][d])
                 /\ sess'[d].received = Len(log[number[d]][d])
                 /\ sess'[d].confirmed <= Len(log[number[d]][Other(d)])
      <3>1. CASE d = e
        BY <1>5, <1>8, <2>1, <3>1 DEF IInv, Ends
      <3>2. CASE d # e
        BY <1>1, <1>3, <1>4, <2>1, <3>2 DEF IInv, Ends
      <3> QED
        BY <3>1, <3>2
    <2>2. sess'["backend"].next = sess'["backend"].received
      BY <1>0, <1>4, <1>5 DEF IInv, Ends
    <2> QED
      BY <2>1, <2>2 DEF Ends
  <1>10. ASSUME n # None
         PROVE  /\ f.ack <= Len(log[n][e])
                /\ m.conn = ConnOf(e) => Carried(f.body, f.seq + 1, hist'[n][e], ConnOf(e))
    <2>1. f.seq = Len(hist[n][e]) /\ f.ack = Len(log[n][e])
      BY <1>6, <1>10 DEF IInv, Ends, Tracks, Sent, n
    <2>2. Len(hist[n][e]) \in Nat /\ Len(log[n][e]) \in Nat
      BY <1>1
    <2> QED
      BY <1>3, <1>6, <2>1, <2>2 DEF Carried
  <1> QED
    BY <1>3, <1>4, <1>5, <1>6, <1>9, <1>10 DEF n

\* What was read and not routed stays as more is written.
LEMMA InboxesGrow ==
  ASSUME TypeOK, TypeOK', Inboxes, Grows(hist, hist'), UNCHANGED <<inbox, number, conn>>,
         sess'["runner"].received = sess["runner"].received,
         Reading' => Reading /\ sess'["runner"].next = sess["runner"].next
  PROVE  Inboxes'
  <1>1. "backend" \in End /\ number["runner"] \in Sessions
    BY DEF TypeOK, End
  <1>2. /\ hist[number["runner"]]["backend"] \in Seq(Message)
        /\ hist'[number["runner"]]["backend"] \in Seq(Message)
    BY <1>1, HistoryTypes, NextHistoryTypes
  <1>3. Welcomed' = Welcomed
    BY DEF Welcomed
  <1>4. ASSUME NEW j \in 1 .. Len(inbox), j > Welcomed
        PROVE  Carried(inbox[j].body, sess["runner"].received + j - Welcomed,
                       hist'[number["runner"]]["backend"], conn)
    <2>1. Carried(inbox[j].body, sess["runner"].received + j - Welcomed,
                  hist[number["runner"]]["backend"], conn)
      BY <1>4 DEF Inboxes
    <2> QED
      BY <1>1, <2>1, CarriedStays
  <1>5. \A j \in 2 .. Len(inbox) : inbox[j].kind = "numbered"
    BY DEF Inboxes
  <1>6. Reading => sess["runner"].next = sess["runner"].received + Len(inbox) - Welcomed
    BY DEF Inboxes
  <1>7. inbox' = inbox /\ number' = number /\ conn' = conn
    OBVIOUS
  <1>8. \A j \in 2 .. Len(inbox') : inbox'[j].kind = "numbered"
    BY <1>5, <1>7
  <1>9. \A j \in 1 .. Len(inbox') : j > Welcomed' =>
          Carried(inbox'[j].body, sess'["runner"].received + j - Welcomed',
                  hist'[number'["runner"]]["backend"], conn')
    BY <1>3, <1>4, <1>7
  <1>10. Reading' => sess'["runner"].next = sess'["runner"].received + Len(inbox') - Welcomed'
    BY <1>3, <1>6, <1>7
  <1> QED
    BY <1>8, <1>9, <1>10 DEF Inboxes

\* An end that writes has a session.
LEMMA WritersHaveSession ==
  ASSUME IInv, NEW e \in End,
         e = "runner" => Reading, e = "backend" => held # None
  PROVE  number[e] # None
  BY DEF IInv, Numbers, End

\* A welcome under way stays right while the runner waits for it.
LEMMA WelcomesSame ==
  ASSUME TypeOK, TypeOK', Welcomes, phase = "waiting", down # <<>>,
         down' # <<>>, Head(down') = Head(down),
         UNCHANGED <<phase, number, drawn>>,
         held' = conn' => held = conn,
         sess'["runner"] = sess["runner"],
         \A k \in Sessions : /\ hist'[k]["runner"] = hist[k]["runner"]
                             /\ log'[k]["runner"] = log[k]["runner"]
                             /\ Len(log[k]["backend"]) <= Len(log'[k]["backend"])
  PROVE  Welcomes'
  <1> DEFINE w == Head(down)
  <1>0. "backend" \in End
    BY DEF End
  <1>1. /\ ~sess["runner"].owed /\ w.kind = "hello_ok"
        /\ w.session # None /\ w.session <= drawn
        /\ held = conn => w.session = number["backend"]
        /\ w.received <= Len(log[w.session]["backend"])
        /\ IF w.session = number["runner"]
             THEN Accepts(sess["runner"], w.received)
             ELSE hist[w.session]["runner"] = <<>> /\ log[w.session]["runner"] = <<>>
    BY DEF Welcomes
  <1>2. w \in Frame \cup Welcome
    BY DEF TypeOK
  <1> HIDE DEF w
  <1>3. w.session \in Sessions /\ w.received \in Nat
    BY <1>1, <1>2 DEF Frame, Welcome
  <1>4. Len(log[w.session]["backend"]) \in Nat /\ Len(log'[w.session]["backend"]) \in Nat
    BY <1>0, <1>3, HistoryTypes, NextHistoryTypes
  <1>5. w.received <= Len(log'[w.session]["backend"])
    BY <1>1, <1>3, <1>4
  <1>6. IF w.session = number["runner"]
          THEN Accepts(sess'["runner"], w.received)
          ELSE hist'[w.session]["runner"] = <<>> /\ log'[w.session]["runner"] = <<>>
    BY <1>1, <1>3
  <1>7. Head(down') = w
    BY DEF w
  <1> QED
    BY <1>1, <1>5, <1>6, <1>7 DEF Welcomes

\* A new message of either end keeps the invariant.
LEMMA SendKeeps ==
  ASSUME IInv, TypeOK', NEW e \in End, NEW m \in Message, m.conn = ConnOf(e),
         Writes(e), StampAndPut(e, m),
         UNCHANGED <<number, conn, phase, inbox, pending, held, drawn, log>>
  PROVE  Parts'
  <1> DEFINE f == StampFrame(sess[e], m)
  <1>0. /\ "runner" \in End /\ "backend" \in End /\ e \in {"runner", "backend"}
        /\ TypeOK /\ number[e] \in Sessions
    BY DEF End, IInv, TypeOK
  <1>1. (e = "runner" => phase = "open") /\ (e = "backend" => held # None)
    BY DEF Writes
  <1>2. number[e] # None
    BY <1>1, WritersHaveSession DEF Reading
  <1>3. Stamp(e, m) /\ Put(e, f)
    BY DEF StampAndPut
  <1>4. /\ Grows(hist, hist')
        /\ \A k \in Sessions, d \in End : k # number[e] \/ d # e => hist'[k][d] = hist[k][d]
        /\ \A d \in End : d # e => sess'[d] = sess[d]
        /\ sess'[e].received = sess[e].received /\ sess'[e].next = sess[e].next
        /\ Ends'
    BY <1>3, StampKeeps
  <1>5. /\ f \in Frame
        /\ f.ack <= Len(log[number[e]][e])
        /\ Carried(f.body, f.seq + 1, hist'[number[e]][e], ConnOf(e))
    BY <1>2, <1>3, StampKeeps
  <1>6. Grows(log, log')
    BY <1>0, GrowsSame
  <1> HIDE DEF f
  <1>7. /\ Wires'
        /\ held = None => up' = up
        /\ down # <<>> => down' # <<>> /\ Head(down') = Head(down)
        /\ ~Reading => (down = <<>> => down' = <<>>)
    BY <1>1, <1>3, <1>4, <1>5, <1>6, WiresPut DEF Reading
  <1>8. Connections'
    BY <1>7 DEF IInv, Connections, Reading
  <1>9. Numbers'
    <2>1. \A k \in Sessions : k > drawn => \A d \in End : hist'[k][d] = hist[k][d]
      <3>1. number[e] <= drawn /\ drawn \in Nat
        BY <1>0, LinkBounds DEF IInv, Numbers, TypeOK, Sessions
      <3> QED
        BY <1>0, <1>4, <3>1, LinkBounds DEF Sessions
    <2> QED
      BY <2>1 DEF IInv, Numbers, Reading
  <1>10. Hellos'
    BY DEF IInv, Hellos
  <1>11. Welcomes'
    <2> SUFFICES ASSUME phase = "waiting" PROVE Welcomes'
      BY DEF Welcomes
    <2>1. e = "backend" /\ sess'["runner"] = sess["runner"]
          /\ \A k \in Sessions : hist'[k]["runner"] = hist[k]["runner"]
      BY <1>0, <1>1, <1>4
    <2>2. CASE down = <<>>
      BY <1>7, <2>1, <2>2 DEF IInv, Welcomes, Reading
    <2>3. CASE down # <<>>
      <3>1. Head(down) \in Frame \cup Welcome /\ Head(down).kind = "hello_ok"
        <4>1. down \in Seq(Frame \cup Welcome) /\ Head(down).kind = "hello_ok"
          BY <1>0, <2>3 DEF IInv, Welcomes, TypeOK
        <4> QED
          BY <2>3, <4>1
      <3>2. Head(down).session \in Sessions
        BY <3>1 DEF Frame, Welcome
      <3> QED
        BY <1>7, <2>1, <2>3, <3>2, WelcomesSame DEF IInv
    <2> QED
      BY <2>2, <2>3
  <1>12. Inboxes'
    BY <1>0, <1>4, InboxesGrow DEF IInv, Reading
  <1>13. Logs'
    BY <1>0, <1>4, LogsGrow DEF IInv
  <1> QED
    BY <1>4, <1>7, <1>8, <1>9, <1>10, <1>11, <1>12, <1>13 DEF Parts

\* Writing again, or acknowledging, keeps the invariant: the session's messages
\* and counts stay as they are.
LEMMA WriteKeeps ==
  ASSUME IInv, TypeOK', NEW e \in End, NEW f \in Frame, Put(e, f),
         e = "runner" /\ held = conn => Reading,
         e = "runner" => phase # "waiting",
         e = "backend" => held # None,
         e = "backend" \/ held = conn =>
           /\ f.ack <= Len(log[number[e]][e])
           /\ f.kind = "numbered" => Carried(f.body, f.seq + 1, hist[number[e]][e], ConnOf(e)),
         \A d \in End : d # e => sess'[d] = sess[d],
         sess'[e].confirmed = sess[e].confirmed, sess'[e].kept = sess[e].kept,
         sess'[e].received = sess[e].received, sess'[e].next = sess[e].next,
         UNCHANGED <<number, conn, phase, inbox, pending, held, drawn, hist, log>>
  PROVE  Parts'
  <1>0. /\ "runner" \in End /\ "backend" \in End /\ e \in {"runner", "backend"} /\ TypeOK
    BY DEF End, IInv
  <1>1. Grows(hist, hist') /\ Grows(log, log')
    BY <1>0, GrowsSame
  <1>2. /\ Wires'
        /\ held = None => up' = up
        /\ down # <<>> => down' # <<>> /\ Head(down') = Head(down)
        /\ ~Reading => (down = <<>> => down' = <<>>)
    BY <1>1, WiresPut
  <1>3. Connections'
    BY <1>2 DEF IInv, Connections, Reading
  <1>4. Numbers'
    BY DEF IInv, Numbers, Reading
  <1>5. Hellos'
    BY DEF IInv, Hellos
  <1>6. \A d \in End : /\ sess'[d].confirmed = sess[d].confirmed /\ sess'[d].kept = sess[d].kept
                      /\ sess'[d].received = sess[d].received /\ sess'[d].next = sess[d].next
    OBVIOUS
  <1>7. Ends'
    <2>1. ASSUME NEW d \in End, number[d] # None
          PROVE  /\ Tracks(sess'[d], hist[number[d]][d])
                 /\ sess'[d].received = Len(log[number[d]][d])
                 /\ sess'[d].confirmed <= Len(log[number[d]][Other(d)])
      <3>1. /\ Tracks(sess[d], hist[number[d]][d])
            /\ sess[d].received = Len(log[number[d]][d])
            /\ sess[d].confirmed <= Len(log[number[d]][Other(d)])
        BY <2>1 DEF IInv, Ends
      <3>2. Tracks(sess'[d], hist[number[d]][d])
        BY <1>6, <3>1 DEF Tracks, Sent
      <3> QED
        BY <1>6, <3>1, <3>2
    <2>2. sess'["backend"].next = sess'["backend"].received
      BY <1>0, <1>6 DEF IInv, Ends
    <2> QED
      BY <2>1, <2>2 DEF Ends
  <1>8. Welcomes'
    <2> SUFFICES ASSUME phase = "waiting" PROVE Welcomes'
      BY DEF Welcomes
    <2>1. sess'["runner"] = sess["runner"]
      BY <1>0
    <2>2. CASE down = <<>>
      BY <1>2, <2>1, <2>2 DEF IInv, Welcomes, Reading
    <2>3. CASE down # <<>>
      <3>1. \A k \in Sessions : Len(log[k]["backend"]) <= Len(log'[k]["backend"])
        BY <1>0, <1>1 DEF Grows
      <3> QED
        BY <1>0, <1>2, <2>1, <2>3, <3>1, WelcomesSame DEF IInv
    <2> QED
      BY <2>2, <2>3
  <1>9. Inboxes'
    BY <1>0, <1>1, <1>6, InboxesGrow DEF IInv, Reading
  <1>10. Logs'
    BY <1>0, <1>1, LogsGrow DEF IInv
  <1> QED
    BY <1>2, <1>3, <1>4, <1>5, <1>7, <1>8, <1>9, <1>10 DEF Parts

\* A kept message written again is the one its number says.
LEMMA ResendKeeps ==
  ASSUME IInv, TypeOK', NEW e \in End, Resend(e)
  PROVE  Parts'
  <1> DEFINE s == sess[e]
             f == ResendFrame(s)
             w == hist[number[e]][e]
  <1>0. s \in SessionType /\ TypeOK /\ number[e] \in Sessions
    BY DEF IInv, TypeOK
  <1>1. (e = "runner" => phase = "resending") /\ (e = "backend" => held # None)
    BY DEF Resend, Replays
  <1>2. number[e] # None
    BY <1>1, WritersHaveSession DEF Reading
  <1>3. /\ f \in Frame /\ s.cursor + 1 \in 1 .. Len(s.kept)
        /\ f.kind = "numbered" /\ f.seq = s.confirmed + s.cursor /\ f.ack = s.received
        /\ f.body = IF s.kept[s.cursor + 1].again THEN s.kept[s.cursor + 1] ELSE Nothing
    BY <1>0, ResendFrameFacts DEF Resend
  <1>4. /\ Tracks(s, w) /\ s.received = Len(log[number[e]][e])
    BY <1>2 DEF IInv, Ends
  <1>5. f.ack <= Len(log[number[e]][e])
    BY <1>0, <1>3, <1>4 DEF SessionType
  <1>6. Carried(f.body, f.seq + 1, w, ConnOf(e))
    <2>1. s.confirmed \in Nat /\ s.cursor \in Nat /\ Len(s.kept) \in Nat
      BY <1>0 DEF SessionType
    <2>2. f.seq + 1 = s.confirmed + (s.cursor + 1) /\ f.seq + 1 \in 1 .. Len(w)
      <3>1. Len(w) = s.confirmed + Len(s.kept)
        BY <1>4 DEF Tracks, Sent
      <3>2. f.seq = s.confirmed + s.cursor /\ s.cursor + 1 <= Len(s.kept)
        BY <1>3
      <3> HIDE DEF s, f, w
      <3> QED
        BY <2>1, <3>1, <3>2
    <2>3. w[f.seq + 1] = s.kept[s.cursor + 1]
      <3>1. \A i \in 1 .. Len(s.kept) : s.kept[i] = w[s.confirmed + i]
        BY <1>4 DEF Tracks
      <3>2. s.cursor + 1 \in 1 .. Len(s.kept)
        BY <1>3
      <3> HIDE DEF s, f, w
      <3> QED
        BY <2>2, <3>1, <3>2
    <2> QED
      BY <1>3, <2>2, <2>3 DEF Carried
  <1>7. sess' = [sess EXCEPT ![e] = Resent(s)] /\ Put(e, f)
    BY DEF Resend
  <1>8. /\ sess'[e] = Resent(s) /\ \A d \in End : d # e => sess'[d] = sess[d]
    BY <1>0, <1>7 DEF TypeOK
  <1>9. /\ sess'[e].confirmed = s.confirmed /\ sess'[e].kept = s.kept
        /\ sess'[e].received = s.received /\ sess'[e].next = s.next
    BY <1>0, <1>8, ResentFacts
  <1>10. UNCHANGED <<number, conn, phase, inbox, pending, held, drawn, hist, log>>
    BY DEF Resend, runnerVars, backendVars, ghostVars
  <1> HIDE DEF f
  <1> QED
    BY <1>1, <1>3, <1>5, <1>6, <1>7, <1>8, <1>9, <1>10, WriteKeeps DEF Reading

\* An acknowledgement says what was handled; before the welcome it reaches nobody.
LEMMA AckKeeps ==
  ASSUME IInv, TypeOK', NEW e \in End, WriteAck(e)
  PROVE  Parts'
  <1> DEFINE s == sess[e]
             f == AckFrame(s)
  <1>0. s \in SessionType /\ TypeOK /\ number[e] \in Sessions
    BY DEF IInv, TypeOK
  <1>1. e = "backend" => held # None
    BY DEF WriteAck, Acks
  <1>2. e = "runner" => phase # "waiting"
    BY DEF WriteAck, IInv, Welcomes
  <1>3. e = "runner" /\ held = conn => Reading
    BY <1>2 DEF WriteAck, Acks, IInv, TypeOK, Connections, Reading
  <1>4. f \in Frame /\ f.kind = "ack" /\ f.ack = s.received
    BY <1>0, AcknowledgedFacts DEF AckFrame
  <1>5. e \in {"runner", "backend"}
    BY DEF End
  <1>6. ASSUME e = "backend" \/ held = conn
        PROVE  f.ack <= Len(log[number[e]][e])
    <2>1. number[e] # None
      BY <1>1, <1>3, <1>5, <1>6, WritersHaveSession
    <2>2. s.received = Len(log[number[e]][e])
      BY <2>1 DEF IInv, Ends
    <2> QED
      BY <1>0, <1>4, <2>2 DEF SessionType
  <1>7. sess' = [sess EXCEPT ![e] = Acknowledged(s)] /\ Put(e, f)
    BY DEF WriteAck
  <1>8. /\ sess'[e] = Acknowledged(s) /\ \A d \in End : d # e => sess'[d] = sess[d]
    BY <1>0, <1>7 DEF TypeOK
  <1>9. /\ sess'[e].confirmed = s.confirmed /\ sess'[e].kept = s.kept
        /\ sess'[e].received = s.received /\ sess'[e].next = s.next
    BY <1>0, <1>8, AcknowledgedFacts
  <1>10. UNCHANGED <<number, conn, phase, inbox, pending, held, drawn, hist, log>>
    BY DEF WriteAck, backendVars, ghostVars
  <1> HIDE DEF f
  <1> QED
    BY <1>1, <1>2, <1>3, <1>4, <1>6, <1>7, <1>8, <1>9, <1>10, WriteKeeps
=============================================================================
