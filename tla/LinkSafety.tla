----------------------------- MODULE LinkSafety -----------------------------
(***************************************************************************)
(* The link's safety for every bound: IInv holds at the start and is kept  *)
(* by every step, and what the link promises of its messages follows.      *)
(***************************************************************************)
EXTENDS LinkSteps, LinkRefinement

\* A runner and a backend that just started satisfy the invariant.
LEMMA IInvInit == Init => IInv
  <1> SUFFICES ASSUME Init PROVE IInv
    OBVIOUS
  <1>1. TypeOK
    BY TypeInit
  <1>2. /\ up = <<>> /\ down = <<>> /\ inbox = <<>> /\ pending = {} /\ held = None
        /\ conn = None /\ phase = "down" /\ drawn = 0
    BY DEF Init
  <1>3. \A e \in End : number[e] = None /\ sess[e] = NewSession
    BY DEF Init
  <1>4. \A n \in Sessions, e \in End : hist[n][e] = <<>> /\ log[n][e] = <<>>
    BY DEF Init
  <1>5. "backend" \in End
    BY DEF End
  <1>6. Connections
    BY <1>2 DEF Connections, None
  <1>7. Numbers
    BY <1>2, <1>3, <1>4 DEF Numbers, Reading, None
  <1>8. Hellos /\ Welcomes
    BY <1>2 DEF Hellos, Welcomes
  <1>9. Wires
    BY <1>2 DEF Wires
  <1>10. Ends
    BY <1>3, <1>5, NewSessionFacts DEF Ends
  <1>11. Inboxes
    BY <1>2 DEF Inboxes, Reading
  <1>12. Logs
    <2>1. \A e \in End : Other(e) \in End
      BY DEF Other, End
    <2> QED
      BY <1>4, <2>1 DEF Logs
  <1> QED
    BY <1>1, <1>6, <1>7, <1>8, <1>9, <1>10, <1>11, <1>12 DEF IInv

\* Every step of either end, of the network or of a restart keeps the invariant.
LEMMA IInvStep == IInv /\ [Next]_vars => IInv'
  <1> SUFFICES ASSUME IInv, [Next]_vars PROVE IInv'
    OBVIOUS
  <1>0. TypeOK /\ TypeOK'
    BY TypeStep DEF IInv
  <1> SUFFICES Parts'
    BY <1>0 DEF IInv, Parts
  <1> USE DEF runnerVars, backendVars, ghostVars
  <1>1. ASSUME NEW e \in End, NEW again \in BOOLEAN, Send(e, again) PROVE Parts'
    <2> DEFINE m == NewMessage(e, again, number[e])
    <2>1. number[e] \in Sessions
      BY <1>0 DEF TypeOK
    <2>2. m \in Message /\ m.conn = ConnOf(e) /\ StampAndPut(e, m) /\ Writes(e)
      BY <1>0, <1>1, <2>1, StampTypes DEF Send, StampAndPut, NewMessage
    <2>3. UNCHANGED <<number, conn, phase, inbox, pending, held, drawn, log>>
      BY <1>1 DEF Send
    <2> HIDE DEF m
    <2> QED
      BY <1>0, <2>2, <2>3, SendKeeps
  <1>2. ASSUME NEW e \in End, Push(e) PROVE Parts'
    BY <1>2, QuietKeeps DEF Push
  <1>3. ASSUME NEW e \in End, SendBacklog(e) PROVE Parts'
    <2> DEFINE m == NewMessage(e, TRUE, Head(backlog[e]))
    <2>1. Head(backlog[e]) \in Sessions
      <3>1. backlog[e] \in Seq(Sessions) /\ backlog[e] # <<>>
        BY <1>0, <1>3 DEF TypeOK, SendBacklog
      <3> QED
        BY <3>1
    <2>2. m \in Message /\ m.conn = ConnOf(e) /\ StampAndPut(e, m) /\ Writes(e)
      BY <1>0, <1>3, <2>1, StampTypes DEF SendBacklog, StampAndPut, NewMessage
    <2>3. UNCHANGED <<number, conn, phase, inbox, pending, held, drawn, log>>
      BY <1>3 DEF SendBacklog
    <2> HIDE DEF m
    <2> QED
      BY <1>0, <2>2, <2>3, SendKeeps
  <1>4. ASSUME NEW e \in End, Resend(e) PROVE Parts'
    BY <1>0, <1>4, ResendKeeps
  <1>5. ASSUME NEW e \in End, ResendDone(e) PROVE Parts'
    <2>1. phase' = phase \/ (Reading /\ Reading')
      BY <1>5 DEF ResendDone, Replays, Reading
    <2>2. UNCHANGED <<sess, number, conn, inbox, held, drawn, up, down, hist, log, pending>>
      BY <1>5 DEF ResendDone
    <2> QED
      BY <2>1, <2>2, QuietKeeps
  <1>6. ASSUME NEW e \in End, WriteAck(e) PROVE Parts'
    BY <1>0, <1>6, AckKeeps
  <1>7. CASE Connect
    BY <1>7, ConnectKeeps
  <1>8. CASE SayHello
    BY <1>8, SayHelloKeeps
  <1>9. CASE ReadWelcome
    BY <1>0, <1>9, ReadWelcomeKeeps
  <1>10. CASE Open
    <2>1. Reading /\ Reading'
      BY <1>10 DEF Open, Reading
    <2> QED
      BY <1>10, <2>1, QuietKeeps DEF Open
  <1>11. CASE RunnerReads
    BY <1>0, <1>11, RunnerReadsKeeps
  <1>12. CASE RunnerHandles
    BY <1>0, <1>12, RunnerHandlesKeeps
  <1>13. CASE RunnerNotices \/ RunnerLoses
    BY <1>13, LoseKeeps DEF RunnerNotices, RunnerLoses
  <1>14. ASSUME NEW h \in pending, Adopt(h) PROVE Parts'
    BY <1>0, <1>14, AdoptKeeps
  <1>15. ASSUME NEW h \in pending, GiveWay(h) \/ ProbeMissed(h) PROVE Parts'
    BY <1>15, CloseKeeps DEF GiveWay, ProbeMissed
  <1>16. ASSUME NEW h \in pending, Refuse(h) \/ Forget(h) PROVE Parts'
    BY <1>16, QuietKeeps DEF Refuse, Forget
  <1>17. CASE BackendReads
    BY <1>0, <1>17, BackendReadsKeeps
  <1>18. CASE BackendNotices \/ BackendLoses
    BY <1>18, CloseKeeps DEF BackendNotices, BackendLoses
  <1>19. ASSUME NEW q \in BOOLEAN, OwnerFails(q) PROVE Parts'
    BY <1>0, <1>19, OwnerFailsKeeps
  <1>20. CASE RunnerRestarts
    BY <1>20, RunnerRestartsKeeps
  <1>21. CASE BackendRestarts
    BY <1>21, BackendRestartsKeeps
  <1>22. CASE UNCHANGED vars
    BY <1>22, QuietKeeps DEF vars
  <1> QED
    BY <1>1, <1>2, <1>3, <1>4, <1>5, <1>6, <1>7, <1>8, <1>9, <1>10, <1>11, <1>12, <1>13,
       <1>14, <1>15, <1>16, <1>17, <1>18, <1>19, <1>20, <1>21, <1>22
       DEF Next, Traffic, Runner, Backend, Adoption, Faults

\* Whatever is under way between the ends, a frame, an arrival, a hello or a
\* welcome, claims no more than the histories of its session, in every
\* interleaving of adoption, reconnects, losses and restarts.
THEOREM Invariance == Spec => []IInv
  BY IInvInit, IInvStep, PTL DEF Spec

\* Over any number of connections, faults and sessions each end of the link
\* handles the other's messages of a session once each and in order.
THEOREM EachOnceInOrder == Spec => []ExactlyOnce
  <1>1. IInv => ExactlyOnce
    <2> SUFFICES ASSUME IInv, NEW n \in Sessions, NEW e \in End
                 PROVE  /\ Len(log[n][e]) <= Len(hist[n][Other(e)])
                        /\ \A i \in 1 .. Len(log[n][e]) :
                             \/ log[n][e][i].body = hist[n][Other(e)][i]
                             \/ log[n][e][i].body = Nothing /\ ~hist[n][Other(e)][i].again
      BY DEF ExactlyOnce
    <2> QED
      BY DEF IInv, Logs, Carried
  <1> QED
    BY <1>1, Invariance, PTL

\* A message whose work ends with its connection is never run by a later one,
\* however often the session resumes.
THEOREM ScopedStays == Spec => []ScopedOnItsConnection
  <1>1. IInv => ScopedOnItsConnection
    <2> SUFFICES ASSUME IInv, NEW n \in Sessions, NEW e \in End, NEW i \in 1 .. Len(log[n][e])
                 PROVE  \/ log[n][e][i].body = Nothing \/ log[n][e][i].body.again
                        \/ log[n][e][i].body.conn = log[n][e][i].conn
      BY DEF ScopedOnItsConnection
    <2>1. Carried(log[n][e][i].body, i, hist[n][Other(e)], log[n][e][i].conn)
      BY DEF IInv, Logs
    <2> QED
      BY <2>1 DEF Carried
  <1> QED
    BY <1>1, Invariance, PTL

\* What a session's end kept is what it wrote and the other did not confirm, and
\* it confirmed only what it handled: a message read and dropped is kept.
THEOREM KeptUntilHandled == Spec => []NothingLost
  <1>1. IInv => NothingLost
    <2> SUFFICES ASSUME IInv, NEW e \in End, number[e] # None
                 PROVE  /\ sess[e].confirmed <= Len(log[number[e]][Other(e)])
                        /\ sess[e].kept = SubSeq(hist[number[e]][e], sess[e].confirmed + 1,
                                                 Len(hist[number[e]][e]))
      BY DEF NothingLost
    <2> DEFINE w == hist[number[e]][e]
               c == sess[e].confirmed
               k == sess[e].kept
               r == SubSeq(w, c + 1, Len(w))
    <2>1. sess[e] \in SessionType /\ number[e] \in Sessions /\ TypeOK
      BY DEF IInv, TypeOK
    <2>2. k \in Seq(Message) /\ w \in Seq(Message) /\ c \in Nat
      BY <2>1, HistoryTypes DEF SessionType
    <2>3. /\ c <= Len(log[number[e]][Other(e)]) /\ c + Len(k) = Len(w)
          /\ \A i \in 1 .. Len(k) : k[i] = w[c + i]
      BY DEF IInv, Ends, Tracks, Sent
    <2> HIDE DEF w, c, k
    <2>4. c <= Len(w) /\ Len(k) = Len(w) - c /\ Len(k) \in Nat
      BY <2>2, <2>3
    <2>5. /\ r \in Seq(Message) /\ Len(r) = Len(w) - c
          /\ \A i \in 1 .. Len(w) - c : r[i] = w[i + c]
      BY <2>2, <2>4, Suffix
    <2> HIDE DEF r
    <2>6. Len(r) = Len(k) /\ \A i \in 1 .. Len(k) : k[i] = r[i]
      BY <2>2, <2>3, <2>4, <2>5
    <2>7. k = r
      BY <2>2, <2>5, <2>6, SeqEqual
    <2> QED
      BY <2>3, <2>7 DEF w, c, k, r
  <1> QED
    BY <1>1, Invariance, PTL

\* A welcome that names the session the runner holds counts what the runner can
\* release: no answer of the backend's makes the runner start its session anew.
THEOREM AnswersAccepted == Spec => []WelcomeAccepted
  <1>1. IInv => WelcomeAccepted
    <2> SUFFICES ASSUME IInv, down # <<>>, Head(down).kind = "hello_ok",
                        Head(down).session = number["runner"]
                 PROVE  Accepts(sess["runner"], Head(down).received)
      BY DEF WelcomeAccepted
    <2>1. 1 \in 1 .. Len(down) /\ Head(down) = down[1]
      <3>1. down \in Seq(Frame \cup Welcome)
        BY DEF IInv, TypeOK
      <3> QED
        BY <3>1
    <2>2. phase = "waiting"
      BY <2>1 DEF IInv, Wires
    <2> QED
      BY <2>2 DEF IInv, Welcomes
  <1> QED
    BY <1>1, Invariance, PTL
-----------------------------------------------------------------------------
(* Sessions that end.                                                      *)

\* What waits in a backlog waits for its end's session, and what was written
\* in a session was made in it.
Born ==
  /\ \A e \in End : \A i \in 1 .. Len(backlog[e]) : backlog[e][i] = number[e]
  /\ BacklogOfSession

\* A message of its end's session is numbered in it.
LEMMA StampBorn ==
  ASSUME TypeOK, TypeOK', NEW e \in End, NEW m \in Message, m.born = number[e],
         Stamp(e, m), BacklogOfSession
  PROVE  BacklogOfSession'
  <1>0. number[e] \in Sessions /\ hist[number[e]][e] \in Seq(Message)
    BY HistoryTypes DEF TypeOK
  <1>1. /\ hist'[number[e]][e] = Append(hist[number[e]][e], m)
        /\ \A k \in Sessions, d \in End : k # number[e] \/ d # e => hist'[k][d] = hist[k][d]
    BY <1>0 DEF Stamp, TypeOK
  <1> SUFFICES ASSUME NEW n \in Sessions, NEW d \in End, NEW i \in 1 .. Len(hist'[n][d])
               PROVE  hist'[n][d][i].born = n
    BY DEF BacklogOfSession
  <1>2. CASE n # number[e] \/ d # e
    BY <1>1, <1>2 DEF BacklogOfSession
  <1>3. CASE n = number[e] /\ d = e
    <2> DEFINE w == hist[n][d]
    <2>1. hist'[n][d] = Append(w, m) /\ w \in Seq(Message)
      BY <1>0, <1>1, <1>3
    <2>2. \A j \in 1 .. Len(w) : w[j].born = n
      BY DEF BacklogOfSession
    <2> HIDE DEF w
    <2>3. /\ Len(w) \in Nat /\ Len(Append(w, m)) = Len(w) + 1
          /\ \A j \in 1 .. Len(w) : Append(w, m)[j] = w[j]
          /\ Append(w, m)[Len(w) + 1] = m
      BY <2>1, AppendProperties
    <2>4. i \in 1 .. Len(w) \/ i = Len(w) + 1
      BY <2>1, <2>3
    <2>5. CASE i \in 1 .. Len(w)
      BY <2>1, <2>2, <2>3, <2>5
    <2>6. CASE i = Len(w) + 1
      BY <1>3, <2>1, <2>3, <2>6
    <2> QED
      BY <2>4, <2>5, <2>6
  <1> QED
    BY <1>2, <1>3

\* An end whose session ends drops what waits.
LEMMA BornStep == IInv /\ Born /\ [Next]_vars => Born'
  <1> SUFFICES ASSUME IInv, Born, [Next]_vars PROVE Born'
    OBVIOUS
  <1>0. TypeOK /\ TypeOK' /\ "runner" \in End /\ "backend" \in End
    BY TypeStep DEF IInv, End
  <1>1. backlog \in [End -> Seq(Sessions)] /\ number \in [End -> Sessions]
    BY <1>0 DEF TypeOK
  <1> USE DEF runnerVars, backendVars, ghostVars
  <1>2. ASSUME NEW e \in End, NEW again \in BOOLEAN, Send(e, again) PROVE Born'
    <2> DEFINE m == NewMessage(e, again, number[e])
    <2>1. m \in Message /\ m.born = number[e] /\ Stamp(e, m)
      BY <1>0, <1>1, <1>2, StampTypes DEF Send, StampAndPut, NewMessage
    <2> HIDE DEF m
    <2>2. BacklogOfSession'
      BY <1>0, <2>1, StampBorn DEF Born
    <2> QED
      BY <1>2, <2>2 DEF Born, Send
  <1>3. ASSUME NEW e \in End, Push(e) PROVE Born'
    <2>1. /\ backlog'[e] = Append(backlog[e], number[e])
          /\ \A d \in End : d # e => backlog'[d] = backlog[d]
      BY <1>1, <1>3 DEF Push
    <2>2. backlog[e] \in Seq(Sessions) /\ number[e] \in Sessions
      BY <1>1
    <2>3. \A i \in 1 .. Len(backlog'[e]) : backlog'[e][i] = number[e]
      BY <2>1, <2>2 DEF Born
    <2> QED
      BY <1>3, <2>1, <2>3 DEF Born, Push, BacklogOfSession
  <1>4. ASSUME NEW e \in End, SendBacklog(e) PROVE Born'
    <2> DEFINE m == NewMessage(e, TRUE, Head(backlog[e]))
    <2>1. /\ backlog[e] \in Seq(Sessions) /\ backlog[e] # <<>>
          /\ backlog'[e] = Tail(backlog[e])
          /\ \A d \in End : d # e => backlog'[d] = backlog[d]
      BY <1>1, <1>4 DEF SendBacklog
    <2>2. Head(backlog[e]) = number[e]
      BY <2>1 DEF Born
    <2>3. m \in Message /\ m.born = number[e] /\ Stamp(e, m)
      BY <1>0, <1>1, <1>4, <2>2, StampTypes DEF SendBacklog, StampAndPut, NewMessage
    <2> HIDE DEF m
    <2>4. BacklogOfSession'
      BY <1>0, <2>3, StampBorn DEF Born
    <2>5. \A i \in 1 .. Len(backlog'[e]) : backlog'[e][i] = number[e]
      BY <2>1 DEF Born
    <2> QED
      BY <1>4, <2>1, <2>4, <2>5 DEF Born, SendBacklog
  <1>5. CASE ReadWelcome
    <2>1. /\ \/ number'["runner"] = number["runner"] /\ backlog'["runner"] = backlog["runner"]
             \/ backlog'["runner"] = <<>>
          /\ number'["backend"] = number["backend"] /\ backlog'["backend"] = backlog["backend"]
          /\ UNCHANGED hist
      BY <1>1, <1>5 DEF ReadWelcome, HelloOk, End
    <2> QED
      BY <2>1 DEF Born, BacklogOfSession, End
  <1>6. ASSUME NEW h \in pending, Adopt(h) PROVE Born'
    <2>1. /\ \/ number'["backend"] = number["backend"] /\ backlog'["backend"] = backlog["backend"]
             \/ backlog'["backend"] = <<>>
          /\ number'["runner"] = number["runner"] /\ backlog'["runner"] = backlog["runner"]
          /\ UNCHANGED hist
      BY <1>1, <1>6 DEF Adopt, Begin, End
    <2> QED
      BY <2>1 DEF Born, BacklogOfSession, End
  <1>7. CASE RunnerRestarts
    <2>1. /\ backlog'["runner"] = <<>> /\ UNCHANGED hist
          /\ number'["backend"] = number["backend"] /\ backlog'["backend"] = backlog["backend"]
      BY <1>1, <1>7 DEF RunnerRestarts, End
    <2> QED
      BY <2>1 DEF Born, BacklogOfSession, End
  <1>8. CASE BackendRestarts
    <2>1. /\ backlog'["backend"] = <<>> /\ UNCHANGED hist
          /\ number'["runner"] = number["runner"] /\ backlog'["runner"] = backlog["runner"]
      BY <1>1, <1>8 DEF BackendRestarts, End
    <2> QED
      BY <2>1 DEF Born, BacklogOfSession, End
  <1>9. ASSUME NEW q \in BOOLEAN, OwnerFails(q) PROVE Born'
    <2> DEFINE m == NewMessage("runner", TRUE, number["runner"])
    <2>1. UNCHANGED <<backlog, number>>
      BY <1>9 DEF OwnerFails
    <2>2. CASE UNCHANGED hist
      BY <2>1, <2>2 DEF Born, BacklogOfSession
    <2>3. CASE q
      <3>1. m \in Message /\ m.born = number["runner"] /\ Stamp("runner", m)
        BY <1>0, <1>1, <1>9, <2>3, StampTypes DEF OwnerFails, NewMessage
      <3> HIDE DEF m
      <3>2. BacklogOfSession'
        BY <1>0, <3>1, StampBorn DEF Born
      <3> QED
        BY <2>1, <3>2 DEF Born
    <2> QED
      BY <1>9, <2>2, <2>3 DEF OwnerFails
  <1>10. CASE UNCHANGED <<backlog, number, hist>>
    BY <1>10 DEF Born, BacklogOfSession
  <1>11. ASSUME NEW e \in End, Resend(e) \/ ResendDone(e) \/ WriteAck(e)
         PROVE  UNCHANGED <<backlog, number, hist>>
    BY <1>11 DEF Resend, ResendDone, WriteAck
  <1>12. CASE Connect \/ SayHello \/ Open \/ RunnerReads \/ RunnerHandles \/ RunnerNotices
    BY <1>10, <1>12 DEF Connect, SayHello, Open, RunnerReads, RunnerHandles, RunnerNotices
  <1>13. ASSUME NEW h \in pending, GiveWay(h) \/ ProbeMissed(h) \/ Refuse(h) \/ Forget(h)
         PROVE  UNCHANGED <<backlog, number, hist>>
    BY <1>13 DEF GiveWay, ProbeMissed, Refuse, Forget
  <1>14. CASE BackendReads \/ BackendNotices \/ RunnerLoses \/ BackendLoses
    BY <1>10, <1>14 DEF BackendReads, BackendNotices, RunnerLoses, BackendLoses
  <1>15. CASE UNCHANGED vars
    BY <1>10, <1>15 DEF vars
  <1> QED
    BY <1>2, <1>3, <1>4, <1>5, <1>6, <1>7, <1>8, <1>9, <1>10, <1>11, <1>12, <1>13, <1>14, <1>15
       DEF Next, Traffic, Runner, Backend, Adoption, Faults

\* What waited in a backlog when its session ended, by a new welcome, a new
\* adoption or a restart, is never written in another session.
THEOREM BacklogEnds == Spec => []BacklogOfSession
  <1>1. Init => Born
    <2> SUFFICES ASSUME Init PROVE Born
      OBVIOUS
    <2>1. \A e \in End : backlog[e] = <<>>
      BY DEF Init
    <2>2. \A n \in Sessions, e \in End : hist[n][e] = <<>>
      BY DEF Init
    <2> QED
      BY <2>1, <2>2 DEF Born, BacklogOfSession
  <1>2. Born => BacklogOfSession
    BY DEF Born
  <1> QED
    BY <1>1, <1>2, BornStep, Invariance, PTL DEF Spec

\* While the runner's calls have not heard of their session's end, the welcome
\* that tells them is the first arrival its owner routes.
EndWaits ==
  ended => /\ Reading => inbox # <<>>
           /\ inbox # <<>> => inbox[1].kind = "welcome"

\* A step of anyone keeps the news in front.
LEMMA EndWaitsStep == IInv /\ EndWaits /\ [Next]_vars => EndWaits'
  <1> SUFFICES ASSUME IInv, EndWaits, [Next]_vars PROVE EndWaits'
    OBVIOUS
  <1>0. TypeOK /\ TypeOK' /\ inbox \in Seq(Arrival)
    BY TypeStep DEF IInv, TypeOK
  <1> USE DEF runnerVars, backendVars, ghostVars
  <1>1. CASE UNCHANGED <<ended, inbox>> /\ (Reading' => Reading)
    BY <1>1 DEF EndWaits
  <1>2. ASSUME NEW e \in End,
               \/ \E again \in BOOLEAN : Send(e, again)
               \/ Push(e) \/ SendBacklog(e) \/ Resend(e) \/ ResendDone(e) \/ WriteAck(e)
        PROVE  UNCHANGED <<ended, inbox>> /\ (Reading' => Reading)
    BY <1>2 DEF Send, Push, SendBacklog, Resend, ResendDone, WriteAck, Replays, Reading
  <1>3. CASE Connect \/ SayHello \/ Open \/ RunnerNotices \/ RunnerLoses
    BY <1>1, <1>3 DEF Connect, SayHello, Open, RunnerNotices, RunnerLoses, Reading
  <1>4. CASE ReadWelcome
    <2>1. inbox = <<>> /\ inbox' = Append(inbox, WelcomeArrival)
      BY <1>4 DEF ReadWelcome, IInv, Connections
    <2>2. inbox' = <<WelcomeArrival>>
      BY <2>1
    <2> QED
      BY <2>2 DEF EndWaits, WelcomeArrival
  <1>5. CASE RunnerReads
    <2>1. /\ UNCHANGED ended /\ Reading
          /\ inbox' = inbox \/ \E x \in Arrival : inbox' = Append(inbox, x)
      <3>1. inbox' = inbox \/ \E x : inbox' = Append(inbox, x)
        BY <1>5 DEF RunnerReads
      <3>2. inbox' \in Seq(Arrival)
        BY <1>0 DEF TypeOK
      <3> QED
        BY <1>0, <1>5, <3>1, <3>2 DEF RunnerReads, Reading
    <2> QED
      BY <1>0, <2>1 DEF EndWaits
  <1>6. CASE RunnerHandles
    <2>1. /\ inbox # <<>> /\ Head(inbox) = inbox[1]
          /\ inbox[1].kind = "welcome" => ~ended'
          /\ inbox[1].kind # "welcome" => ended' = ended
      BY <1>0, <1>6 DEF RunnerHandles
    <2>2. ~ended'
      BY <2>1 DEF EndWaits
    <2> QED
      BY <2>2 DEF EndWaits
  <1>7. ASSUME NEW h \in pending,
               Adopt(h) \/ GiveWay(h) \/ ProbeMissed(h) \/ Refuse(h) \/ Forget(h)
        PROVE  UNCHANGED <<ended, inbox>> /\ (Reading' => Reading)
    BY <1>7 DEF Adopt, GiveWay, ProbeMissed, Refuse, Forget, Reading
  <1>8. CASE BackendReads \/ BackendNotices \/ BackendLoses \/ BackendRestarts
    BY <1>1, <1>8 DEF BackendReads, BackendNotices, BackendLoses, BackendRestarts, Reading
  <1>9. CASE RunnerRestarts
    BY <1>9 DEF RunnerRestarts, EndWaits
  <1>10. ASSUME NEW q \in BOOLEAN, OwnerFails(q) PROVE EndWaits'
    BY <1>10 DEF OwnerFails, EndWaits, Reading
  <1>11. CASE UNCHANGED vars
    BY <1>1, <1>11 DEF vars, Reading
  <1> QED
    BY <1>1, <1>2, <1>3, <1>4, <1>5, <1>6, <1>7, <1>8, <1>9, <1>10, <1>11
       DEF Next, Traffic, Runner, Backend, Adoption, Faults

\* The runner's calls hear of their session's end before a message of the next
\* is routed, though arrivals are dropped with their owner and read again.
THEOREM EndHeardFirst == Spec => []EndedFirst
  <1>1. Init => EndWaits
    BY DEF Init, EndWaits
  <1>2. IInv /\ EndWaits => EndedFirst
    <2> SUFFICES ASSUME IInv, EndWaits, inbox # <<>>, Head(inbox).kind = "numbered" PROVE ~ended
      BY DEF EndedFirst
    <2>1. inbox \in Seq(Arrival)
      BY DEF IInv, TypeOK
    <2>2. Head(inbox) = inbox[1]
      BY <2>1
    <2> QED
      BY <2>2 DEF EndWaits
  <1> QED
    BY <1>1, <1>2, EndWaitsStep, Invariance, PTL DEF Spec
-----------------------------------------------------------------------------
(* The link implements Delivery.                                           *)

\* q is the messages w without the first r.
IsRest(q, w, r) ==
  /\ w \in Seq(Message) /\ r \in Nat /\ r <= Len(w)
  /\ q \in Seq(Message) /\ Len(q) = Len(w) - r
  /\ \A i \in 1 .. Len(w) - r : q[i] = w[i + r]

\* There is one rest.
LEMMA RestSame ==
  ASSUME NEW p, NEW q, NEW w, NEW r, IsRest(p, w, r), IsRest(q, w, r)
  PROVE  p = q
  <1>1. /\ p \in Seq(Message) /\ q \in Seq(Message) /\ Len(p) = Len(q)
        /\ \A i \in 1 .. Len(p) : p[i] = q[i]
    BY DEF IsRest
  <1> QED
    BY <1>1, SeqEqual

\* One more message is at the end of the rest.
LEMMA RestAppend ==
  ASSUME NEW p, NEW q, NEW w, NEW r, NEW m \in Message,
         IsRest(q, w, r), IsRest(p, Append(w, m), r)
  PROVE  Len(p) = Len(q) + 1 /\ p = Append(q, p[Len(q) + 1])
  <1>1. /\ w \in Seq(Message) /\ r \in Nat /\ r <= Len(w) /\ Len(w) \in Nat
        /\ q \in Seq(Message) /\ Len(q) = Len(w) - r /\ Len(q) \in Nat
        /\ \A i \in 1 .. Len(w) - r : q[i] = w[i + r]
    BY DEF IsRest
  <1>2. /\ Len(Append(w, m)) = Len(w) + 1
        /\ \A i \in 1 .. Len(w) : Append(w, m)[i] = w[i]
    BY <1>1
  <1>3. /\ p \in Seq(Message) /\ Len(p) = Len(q) + 1
        /\ \A i \in 1 .. Len(w) + 1 - r : p[i] = Append(w, m)[i + r]
    BY <1>1, <1>2 DEF IsRest
  <1> DEFINE x == p[Len(q) + 1]
  <1>4. x \in Message
    BY <1>1, <1>3
  <1>5. \A i \in 1 .. Len(q) : p[i] = q[i]
    BY <1>1, <1>2, <1>3
  <1>6. /\ Append(q, x) \in Seq(Message) /\ Len(Append(q, x)) = Len(p)
        /\ \A i \in 1 .. Len(q) : Append(q, x)[i] = q[i]
        /\ Append(q, x)[Len(q) + 1] = x
    <2> HIDE DEF x
    <2>1. Append(q, x) \in Seq(Message) /\ Len(Append(q, x)) = Len(q) + 1
      BY <1>1, <1>4
    <2>2. \A i \in 1 .. Len(q) : Append(q, x)[i] = q[i]
      BY <1>1, <1>4
    <2>3. Append(q, x)[Len(q) + 1] = x
      BY <1>1, <1>4, AppendProperties
    <2> QED
      BY <1>3, <2>1, <2>2, <2>3
  <1>7. ASSUME NEW i \in 1 .. Len(p) PROVE p[i] = Append(q, x)[i]
    <2> HIDE DEF x
    <2>1. i \in 1 .. Len(q) \/ i = Len(q) + 1
      BY <1>1, <1>3
    <2>2. CASE i \in 1 .. Len(q)
      BY <1>5, <1>6, <2>2
    <2>3. CASE i = Len(q) + 1
      BY <1>6, <2>3 DEF x
    <2> QED
      BY <2>1, <2>2, <2>3
  <1> QED
    BY <1>3, <1>6, <1>7, SeqEqual

\* One more message passed is the front of the rest.
LEMMA RestTail ==
  ASSUME NEW p, NEW q, NEW w, NEW r, IsRest(q, w, r), IsRest(p, w, r + 1)
  PROVE  q # <<>> /\ Head(q) = w[r + 1] /\ p = Tail(q)
  <1>1. /\ w \in Seq(Message) /\ r \in Nat /\ Len(w) \in Nat
        /\ q \in Seq(Message) /\ Len(q) = Len(w) - r
        /\ \A i \in 1 .. Len(w) - r : q[i] = w[i + r]
    BY DEF IsRest
  <1>2. /\ p \in Seq(Message) /\ r + 1 <= Len(w) /\ Len(p) = Len(w) - (r + 1)
        /\ \A i \in 1 .. Len(w) - (r + 1) : p[i] = w[i + (r + 1)]
    BY DEF IsRest
  <1>3. q # <<>> /\ Len(q) >= 1 /\ 1 \in 1 .. Len(w) - r
    BY <1>1, <1>2
  <1>4. /\ Head(q) = q[1] /\ Tail(q) \in Seq(Message) /\ Len(Tail(q)) = Len(q) - 1
        /\ \A i \in 1 .. Len(q) - 1 : Tail(q)[i] = q[i + 1]
    BY <1>1, <1>3
  <1>5. Head(q) = w[r + 1]
    BY <1>1, <1>3, <1>4
  <1>6. Len(p) = Len(Tail(q)) /\ \A i \in 1 .. Len(p) : p[i] = Tail(q)[i]
    <2>1. Len(p) = Len(q) - 1
      BY <1>1, <1>2
    <2>2. ASSUME NEW i \in 1 .. Len(p) PROVE p[i] = Tail(q)[i]
      <3>1. i + 1 \in 1 .. Len(w) - r /\ (i + 1) + r = i + (r + 1) /\ i \in 1 .. Len(q) - 1
        BY <1>1, <1>2, <2>1
      <3> QED
        BY <1>1, <1>2, <1>4, <3>1
    <2> QED
      BY <1>4, <2>1, <2>2
  <1> QED
    BY <1>2, <1>3, <1>4, <1>5, <1>6, SeqEqual

\* In a session both ends are in, a queue is what its writer wrote beyond the
\* other end's handled ones.
QueueShape ==
  Together => \A e \in End :
    IsRest(Queue[e], hist[number["runner"]][e], Len(log[number["runner"]][Other(e)]))

\* The numbers of either end say so.
LEMMA QueueOfSession == IInv => QueueShape
  <1> SUFFICES ASSUME IInv, Together, NEW e \in End
               PROVE  IsRest(Queue[e], hist[number["runner"]][e],
                             Len(log[number["runner"]][Other(e)]))
    BY DEF QueueShape
  <1> DEFINE n == number["runner"]
             w == hist[n][e]
             r == Len(log[n][Other(e)])
             k == sess[e].kept
             c == sess[e].confirmed
             g == r - c
  <1>1. TypeOK /\ Other(e) \in End /\ n \in Sessions /\ n # None
        /\ \A d \in End : number[d] = n
    BY DEF IInv, TypeOK, Other, End, Together
  <1>2. w \in Seq(Message) /\ Len(w) \in Nat /\ r \in Nat
    BY <1>1, HistoryTypes
  <1>3. k \in Seq(Message) /\ c \in Nat
    BY <1>1 DEF TypeOK, SessionType
  <1>4. /\ c + Len(k) = Len(w) /\ \A i \in 1 .. Len(k) : k[i] = w[c + i]
        /\ sess[Other(e)].received = r /\ c <= r
    BY <1>1 DEF IInv, Ends, Tracks, Sent
  <1>5. r <= Len(w)
    <2>1. Other(Other(e)) = e
      BY DEF Other, End
    <2> QED
      BY <1>1, <2>1 DEF IInv, Logs
  <1>6. Queue[e] = SubSeq(k, g + 1, Len(k))
    BY <1>4 DEF Queue, Unhandled
  <1> HIDE DEF n, w, r, k, c
  <1>7. g \in Nat /\ g <= Len(k) /\ Len(k) \in Nat
    BY <1>2, <1>3, <1>4, <1>5
  <1> HIDE DEF g
  <1>8. /\ Queue[e] \in Seq(Message) /\ Len(Queue[e]) = Len(k) - g
        /\ \A i \in 1 .. Len(k) - g : Queue[e][i] = k[i + g]
    BY <1>3, <1>6, <1>7, Suffix
  <1>9. Len(k) - g = Len(w) - r
    BY <1>2, <1>3, <1>4, <1>7 DEF g
  <1>10. \A i \in 1 .. Len(w) - r : Queue[e][i] = w[i + r]
    <2> SUFFICES ASSUME NEW i \in 1 .. Len(w) - r PROVE Queue[e][i] = w[i + r]
      OBVIOUS
    <2>1. i + g \in 1 .. Len(k) /\ c + (i + g) = i + r
      BY <1>2, <1>3, <1>7, <1>9 DEF g
    <2> QED
      BY <1>4, <1>8, <1>9, <2>1
  <1> QED
    BY <1>2, <1>5, <1>8, <1>9, <1>10 DEF n, w, r, IsRest

\* The queue of an end neither of whose histories changed.
LEMMA SameQueue ==
  ASSUME QueueShape, QueueShape', Together, Together', number' = number, NEW e \in End,
         hist'[number["runner"]][e] = hist[number["runner"]][e],
         log'[number["runner"]][Other(e)] = log[number["runner"]][Other(e)]
  PROVE  Queue'[e] = Queue[e]
  <1>1. IsRest(Queue[e], hist[number["runner"]][e], Len(log[number["runner"]][Other(e)]))
    BY DEF QueueShape
  <1>2. IsRest(Queue'[e], hist'[number'["runner"]][e], Len(log'[number'["runner"]][Other(e)]))
    BY DEF QueueShape
  <1> QED
    BY <1>1, <1>2, RestSame

\* A step that neither writes, nor handles, nor ends a session is seen by nobody.
LEMMA QuietRefines ==
  ASSUME QueueShape, QueueShape', UNCHANGED <<number, hist, log>>
  PROVE  UNCHANGED <<Shared, Queue, Given>>
  <1>1. Together' = Together /\ Shared' = Shared /\ Given' = Given
    BY DEF Together, Shared, Given, Bodies
  <1>2. CASE ~Together
    BY <1>1, <1>2 DEF Queue
  <1>3. CASE Together
    <2>1. \A e \in End : Queue'[e] = Queue[e]
      BY <1>1, <1>3, SameQueue
    <2>2. Queue = [e \in End |-> Queue[e]] /\ Queue' = [e \in End |-> Queue'[e]]
      BY DEF Queue
    <2> QED
      BY <1>1, <2>1, <2>2
  <1> QED
    BY <1>2, <1>3

\* A message that is numbered joins the end of its writer's queue.
LEMMA StampRefines ==
  ASSUME QueueShape, QueueShape', TypeOK, NEW e \in End, NEW m \in Message, Stamp(e, m),
         UNCHANGED <<number, log>>
  PROVE  D!Next \/ UNCHANGED <<Shared, Queue, Given>>
  <1>0. Together' = Together /\ Shared' = Shared /\ Given' = Given
    BY DEF Together, Shared, Given, Bodies
  <1>1. CASE ~Together
    BY <1>0, <1>1 DEF Queue
  <1>2. CASE Together
    <2> DEFINE n == number["runner"]
               w == hist[n][e]
               r == Len(log[n][Other(e)])
    <2>1. n \in Sessions /\ number[e] = n /\ n # None
      BY <1>2 DEF Together, End, TypeOK
    <2>2. /\ hist'[n][e] = Append(w, m)
          /\ \A d \in End : d # e => hist'[n][d] = hist[n][d]
      BY <2>1 DEF Stamp, TypeOK
    <2>3. \A d \in End : d # e => Queue'[d] = Queue[d]
      BY <1>0, <1>2, <2>2, SameQueue
    <2>4. IsRest(Queue[e], w, r)
      BY <1>2 DEF QueueShape
    <2>5. IsRest(Queue'[e], hist'[n][e], Len(log'[n][Other(e)]))
      BY <1>0, <1>2 DEF QueueShape
    <2>6. IsRest(Queue'[e], Append(w, m), r)
      BY <2>2, <2>5
    <2> HIDE DEF w, r
    <2>7. /\ Len(Queue'[e]) = Len(Queue[e]) + 1
          /\ Queue'[e] = Append(Queue[e], Queue'[e][Len(Queue[e]) + 1])
      BY <2>4, <2>6, RestAppend
    <2> DEFINE x == Queue'[e][Len(Queue[e]) + 1]
    <2>8. Queue' = [Queue EXCEPT ![e] = Append(@, x)]
      <3>1. Queue'[e] = Append(Queue[e], x)
        BY <2>7
      <3> HIDE DEF x
      <3>2. Queue' = [d \in End |-> Queue'[d]] /\ Queue = [d \in End |-> Queue[d]]
        BY DEF Queue
      <3> QED
        BY <2>3, <3>1, <3>2
    <2>9. Shared # 0
      BY <1>2 DEF Shared, Together, None
    <2>10. D!Write(e)
      BY <1>0, <2>7, <2>8, <2>9 DEF D!Write
    <2> QED
      BY <2>10 DEF D!Next
  <1> QED
    BY <1>1, <1>2

\* What an end handles is the front of the other's queue, or nothing in its
\* turn.
LEMMA HandleRefines ==
  ASSUME QueueShape, QueueShape', TypeOK, NEW d \in End, NEW x \in Entry,
         Carried(x.body, Len(log[number[d]][d]) + 1, hist[number[d]][Other(d)], x.conn),
         log' = [log EXCEPT ![number[d]][d] = Append(log[number[d]][d], x)],
         UNCHANGED <<number, hist>>
  PROVE  D!Next \/ UNCHANGED <<Shared, Queue, Given>>
  <1>0. Together' = Together /\ Shared' = Shared
    BY DEF Together, Shared
  <1>1. CASE ~Together
    BY <1>0, <1>1 DEF Queue, Given
  <1>2. CASE Together
    <2>1. PICK e \in End : e = Other(d) /\ e # d /\ Other(e) = d /\ \A f \in End : f # e => f = d
      BY DEF End, Other
    <2> DEFINE n == number["runner"]
               w == hist[n][e]
               l == log[n][d]
               r == Len(l)
    <2>2. n \in Sessions /\ number[d] = n /\ n # None /\ \A f \in End : number[f] = n
      BY <1>2 DEF Together, End, TypeOK
    <2>3. l \in Seq(Entry)
      BY <2>2, HistoryTypes
    <2>4. log'[n][d] = Append(l, x) /\ \A f \in End : f # d => log'[n][f] = log[n][f]
      BY <2>2 DEF TypeOK
    <2>5. Queue'[d] = Queue[d]
      BY <1>0, <1>2, <2>1, <2>4, SameQueue
    <2>6. IsRest(Queue[e], w, r)
      BY <1>2, <2>1 DEF QueueShape
    <2>7. IsRest(Queue'[e], hist'[n][e], Len(log'[n][d]))
      BY <1>0, <1>2, <2>1 DEF QueueShape
    <2>8. Len(log'[n][d]) = r + 1
      BY <2>3, <2>4
    <2>9. IsRest(Queue'[e], w, r + 1)
      BY <2>7, <2>8
    <2>10. x.body = w[r + 1] \/ (x.body = Nothing /\ ~w[r + 1].again)
      BY <2>1, <2>2 DEF Carried
    <2>11. Given' = [Given EXCEPT ![d] = Append(@, x.body)]
      <3>1. Bodies(Append(l, x)) = Append(Bodies(l), x.body)
        BY <2>3 DEF Bodies
      <3>2. Given'[d] = Append(Given[d], x.body)
        BY <1>0, <1>2, <2>2, <2>4, <3>1 DEF Given
      <3>3. \A f \in End : f # d => Given'[f] = Given[f]
        BY <1>0, <1>2, <2>2, <2>4 DEF Given
      <3>4. Given' = [f \in End |-> Given'[f]] /\ Given = [f \in End |-> Given[f]]
        BY DEF Given
      <3> QED
        BY <3>2, <3>3, <3>4
    <2> HIDE DEF w, r
    <2>12. Queue[e] # <<>> /\ Head(Queue[e]) = w[r + 1] /\ Queue'[e] = Tail(Queue[e])
      BY <2>6, <2>9, RestTail
    <2>13. Queue' = [Queue EXCEPT ![e] = Tail(@)]
      <3>1. Queue' = [f \in End |-> Queue'[f]] /\ Queue = [f \in End |-> Queue[f]]
        BY DEF Queue
      <3> QED
        BY <2>1, <2>5, <2>12, <3>1
    <2>14. D!Handle(e, d)
      BY <1>0, <2>1, <2>10, <2>11, <2>12, <2>13 DEF D!Handle
    <2> QED
      BY <2>14 DEF D!Next
  <1> QED
    BY <1>1, <1>2

\* An end that leaves the session ends it for both, and one that enters it finds
\* nothing handled and nothing of its own in it.
LEMMA NumberRefines ==
  ASSUME QueueShape, QueueShape', UNCHANGED <<hist, log>>,
         Together /\ Together' => number' = number,
         ~Together /\ Together' =>
           /\ hist[number'["runner"]]["runner"] = <<>>
           /\ \A e \in End : log[number'["runner"]][e] = <<>>
  PROVE  D!Next \/ UNCHANGED <<Shared, Queue, Given>>
  <1>1. CASE Together /\ Together'
    BY <1>1, QuietRefines
  <1>2. CASE ~Together /\ ~Together'
    BY <1>2 DEF Shared, Queue, Given
  <1>3. CASE Together /\ ~Together'
    <2>1. Shared # 0 /\ Shared' = 0
      BY <1>3 DEF Shared, Together, None
    <2>2. Queue' = [e \in End |-> <<>>] /\ Given' = [e \in End |-> <<>>]
      BY <1>3 DEF Queue, Given
    <2> QED
      BY <2>1, <2>2 DEF D!Next, D!Part, D!Empty
  <1>4. CASE ~Together /\ Together'
    <2> DEFINE n == number'["runner"]
    <2>1. Shared = 0 /\ Shared' # 0
      BY <1>4 DEF Shared, Together, None
    <2>2. \A e \in End : number'[e] = n /\ log'[n][e] = <<>>
      BY <1>4 DEF Together, End
    <2>3. Given' = [e \in End |-> <<>>]
      BY <1>4, <2>2 DEF Given, Bodies
    <2>4. Queue'["runner"] = <<>>
      <3>1. "runner" \in End /\ Other("runner") \in End /\ hist'[n]["runner"] = <<>>
            /\ log'[n][Other("runner")] = <<>>
        BY <1>4, <2>2 DEF End, Other
      <3>2. IsRest(Queue'["runner"], <<>>, Len(<<>>))
        BY <1>4, <3>1 DEF QueueShape
      <3>3. IsRest(<<>>, <<>>, Len(<<>>))
        BY DEF IsRest
      <3> QED
        BY <3>2, <3>3, RestSame
    <2> QED
      BY <2>1, <2>3, <2>4 DEF D!Next, D!Join, D!Empty
  <1> QED
    BY <1>1, <1>2, <1>3, <1>4
\* At first the ends share nothing.
LEMMA RefinesInit == Init => D!Init
  <1> SUFFICES ASSUME Init PROVE D!Init
    OBVIOUS
  <1>1. ~Together
    BY DEF Init, Together, End
  <1> QED
    BY <1>1 DEF D!Init, D!Empty, Shared, Queue, Given, None

\* The answer to a hello names the session the runner is in, or one in which it
\* neither wrote nor handled anything, nor the backend handled.
LEMMA ReadWelcomeRefines ==
  ASSUME IInv, QueueShape, QueueShape', ReadWelcome
  PROVE  D!Next \/ UNCHANGED <<Shared, Queue, Given>>
  <1> DEFINE w == Head(down)
             n == w.session
  <1>0. /\ phase = "waiting" /\ down # <<>> /\ HelloOk(n, w.received)
        /\ UNCHANGED <<hist, log>>
    BY DEF ReadWelcome, ghostVars
  <1>1. /\ TypeOK /\ number \in [End -> Sessions] /\ down \in Seq(Frame \cup Welcome)
        /\ w.kind = "hello_ok"
    BY DEF IInv, TypeOK, ReadWelcome
  <1>2. n \in Sessions
    <2>1. w \in Frame \cup Welcome
      BY <1>0, <1>1
    <2> HIDE DEF w
    <2> QED
      BY <1>1, <2>1 DEF Frame, Welcome
  <1>3. /\ n # None
        /\ n # number["runner"] => hist[n]["runner"] = <<>> /\ log[n]["runner"] = <<>>
    BY <1>0 DEF IInv, Welcomes
  <1>4. number' = [number EXCEPT !["runner"] = n]
    BY <1>0 DEF HelloOk
  <1> HIDE DEF n, w
  <1>5. number'["runner"] = n /\ number'["backend"] = number["backend"]
    BY <1>1, <1>4 DEF End
  <1>6. n = number["runner"] => number' = number
    BY <1>1, <1>4
  <1>7. Together /\ Together' => number' = number
    BY <1>5, <1>6 DEF Together
  <1>8. ASSUME ~Together, Together'
        PROVE  /\ hist[number'["runner"]]["runner"] = <<>>
               /\ \A e \in End : log[number'["runner"]][e] = <<>>
    <2>1. n # number["runner"]
      BY <1>3, <1>5, <1>8 DEF Together
    <2>2. /\ "backend" \in End /\ "runner" \in End /\ Other("backend") = "runner"
          /\ \A e \in End : e = "runner" \/ e = "backend"
      BY DEF End, Other
    <2>3. Len(log[n]["backend"]) <= Len(hist[n]["runner"])
      BY <1>2, <2>2 DEF IInv, Logs
    <2>4. log[n]["backend"] \in Seq(Entry)
      BY <1>1, <1>2, <2>2, HistoryTypes
    <2>5. hist[n]["runner"] = <<>> /\ log[n]["runner"] = <<>>
      BY <1>3, <2>1
    <2>6. log[n]["backend"] = <<>>
      BY <2>3, <2>4, <2>5
    <2> QED
      BY <1>5, <2>2, <2>5, <2>6
  <1> QED
    BY <1>0, <1>7, <1>8, NumberRefines

\* A session the backend begins anew is one the runner is not in.
LEMMA AdoptRefines ==
  ASSUME IInv, QueueShape, QueueShape', NEW h \in pending, Adopt(h)
  PROVE  D!Next \/ UNCHANGED <<Shared, Queue, Given>>
  <1>0. Begin(h) /\ UNCHANGED <<hist, log>>
    BY DEF Adopt, ghostVars
  <1>1. CASE Resumes(h)
    BY <1>0, <1>1, QuietRefines DEF Begin
  <1>2. CASE ~Resumes(h)
    <2>1. /\ number \in [End -> Sessions] /\ drawn \in Nat /\ number["runner"] \in Nat
          /\ number["runner"] <= drawn
      BY LinkBounds DEF IInv, TypeOK, Numbers, Sessions, End
    <2>2. number' = [number EXCEPT !["backend"] = drawn + 1]
      BY <1>0, <1>2 DEF Begin
    <2>3. number'["backend"] = drawn + 1 /\ number'["runner"] = number["runner"]
      BY <2>1, <2>2 DEF End
    <2>4. ~Together'
      BY <2>1, <2>3 DEF Together
    <2> QED
      BY <1>0, <2>4, NumberRefines
  <1> QED
    BY <1>1, <1>2

\* The owner's oldest arrival is the next message of the backend.
LEMMA RunnerHandlesRefines ==
  ASSUME IInv, QueueShape, QueueShape', RunnerHandles
  PROVE  D!Next \/ UNCHANGED <<Shared, Queue, Given>>
  <1>0. /\ TypeOK /\ inbox \in Seq(Arrival) /\ inbox # <<>> /\ UNCHANGED <<number, hist>>
        /\ "runner" \in End /\ Other("runner") = "backend" /\ conn \in Conns
    BY DEF IInv, TypeOK, RunnerHandles, End, Other
  <1>1. CASE Head(inbox).kind = "welcome"
    BY <1>0, <1>1, QuietRefines DEF RunnerHandles
  <1>2. CASE Head(inbox).kind # "welcome"
    <2> DEFINE n == number["runner"]
               x == [body |-> Head(inbox).body, conn |-> conn]
    <2>1. log' = [log EXCEPT ![n]["runner"] = Append(log[n]["runner"], x)]
      BY <1>2 DEF RunnerHandles
    <2>2. Head(inbox) = inbox[1] /\ inbox[1] \in Arrival /\ 1 \in 1 .. Len(inbox)
      BY <1>0
    <2>3. x \in Entry
      BY <1>0, <2>2 DEF Arrival, Entry
    <2>4. Welcomed = 0
      BY <1>2, <2>2 DEF Welcomed
    <2>5. n # None /\ n \in Sessions
      BY <1>0 DEF IInv, Numbers, TypeOK
    <2>6. sess["runner"].received = Len(log[n]["runner"]) /\ Len(log[n]["runner"]) \in Nat
      BY <1>0, <2>5, HistoryTypes DEF IInv, Ends
    <2>7. Carried(inbox[1].body, sess["runner"].received + 1 - Welcomed, hist[n]["backend"], conn)
      BY <2>2, <2>4 DEF IInv, Inboxes
    <2>8. sess["runner"].received + 1 - Welcomed = Len(log[n]["runner"]) + 1
      BY <2>4, <2>6
    <2>9. Carried(x.body, Len(log[n]["runner"]) + 1, hist[n][Other("runner")], x.conn)
      BY <1>0, <2>2, <2>7, <2>8
    <2> HIDE DEF x
    <2> QED
      BY <1>0, <2>1, <2>3, <2>9, HandleRefines
  <1> QED
    BY <1>1, <1>2

\* The frame the driver takes is the next message of the runner.
LEMMA BackendReadsRefines ==
  ASSUME IInv, QueueShape, QueueShape', BackendReads
  PROVE  D!Next \/ UNCHANGED <<Shared, Queue, Given>>
  <1> DEFINE n == number["backend"]
             s == sess["backend"]
             f == Head(up)
             v == Verdict(s, f)
             x == [body |-> f.body, conn |-> held]
  <1>0. /\ TypeOK /\ up \in Seq(Frame) /\ up # <<>> /\ held # None /\ UNCHANGED <<number, hist>>
        /\ "backend" \in End /\ Other("backend") = "runner" /\ held \in Conns
    BY DEF IInv, TypeOK, BackendReads, End, Other
  <1>1. CASE v \notin {"message", "skipped"}
    BY <1>0, <1>1, QuietRefines DEF BackendReads
  <1>2. CASE v \in {"message", "skipped"}
    <2>1. log' = [log EXCEPT ![n]["backend"] = Append(log[n]["backend"], x)]
      BY <1>2 DEF BackendReads
    <2>2. f = up[1] /\ f \in Frame /\ 1 \in 1 .. Len(up)
      BY <1>0
    <2>3. x \in Entry
      <3> HIDE DEF f
      <3> QED
        BY <1>0, <2>2 DEF Frame, Entry
    <2>4. n # None /\ n \in Sessions
      BY <1>0 DEF IInv, Numbers, TypeOK
    <2>5. /\ s.received = Len(log[n]["backend"]) /\ Len(log[n]["backend"]) \in Nat
          /\ s.next = s.received
      BY <1>0, <2>4, HistoryTypes DEF IInv, Ends
    <2>6. FrameOf(f, n, "runner", held)
      BY <2>2 DEF IInv, Wires
    <2>7. s.next \in Nat /\ f.seq \in Nat /\ f.kind \in {"numbered", "ack"}
      <3>1. s \in SessionType
        BY <1>0 DEF TypeOK
      <3> HIDE DEF f, s
      <3> QED
        BY <2>2, <3>1 DEF SessionType, Frame
    <2> HIDE DEF f, s, n
    <2>8. f.seq = s.next /\ f.kind = "numbered"
      BY <1>2, <2>7 DEF Verdict
    <2>9. Carried(f.body, f.seq + 1, hist[n]["runner"], held)
      BY <2>6, <2>8 DEF FrameOf
    <2>10. Carried(x.body, Len(log[n]["backend"]) + 1, hist[n][Other("backend")], x.conn)
      BY <1>0, <2>5, <2>8, <2>9
    <2> HIDE DEF x
    <2> QED
      BY <1>0, <2>1, <2>3, <2>10, HandleRefines DEF n
  <1> QED
    BY <1>1, <1>2
\* Every step of the link is a step of the queues, or one they do not see.
LEMMA RefinesStep ==
  IInv /\ QueueShape /\ QueueShape' /\ [Next]_vars
    => D!Next \/ UNCHANGED <<Shared, Queue, Given>>
  <1> SUFFICES ASSUME IInv, QueueShape, QueueShape', [Next]_vars
               PROVE  D!Next \/ UNCHANGED <<Shared, Queue, Given>>
    OBVIOUS
  <1>0. TypeOK /\ "runner" \in End
    BY DEF IInv, End
  <1> USE DEF runnerVars, backendVars, ghostVars
  <1>1. CASE UNCHANGED <<number, hist, log>>
    BY <1>1, QuietRefines
  <1>2. ASSUME NEW e \in End, \E again \in BOOLEAN : Send(e, again)
        PROVE  D!Next \/ UNCHANGED <<Shared, Queue, Given>>
    <2>1. PICK again \in BOOLEAN : Send(e, again)
      BY <1>2
    <2>2. number[e] \in Sessions
      BY <1>0 DEF TypeOK
    <2>3. Stamp(e, NewMessage(e, again, number[e])) /\ UNCHANGED <<number, log>>
      BY <2>1 DEF Send, StampAndPut
    <2>4. NewMessage(e, again, number[e]) \in Message
      BY <1>0, <2>2, <2>3, StampTypes
    <2> QED
      BY <1>0, <2>3, <2>4, StampRefines
  <1>3. ASSUME NEW e \in End, SendBacklog(e)
        PROVE  D!Next \/ UNCHANGED <<Shared, Queue, Given>>
    <2>1. Head(backlog[e]) \in Sessions
      <3>1. backlog[e] \in Seq(Sessions) /\ backlog[e] # <<>>
        BY <1>0, <1>3 DEF TypeOK, SendBacklog
      <3> QED
        BY <3>1
    <2>2. Stamp(e, NewMessage(e, TRUE, Head(backlog[e]))) /\ UNCHANGED <<number, log>>
      BY <1>3 DEF SendBacklog, StampAndPut
    <2>3. NewMessage(e, TRUE, Head(backlog[e])) \in Message
      BY <1>0, <2>1, <2>2, StampTypes
    <2> QED
      BY <1>0, <2>2, <2>3, StampRefines
  <1>4. ASSUME NEW e \in End, Push(e) \/ Resend(e) \/ ResendDone(e) \/ WriteAck(e)
        PROVE  UNCHANGED <<number, hist, log>>
    BY <1>4 DEF Push, Resend, ResendDone, WriteAck
  <1>5. CASE Connect \/ SayHello \/ Open \/ RunnerReads \/ RunnerNotices \/ RunnerLoses
    BY <1>1, <1>5 DEF Connect, SayHello, Open, RunnerReads, RunnerNotices, RunnerLoses
  <1>6. CASE ReadWelcome
    BY <1>6, ReadWelcomeRefines
  <1>7. CASE RunnerHandles
    BY <1>7, RunnerHandlesRefines
  <1>8. ASSUME NEW h \in pending, Adopt(h)
        PROVE  D!Next \/ UNCHANGED <<Shared, Queue, Given>>
    BY <1>8, AdoptRefines
  <1>9. ASSUME NEW h \in pending, GiveWay(h) \/ ProbeMissed(h) \/ Refuse(h) \/ Forget(h)
        PROVE  UNCHANGED <<number, hist, log>>
    BY <1>9 DEF GiveWay, ProbeMissed, Refuse, Forget
  <1>10. CASE BackendReads
    BY <1>10, BackendReadsRefines
  <1>11. CASE BackendNotices \/ BackendLoses
    BY <1>1, <1>11 DEF BackendNotices, BackendLoses
  <1>12. ASSUME NEW q \in BOOLEAN, OwnerFails(q)
         PROVE  D!Next \/ UNCHANGED <<Shared, Queue, Given>>
    <2> DEFINE m == NewMessage("runner", TRUE, number["runner"])
    <2>1. CASE q
      <3>1. Stamp("runner", m) /\ UNCHANGED <<number, log>>
        BY <1>12, <2>1 DEF OwnerFails
      <3>2. m \in Message
        BY <1>0, <3>1, StampTypes DEF TypeOK
      <3> HIDE DEF m
      <3> QED
        BY <1>0, <3>1, <3>2, StampRefines
    <2>2. CASE ~q
      BY <1>1, <1>12, <2>2 DEF OwnerFails
    <2> QED
      BY <2>1, <2>2
  <1>13. CASE RunnerRestarts \/ BackendRestarts
    <2>1. UNCHANGED <<hist, log>> /\ ~Together'
      BY <1>0, <1>13 DEF RunnerRestarts, BackendRestarts, Together, TypeOK, End
    <2> QED
      BY <2>1, NumberRefines
  <1>14. CASE UNCHANGED vars
    BY <1>1, <1>14 DEF vars
  <1> QED
    BY <1>1, <1>2, <1>3, <1>4, <1>5, <1>6, <1>7, <1>8, <1>9, <1>10, <1>11, <1>12, <1>13, <1>14
       DEF Next, Traffic, Runner, Backend, Adoption, Faults

\* Over any number of connections, faults and sessions the link is, for its two
\* ends, one queue in each direction that ends as a whole.
THEOREM LinkDelivers == Spec => Delivers
  <1>1. IInv /\ IInv' => QueueShape /\ QueueShape'
    BY QueueOfSession, PTL
  <1>2. IInv /\ IInv' /\ [Next]_vars => [D!Next]_<<Shared, Queue, Given>>
    BY <1>1, RefinesStep
  <1> QED
    BY <1>2, RefinesInit, Invariance, PTL DEF Spec, Delivers, D!Spec, D!vars

-----------------------------------------------------------------------------
(* What follows what on a connection.                                      *)

\* Frames fs are in turn for a reader that expects message from and released
\* low: each numbered one is the next, the one after them is to, and no frame
\* confirms less than one before it.
Flow(fs, from, to, low) ==
  /\ \E at \in [1 .. Len(fs) + 1 -> Nat] :
       /\ at[1] = from /\ at[Len(fs) + 1] = to
       /\ \A i, j \in 1 .. Len(fs) + 1 : i <= j => at[i] <= at[j]
       /\ \A i \in 1 .. Len(fs) :
            IF fs[i].kind = "numbered"
              THEN fs[i].seq = at[i] /\ at[i + 1] = at[i] + 1
              ELSE at[i + 1] = at[i]
  /\ \A i \in 1 .. Len(fs) : low <= fs[i].ack /\ \A j \in i .. Len(fs) : fs[i].ack <= fs[j].ack

\* The number of the next message that e writes to its connection.
Replaying(e) == IF e = "runner" THEN phase # "open" ELSE replaying
Position(e) ==
  sess[e].confirmed + IF Replaying(e) THEN sess[e].cursor ELSE Len(sess[e].kept)

\* The frames behind a welcome under way are read in the session it names.
Carries == Head(down).session = number["runner"]
Numbering == IF phase = "waiting" THEN Tail(down) ELSE down
DownFrom ==
  IF phase # "waiting" THEN sess["runner"].next
  ELSE IF Carries THEN sess["runner"].received ELSE 0
DownLow ==
  IF phase # "waiting" THEN sess["runner"].confirmed
  ELSE IF Carries THEN Head(down).received ELSE 0

Downs ==
  (Reading \/ (phase = "waiting" /\ down # <<>>)) =>
    \E to \in Nat :
      /\ Flow(Numbering, DownFrom, to, DownLow)
      /\ held = conn => to = Position("backend")

Ups ==
  (held = conn /\ Reading) =>
    Flow(up, sess["backend"].next, Position("runner"), sess["backend"].confirmed)

\* A hello and its welcome say what their ends still are at.
Greetings ==
  phase = "waiting" =>
    /\ \A h \in pending : h.conn = conn => h.received = sess["runner"].received
    /\ held = conn => up = <<>> /\ Head(down).received = sess["backend"].received

Cursors == \A e \in End : sess[e].cursor <= Len(sess[e].kept)

Flows == Downs /\ Ups /\ Greetings /\ Cursors

\* A connection that carries nothing leaves its ends at one number.
LEMMA FlowEmpty ==
  ASSUME NEW p \in Nat, NEW low
  PROVE  Flow(<<>>, p, p, low)
  <1> DEFINE at == [i \in 1 .. 1 |-> p]
  <1>1. at \in [1 .. 1 -> Nat] /\ at[1] = p
    OBVIOUS
  <1>2. Len(<<>>) = 0 /\ 1 .. 0 = {} /\ 0 + 1 = 1
    OBVIOUS
  <1>3. \A i, j \in 1 .. 1 : at[i] <= at[j]
    BY <1>1
  <1> HIDE DEF at
  <1> QED
    BY <1>1, <1>2, <1>3 DEF Flow

\* One more frame, with the next number and all that was handled.
LEMMA FlowAppend ==
  ASSUME NEW fs \in Seq(Frame), NEW f \in Frame, NEW from, NEW to, NEW low \in Nat,
         Flow(fs, from, to, low), f.kind = "numbered" => f.seq = to,
         low <= f.ack, \A i \in 1 .. Len(fs) : fs[i].ack <= f.ack
  PROVE  Flow(Append(fs, f), from, IF f.kind = "numbered" THEN to + 1 ELSE to, low)
  <1> DEFINE n == Len(fs)
             more == Append(fs, f)
             last == IF f.kind = "numbered" THEN to + 1 ELSE to
  <1>1. PICK at \in [1 .. n + 1 -> Nat] :
          /\ at[1] = from /\ at[n + 1] = to
          /\ \A i, j \in 1 .. n + 1 : i <= j => at[i] <= at[j]
          /\ \A i \in 1 .. n :
               IF fs[i].kind = "numbered"
                 THEN fs[i].seq = at[i] /\ at[i + 1] = at[i] + 1
                 ELSE at[i + 1] = at[i]
    BY DEF Flow
  <1>2. /\ n \in Nat /\ Len(more) = n + 1 /\ more[n + 1] = f
        /\ \A i \in 1 .. n : more[i] = fs[i]
    BY AppendProperties
  <1>3. to \in Nat /\ last \in Nat /\ to <= last
    BY <1>1, <1>2
  <1>4. f.ack \in Nat
    BY DEF Frame
  <1> DEFINE go == [i \in 1 .. n + 1 + 1 |-> IF i = n + 1 + 1 THEN last ELSE at[i]]
  <1>5. go \in [1 .. n + 1 + 1 -> Nat]
    BY <1>2, <1>3
  <1>6. go[n + 1 + 1] = last /\ \A i \in 1 .. n + 1 : go[i] = at[i]
    BY <1>2
  <1> HIDE DEF go, more, last
  <1>7. go[1] = from
    BY <1>1, <1>2, <1>6
  <1>8. \A i, j \in 1 .. n + 1 + 1 : i <= j => go[i] <= go[j]
    <2> SUFFICES ASSUME NEW i \in 1 .. n + 1 + 1, NEW j \in 1 .. n + 1 + 1, i <= j
                 PROVE  go[i] <= go[j]
      OBVIOUS
    <2>1. CASE j \in 1 .. n + 1
      BY <1>1, <1>2, <1>6, <2>1
    <2>2. CASE j = n + 1 + 1 /\ i \in 1 .. n + 1
      <3>1. at[i] <= at[n + 1] /\ go[i] = at[i] /\ go[j] = last /\ at[i] \in Nat
        BY <1>1, <1>2, <1>6, <2>2
      <3> QED
        BY <1>1, <1>3, <3>1
    <2>3. CASE j = n + 1 + 1 /\ i = n + 1 + 1
      BY <1>3, <1>6, <2>3
    <2> QED
      BY <1>2, <2>1, <2>2, <2>3
  <1>9. ASSUME NEW i \in 1 .. n + 1
        PROVE  IF more[i].kind = "numbered"
                 THEN more[i].seq = go[i] /\ go[i + 1] = go[i] + 1
                 ELSE go[i + 1] = go[i]
    <2>1. CASE i \in 1 .. n
      <3>1. i + 1 \in 1 .. n + 1 /\ i \in 1 .. n + 1
        BY <1>2, <2>1
      <3> QED
        BY <1>1, <1>2, <1>6, <2>1, <3>1
    <2>2. CASE i = n + 1
      BY <1>1, <1>2, <1>3, <1>6, <2>2 DEF last
    <2> QED
      BY <1>2, <2>1, <2>2
  <1>10. ASSUME NEW i \in 1 .. n + 1
         PROVE  low <= more[i].ack /\ \A j \in i .. n + 1 : more[i].ack <= more[j].ack
    <2>1. CASE i \in 1 .. n
      <3>1. more[i] = fs[i] /\ low <= fs[i].ack /\ fs[i].ack <= f.ack
        BY <1>2, <2>1 DEF Flow
      <3>2. \A j \in i .. n : more[j] = fs[j] /\ fs[i].ack <= fs[j].ack
        BY <1>2, <2>1 DEF Flow
      <3> QED
        BY <1>2, <2>1, <3>1, <3>2
    <2>2. CASE i = n + 1
      BY <1>2, <1>4, <2>2
    <2> QED
      BY <1>2, <2>1, <2>2
  <1>11. Flow(more, from, last, low)
    BY <1>2, <1>5, <1>6, <1>7, <1>8, <1>9, <1>10 DEF Flow
  <1> QED
    BY <1>11 DEF more, last

\* The front is the reader's next, and what it confirms bounds what follows.
LEMMA FlowTail ==
  ASSUME NEW fs \in Seq(Frame), fs # <<>>, NEW from, NEW to, NEW low, Flow(fs, from, to, low)
  PROVE  LET f == Head(fs)
             next == IF f.kind = "numbered" THEN from + 1 ELSE from
         IN  /\ low <= f.ack /\ (f.kind = "numbered" => f.seq = from)
             /\ from \in Nat /\ to \in Nat /\ from <= to
             /\ Flow(Tail(fs), next, to, f.ack)
  <1> DEFINE n == Len(fs)
             f == Head(fs)
             less == Tail(fs)
             next == IF f.kind = "numbered" THEN from + 1 ELSE from
  <1>1. PICK at \in [1 .. n + 1 -> Nat] :
          /\ at[1] = from /\ at[n + 1] = to
          /\ \A i, j \in 1 .. n + 1 : i <= j => at[i] <= at[j]
          /\ \A i \in 1 .. n :
               IF fs[i].kind = "numbered"
                 THEN fs[i].seq = at[i] /\ at[i + 1] = at[i] + 1
                 ELSE at[i + 1] = at[i]
    BY DEF Flow
  <1>2. /\ n \in Nat /\ n >= 1 /\ f = fs[1] /\ less \in Seq(Frame) /\ Len(less) = n - 1
        /\ \A i \in 1 .. n - 1 : less[i] = fs[i + 1]
    OBVIOUS
  <1> HIDE DEF less, f
  <1>3. /\ 1 \in 1 .. n /\ 1 \in 1 .. n + 1 /\ n + 1 \in 1 .. n + 1 /\ 1 <= n + 1
        /\ (n - 1) + 1 = n /\ 1 + 1 \in 1 .. n + 1
    BY <1>2
  <1>4. from \in Nat /\ to \in Nat /\ from <= to
    BY <1>1, <1>3
  <1>5. at[1 + 1] = next /\ (f.kind = "numbered" => f.seq = from)
    BY <1>1, <1>2, <1>3
  <1>6. low <= f.ack /\ \A j \in 1 .. n : f.ack <= fs[j].ack
    BY <1>2, <1>3 DEF Flow
  <1> DEFINE go == [i \in 1 .. n |-> at[i + 1]]
  <1>7. go \in [1 .. n -> Nat]
    BY <1>2
  <1>8. \A i \in 1 .. n : go[i] = at[i + 1] /\ i + 1 \in 1 .. n + 1
    BY <1>2
  <1> HIDE DEF go
  <1>9. go[1] = next /\ go[n] = to
    BY <1>1, <1>2, <1>3, <1>5, <1>8
  <1>10. \A i, j \in 1 .. n : i <= j => go[i] <= go[j]
    <2> SUFFICES ASSUME NEW i \in 1 .. n, NEW j \in 1 .. n, i <= j PROVE go[i] <= go[j]
      OBVIOUS
    <2>1. i + 1 \in 1 .. n + 1 /\ j + 1 \in 1 .. n + 1 /\ i + 1 <= j + 1
      BY <1>2
    <2> QED
      BY <1>1, <1>8, <2>1
  <1>11. ASSUME NEW i \in 1 .. n - 1
         PROVE  IF less[i].kind = "numbered"
                  THEN less[i].seq = go[i] /\ go[i + 1] = go[i] + 1
                  ELSE go[i + 1] = go[i]
    <2>1. i \in 1 .. n /\ i + 1 \in 1 .. n /\ less[i] = fs[i + 1]
      BY <1>2
    <2> QED
      BY <1>1, <1>8, <2>1
  <1>12. ASSUME NEW i \in 1 .. n - 1
         PROVE  f.ack <= less[i].ack /\ \A j \in i .. n - 1 : less[i].ack <= less[j].ack
    <2>1. i + 1 \in 1 .. n /\ less[i] = fs[i + 1]
      BY <1>2
    <2>2. \A j \in i .. n - 1 : less[j] = fs[j + 1] /\ j + 1 \in (i + 1) .. n
      BY <1>2
    <2>3. \A j \in (i + 1) .. n : fs[i + 1].ack <= fs[j].ack
      BY <2>1 DEF Flow
    <2> QED
      BY <1>6, <2>1, <2>2, <2>3
  <1>13. Flow(less, next, to, f.ack)
    BY <1>2, <1>3, <1>7, <1>9, <1>10, <1>11, <1>12 DEF Flow
  <1> QED
    BY <1>4, <1>5, <1>6, <1>13 DEF f, less

\* The reader's next number is no further than the writer's.
LEMMA FlowBounds ==
  ASSUME NEW fs \in Seq(Frame), NEW from, NEW to, NEW low, Flow(fs, from, to, low)
  PROVE  from <= to
  <1>1. PICK at \in [1 .. Len(fs) + 1 -> Nat] :
          /\ at[1] = from /\ at[Len(fs) + 1] = to
          /\ \A i, j \in 1 .. Len(fs) + 1 : i <= j => at[i] <= at[j]
    BY DEF Flow
  <1>2. Len(fs) \in Nat /\ 1 \in 1 .. Len(fs) + 1 /\ Len(fs) + 1 \in 1 .. Len(fs) + 1 /\ 1 <= Len(fs) + 1
    OBVIOUS
  <1> QED
    BY <1>1, <1>2

\* A release moves the cursor with the front, and no further back than that.
LEMMA ReleasedCursor ==
  ASSUME NEW s \in SessionType, NEW n \in Nat, Accepts(s, n), s.cursor <= Len(s.kept)
  PROVE  /\ Released(s, n).cursor <= Len(Released(s, n).kept)
         /\ n + Len(Released(s, n).kept) = s.confirmed + Len(s.kept)
         /\ n <= s.confirmed + s.cursor =>
              n + Released(s, n).cursor = s.confirmed + s.cursor
  <1> DEFINE c == IF s.cursor < n - s.confirmed THEN 0 ELSE s.cursor - (n - s.confirmed)
  <1>1. Released(s, n).cursor = c
    BY DEF Released, SessionType
  <1>2. /\ s.confirmed \in Nat /\ s.cursor \in Nat /\ Len(s.kept) \in Nat
        /\ s.confirmed <= n /\ n <= s.confirmed + Len(s.kept)
    BY DEF SessionType, Accepts, Sent
  <1>3. Len(Released(s, n).kept) = Len(s.kept) - (n - s.confirmed)
    BY ReleasedFacts
  <1> QED
    BY <1>1, <1>2, <1>3

\* Reading a frame that confirms what its reader wrote to this connection or
\* before leaves the number the reader writes next.
LEMMA ReadCursor ==
  ASSUME NEW s \in SessionType, NEW f \in Frame, s.cursor <= Len(s.kept)
  PROVE  LET t == AfterRead(s, f)
         IN  /\ t.cursor <= Len(t.kept)
             /\ t.confirmed + Len(t.kept) = s.confirmed + Len(s.kept)
             /\ f.ack <= s.confirmed + s.cursor \/ t = s =>
                  t.confirmed + t.cursor = s.confirmed + s.cursor
  <1> DEFINE r == Released(s, f.ack)
             t == AfterRead(s, f)
  <1>1. f.ack \in Nat
    BY DEF Frame
  <1>2. CASE ~Releasable(s, f.ack)
    BY <1>2, AfterReadFacts
  <1>3. CASE Releasable(s, f.ack)
    <2>1. /\ r \in SessionType /\ t.confirmed = f.ack /\ t.kept = r.kept
          /\ r.cursor <= Len(r.kept) /\ f.ack + Len(r.kept) = s.confirmed + Len(s.kept)
          /\ f.ack <= s.confirmed + s.cursor => f.ack + r.cursor = s.confirmed + s.cursor
      BY <1>1, <1>3, AfterReadFacts, ReleasedFacts, ReleasedCursor DEF Releasable
    <2>2. t.cursor = r.cursor
      BY <1>3, <2>1 DEF AfterRead, SessionType
    <2> HIDE DEF r, t
    <2>3. /\ t.cursor <= Len(t.kept) /\ t.confirmed + Len(t.kept) = s.confirmed + Len(s.kept)
          /\ f.ack <= s.confirmed + s.cursor => t.confirmed + t.cursor = s.confirmed + s.cursor
          /\ t = s => t.confirmed + t.cursor = s.confirmed + s.cursor
      BY <2>1, <2>2
    <2> QED
      BY <2>3 DEF t
  <1> QED
    BY <1>2, <1>3

\* A frame that is next and confirms what its reader can confirm is read.
LEMMA ReadInTurn ==
  ASSUME NEW s \in SessionType, NEW f \in Frame, s.confirmed <= f.ack, f.ack <= Sent(s),
         f.kind = "numbered" => f.seq = s.next
  PROVE  /\ Verdict(s, f) \notin {"error", "duplicate"}
         /\ AfterRead(s, f).confirmed = f.ack
         /\ AfterRead(s, f).next = IF f.kind = "numbered" THEN s.next + 1 ELSE s.next
         /\ Verdict(s, f) \in {"message", "skipped"} <=> f.kind = "numbered"
  <1>1. Releasable(s, f.ack) /\ f.seq \in Nat /\ s.next \in Nat
    BY DEF Releasable, Accepts, Frame, SessionType
  <1>2. f.kind \in {"numbered", "ack"}
    BY DEF Frame
  <1>3. CASE f.kind = "numbered"
    <2>1. Verdict(s, f) \in {"message", "skipped"}
      BY <1>1, <1>3 DEF Verdict
    <2> QED
      BY <1>1, <1>3, <2>1, AfterReadFacts
  <1>4. CASE f.kind = "ack"
    <2>1. Verdict(s, f) = "ack"
      BY <1>1, <1>4 DEF Verdict
    <2> QED
      BY <1>1, <1>4, <2>1, AfterReadFacts
  <1> QED
    BY <1>2, <1>3, <1>4

\* What is on the way to the runner are frames of the session it has, or of the
\* one that its welcome names.
LEMMA DownShape ==
  ASSUME IInv, Reading \/ (phase = "waiting" /\ down # <<>>)
  PROVE  /\ Numbering \in Seq(Frame)
         /\ \A i \in 1 .. Len(Numbering) : FrameOf(Numbering[i], DownSession, "backend", conn)
  <1>1. down \in Seq(Frame \cup Welcome)
    BY DEF IInv, TypeOK
  <1>2. /\ Numbering \in Seq(Frame \cup Welcome)
        /\ \A i \in 1 .. Len(Numbering) :
             /\ Numbering[i].kind # "hello_ok"
             /\ FrameOf(Numbering[i], DownSession, "backend", conn)
    <2>1. CASE phase # "waiting"
      BY <1>1, <2>1 DEF Numbering, IInv, Wires
    <2>2. CASE phase = "waiting" /\ down # <<>>
      <3>1. /\ Tail(down) \in Seq(Frame \cup Welcome) /\ Len(Tail(down)) = Len(down) - 1
            /\ Len(down) \in Nat /\ \A i \in 1 .. Len(down) - 1 : Tail(down)[i] = down[i + 1]
        BY <1>1, <2>2
      <3>2. \A i \in 1 .. Len(down) - 1 : i + 1 \in 1 .. Len(down) /\ i + 1 # 1
        BY <3>1
      <3> QED
        BY <2>2, <3>1, <3>2 DEF Numbering, IInv, Wires
    <2> QED
      BY <2>1, <2>2 DEF Reading
  <1>3. \A i \in 1 .. Len(Numbering) : Numbering[i] \in Frame
    <2> SUFFICES ASSUME NEW i \in 1 .. Len(Numbering) PROVE Numbering[i] \in Frame
      OBVIOUS
    <2> HIDE DEF Numbering
    <2>1. Numbering[i] \in Frame \cup Welcome
      BY <1>2
    <2> QED
      BY <1>2, <2>1 DEF Welcome
  <1>4. Numbering \in [1 .. Len(Numbering) -> Frame] /\ Len(Numbering) \in Nat
    BY <1>2, <1>3
  <1> QED
    BY <1>2, <1>4

\* The two ends' numbers, where both have the connection and the welcome was read.
LEMMA BothKnow ==
  ASSUME IInv, Reading
  PROVE  /\ sess["runner"] \in SessionType /\ sess["backend"] \in SessionType
         /\ number["runner"] # None /\ number["runner"] \in Sessions
         /\ \A k \in Nat : k <= Len(log[number["runner"]]["backend"]) => k <= Sent(sess["runner"])
         /\ sess["runner"].received <= sess["runner"].next
         /\ sess["runner"].received = Len(log[number["runner"]]["runner"])
         /\ sess["backend"].next = sess["backend"].received
         /\ held = conn =>
              /\ number["backend"] = number["runner"] /\ held # None
              /\ \A k \in Nat : k <= Len(log[number["runner"]]["runner"]) => k <= Sent(sess["backend"])
              /\ sess["backend"].received = Len(log[number["runner"]]["backend"])
              /\ sess["backend"].confirmed <= sess["runner"].received
              /\ sess["runner"].confirmed <= sess["backend"].received
  <1>1. /\ sess["runner"] \in SessionType /\ sess["backend"] \in SessionType
        /\ number["runner"] # None /\ number["runner"] \in Sessions
        /\ "runner" \in End /\ "backend" \in End /\ inbox \in Seq(Arrival)
        /\ hist \in [Sessions -> [End -> Seq(Message)]] /\ log \in [Sessions -> [End -> Seq(Entry)]]
    BY DEF IInv, TypeOK, Numbers, End
  <1>2. /\ Len(hist[number["runner"]]["runner"]) \in Nat /\ Len(log[number["runner"]]["backend"]) \in Nat
        /\ Len(hist[number["runner"]]["backend"]) \in Nat /\ Len(log[number["runner"]]["runner"]) \in Nat
        /\ Len(log[number["runner"]]["backend"]) <= Len(hist[number["runner"]]["runner"])
        /\ Len(log[number["runner"]]["runner"]) <= Len(hist[number["runner"]]["backend"])
    BY <1>1, HistoryTypes DEF IInv, Logs, Other
  <1>3. /\ Sent(sess["runner"]) = Len(hist[number["runner"]]["runner"])
        /\ sess["runner"].received = Len(log[number["runner"]]["runner"])
        /\ sess["runner"].confirmed <= Len(log[number["runner"]]["backend"])
        /\ sess["backend"].next = sess["backend"].received
    BY <1>1 DEF IInv, Ends, Tracks, Other
  <1>4. sess["runner"].received <= sess["runner"].next
    <2>1. Len(inbox) \in Nat /\ (inbox # <<>> => Len(inbox) >= 1) /\ sess["runner"].received \in Nat
      BY <1>1 DEF SessionType
    <2> QED
      BY <2>1 DEF IInv, Inboxes, Welcomed
  <1>5. ASSUME held = conn
        PROVE  /\ number["backend"] = number["runner"] /\ held # None
               /\ Sent(sess["backend"]) = Len(hist[number["runner"]]["backend"])
               /\ sess["backend"].received = Len(log[number["runner"]]["backend"])
               /\ sess["backend"].confirmed <= Len(log[number["runner"]]["runner"])
    <2>1. number["backend"] = number["runner"]
      BY <1>5 DEF IInv, Numbers
    <2>2. held # None
      BY <1>5 DEF IInv, Connections, Reading
    <2> QED
      BY <1>1, <2>1, <2>2 DEF IInv, Ends, Tracks, Other
  <1> QED
    BY <1>1, <1>2, <1>3, <1>4, <1>5

\* The runner's next frame is in turn.
LEMMA DownTurn ==
  ASSUME IInv, Flows, Reading, down # <<>>
  PROVE  LET s == sess["runner"]
             f == Head(down)
         IN  /\ f \in Frame /\ f.kind # "hello_ok"
             /\ s.confirmed <= f.ack /\ f.ack <= Sent(s) /\ (f.kind = "numbered" => f.seq = s.next)
             /\ \E to \in Nat :
                  /\ Flow(Tail(down), IF f.kind = "numbered" THEN s.next + 1 ELSE s.next, to, f.ack)
                  /\ held = conn => to = Position("backend")
             /\ held = conn => f.ack <= sess["backend"].received
  <1>1. phase # "waiting" /\ Numbering = down /\ DownSession = number["runner"]
    BY DEF Reading, Numbering, DownSession
  <1>2. /\ down \in Seq(Frame)
        /\ \A i \in 1 .. Len(down) : FrameOf(down[i], number["runner"], "backend", conn)
    BY <1>1, DownShape
  <1>3. Head(down) = down[1] /\ 1 \in 1 .. Len(down) /\ Head(down) \in Frame
    BY <1>2
  <1>4. Head(down).ack \in Nat /\ Head(down).ack <= Len(log[number["runner"]]["backend"])
    BY <1>2, <1>3 DEF FrameOf, Frame
  <1>5. PICK to \in Nat :
          /\ Flow(down, sess["runner"].next, to, sess["runner"].confirmed)
          /\ held = conn => to = Position("backend")
    BY <1>1 DEF Flows, Downs, DownFrom, DownLow
  <1> QED
    BY <1>2, <1>3, <1>4, <1>5, FlowTail, BothKnow DEF Frame

\* So is the backend's, on the connection both have.
LEMMA UpTurn ==
  ASSUME IInv, Flows, Reading, held = conn, up # <<>>
  PROVE  LET s == sess["backend"]
             f == Head(up)
         IN  /\ f \in Frame /\ s.confirmed <= f.ack /\ f.ack <= Sent(s)
             /\ f.kind = "numbered" => f.seq = s.next
             /\ Flow(Tail(up), IF f.kind = "numbered" THEN s.next + 1 ELSE s.next,
                     Position("runner"), f.ack)
             /\ f.ack <= sess["runner"].received
  <1>1. up \in Seq(Frame)
    BY DEF IInv, TypeOK
  <1>2. Head(up) = up[1] /\ 1 \in 1 .. Len(up) /\ Head(up) \in Frame
    BY <1>1
  <1>3. Head(up).ack \in Nat /\ Head(up).ack <= Len(log[number["runner"]]["runner"])
    BY <1>2, BothKnow DEF IInv, Wires, FrameOf, Frame
  <1>4. Flow(up, sess["backend"].next, Position("runner"), sess["backend"].confirmed)
    BY DEF Flows, Ups
  <1> QED
    BY <1>1, <1>2, <1>3, <1>4, FlowTail, BothKnow

\* The invariant puts every frame in turn.
LEMMA FlowsInStep == IInv /\ Flows => InStep
  <1> SUFFICES ASSUME IInv, Flows PROVE InStep
    OBVIOUS
  <1>1. phase \in {"down", "greeting", "waiting"} \/ Reading
    BY DEF IInv, TypeOK, Reading
  <1>2. ASSUME down # <<>>, Head(down).kind # "hello_ok", phase # "waiting"
        PROVE  Verdict(sess["runner"], Head(down)) \notin {"error", "duplicate"}
    <2>1. Reading
      BY <1>1, <1>2 DEF IInv, Connections
    <2> QED
      BY <1>2, <2>1, DownTurn, ReadInTurn, BothKnow
  <1>3. ASSUME Live, up # <<>>
        PROVE  Verdict(sess["backend"], Head(up)) \notin {"error", "duplicate"}
    <2>1. Reading /\ held = conn
      BY <1>1, <1>3 DEF IInv, Connections, Live, Flows, Greetings
    <2> QED
      BY <1>3, <2>1, UpTurn, ReadInTurn, BothKnow
  <1> QED
    BY <1>2, <1>3 DEF InStep

-----------------------------------------------------------------------------
(* The steps.                                                              *)

\* No step but a read, a write or a greeting touches what an end's numbers say.
LEMMA FlowsQuiet ==
  ASSUME Flows, UNCHANGED <<sess, number, conn, held, up, down>>, pending' \subseteq pending,
         phase' = phase \/ (Reading /\ Reading'), \A e \in End : Position(e)' = Position(e)
  PROVE  Flows'
  <1>1. Downs' /\ Ups'
    BY DEF Flows, Downs, Ups, Numbering, DownFrom, DownLow, Carries, Reading, End
  <1>2. Greetings' /\ Cursors'
    BY DEF Flows, Greetings, Cursors, Reading
  <1> QED
    BY <1>1, <1>2 DEF Flows

\* The backend without the runner's connection: what it wrote arrives in turn.
LEMMA FlowsApart ==
  ASSUME IInv, Flows, sess'["runner"] = sess["runner"], number'["runner"] = number["runner"],
         UNCHANGED <<conn, phase, down>>, pending' \subseteq pending,
         held' # conn \/ phase \in {"down", "greeting"}, Cursors'
  PROVE  Flows'
  <1>1. Downs'
    BY DEF Flows, Downs, Numbering, DownFrom, DownLow, Carries, Reading
  <1>2. Ups' /\ Greetings'
    BY DEF Flows, Ups, Greetings, Reading
  <1> QED
    BY <1>1, <1>2 DEF Flows

\* A runner without a connection, or whose hello is not said.
LEMMA FlowsDown ==
  ASSUME phase' \in {"down", "greeting"}, Cursors'
  PROVE  Flows'
  BY DEF Flows, Downs, Ups, Greetings, Reading

\* A held connection that ends.
LEMMA FlowsClose ==
  ASSUME IInv, Flows, held' = None, UNCHANGED <<sess, number, conn, phase, down>>,
         pending' \subseteq pending
  PROVE  Flows'
  <1>1. held' # conn \/ phase \in {"down", "greeting"}
    BY DEF IInv, Connections
  <1>2. Cursors'
    BY DEF Flows, Cursors
  <1> QED
    BY <1>1, <1>2, FlowsApart

\* A frame that e writes has the next number and confirms what e handled.
LEMMA FlowsPut ==
  ASSUME IInv, IInv', Flows, NEW e \in End, NEW f \in Frame, Put(e, f), Cursors',
         UNCHANGED <<number, conn, phase, held, replaying, pending>>,
         \A d \in End : d # e => sess'[d] = sess[d],
         sess'[e].confirmed = sess[e].confirmed, sess'[e].received = sess[e].received,
         sess'[e].next = sess[e].next, f.ack = sess[e].received,
         f.kind = "numbered" => f.seq = Position(e),
         Position(e)' = IF f.kind = "numbered" THEN Position(e) + 1 ELSE Position(e),
         e = "runner" /\ held = conn => phase # "waiting"
  PROVE  Flows'
  <1>0. /\ "runner" \in End /\ "backend" \in End /\ e \in {"runner", "backend"}
        /\ f.ack \in Nat /\ up \in Seq(Frame) /\ down \in Seq(Frame \cup Welcome)
        /\ sess["runner"] \in SessionType /\ sess["backend"] \in SessionType
    BY DEF End, IInv, TypeOK, Frame
  <1>1. \A d \in End : /\ sess'[d].confirmed = sess[d].confirmed
                       /\ sess'[d].received = sess[d].received /\ sess'[d].next = sess[d].next
    BY <1>0
  <1>2. CASE e = "runner"
    <2>1. /\ down' = down /\ up' = IF held = conn THEN Append(up, f) ELSE up
          /\ sess'["backend"] = sess["backend"]
      BY <1>0, <1>2 DEF Put, PutUp
    <2>2. Position("backend")' = Position("backend")
      BY <2>1 DEF Position, Replaying
    <2>3. Downs'
      BY <1>0, <1>1, <2>1, <2>2
         DEF Flows, Downs, Numbering, DownFrom, DownLow, Carries, Reading
    <2>4. Greetings'
      BY <1>0, <1>1, <1>2, <2>1 DEF Flows, Greetings
    <2>5. ASSUME held = conn, Reading
          PROVE  Flow(Append(up, f), sess["backend"].next, Position("runner")',
                      sess["backend"].confirmed)
      <3>1. Flow(up, sess["backend"].next, Position("runner"), sess["backend"].confirmed)
        BY <2>5 DEF Flows, Ups
      <3>2. sess["backend"].confirmed \in Nat /\ sess["backend"].confirmed <= f.ack
        BY <1>0, <1>2, <2>5, BothKnow DEF SessionType
      <3>3. ASSUME NEW i \in 1 .. Len(up) PROVE up[i].ack <= f.ack
        BY <1>2, <2>5, <3>3, BothKnow DEF IInv, Wires, FrameOf
      <3> QED
        BY <1>0, <1>2, <3>1, <3>2, <3>3, FlowAppend
    <2>6. Ups'
      BY <2>1, <2>5 DEF Ups, Reading
    <2> QED
      BY <2>3, <2>4, <2>6 DEF Flows
  <1>3. CASE e = "backend"
    <2>1. /\ up' = up /\ down' = IF Live THEN Append(down, f) ELSE down
          /\ sess'["runner"] = sess["runner"]
      BY <1>0, <1>3 DEF Put, PutDown
    <2>2. Position("runner")' = Position("runner")
      BY <2>1 DEF Position, Replaying
    <2>3. Ups'
      BY <1>0, <1>1, <2>1, <2>2 DEF Flows, Ups, Reading
    <2>4. Live /\ phase = "waiting" => down # <<>>
      BY DEF IInv, Welcomes, Live
    <2>5. phase = "waiting" /\ down # <<>> =>
            Head(down') = Head(down) /\ Tail(down') = IF Live THEN Append(Tail(down), f) ELSE Tail(down)
      BY <1>0, <2>1, HeadTailAppend
    <2>6. Greetings'
      BY <1>0, <1>1, <1>3, <2>1, <2>4, <2>5 DEF Flows, Greetings, Live
    <2>7. Downs'
      <3> SUFFICES ASSUME Reading \/ (phase = "waiting" /\ down' # <<>>)
                   PROVE  \E to \in Nat :
                            /\ Flow(Numbering', DownFrom', to, DownLow')
                            /\ held = conn => to = Position("backend")'
        BY DEF Downs, Reading
      <3>1. Reading \/ (phase = "waiting" /\ down # <<>>)
        BY <2>1, <2>4
      <3>2. DownFrom' = DownFrom /\ DownLow' = DownLow
        BY <2>1, <2>5, <3>1 DEF DownFrom, DownLow, Carries, Reading
      <3>3. Numbering' = IF Live THEN Append(Numbering, f) ELSE Numbering
        BY <2>1, <2>5, <3>1 DEF Numbering, Reading
      <3>4. PICK to \in Nat :
              /\ Flow(Numbering, DownFrom, to, DownLow)
              /\ held = conn => to = Position("backend")
        BY <3>1 DEF Flows, Downs
      <3>5. CASE ~Live
        <4>1. held # conn
          BY <3>1, <3>5 DEF Live, Reading
        <4> QED
          BY <3>2, <3>3, <3>4, <3>5, <4>1
      <3>6. CASE Live
        <4>1. held = conn /\ to = Position("backend")
          BY <3>4, <3>6 DEF Live
        <4>2. Numbering \in Seq(Frame)
              /\ \A i \in 1 .. Len(Numbering) : FrameOf(Numbering[i], DownSession, "backend", conn)
          BY <3>1, DownShape
        <4>3. /\ number["backend"] = DownSession /\ DownSession # None
              /\ DownLow \in Nat /\ DownLow <= sess["backend"].received
          <5>1. CASE phase = "waiting"
            <6>1. /\ Head(down).session = number["backend"] /\ Head(down).session # None
                  /\ Head(down).received = sess["backend"].received
              BY <3>1, <4>1, <5>1 DEF IInv, Welcomes, Flows, Greetings, Reading
            <6> QED
              BY <1>0, <5>1, <6>1 DEF DownSession, DownLow, SessionType
          <5>2. CASE phase # "waiting"
            BY <1>0, <3>1, <4>1, <5>2, BothKnow DEF DownSession, DownLow, SessionType
          <5> QED
            BY <5>1, <5>2
        <4>4. sess["backend"].received = Len(log[number["backend"]]["backend"])
          BY <1>0, <4>3 DEF IInv, Ends
        <4>5. \A i \in 1 .. Len(Numbering) : Numbering[i].ack <= f.ack
          BY <1>3, <4>2, <4>3, <4>4 DEF FrameOf
        <4>6. Flow(Append(Numbering, f), DownFrom, Position("backend")', DownLow)
          BY <1>3, <3>4, <4>1, <4>2, <4>3, <4>5, FlowAppend
        <4>7. Position("backend")' \in Nat
          BY <1>3, <3>4, <4>1
        <4> QED
          BY <3>2, <3>3, <3>6, <4>6, <4>7
      <3> QED
        BY <3>5, <3>6
    <2> QED
      BY <2>3, <2>6, <2>7 DEF Flows
  <1> QED
    BY <1>0, <1>2, <1>3

\* A new message.
LEMMA FlowsSend ==
  ASSUME IInv, IInv', Flows, NEW e \in End, NEW m \in Message, StampAndPut(e, m), Writes(e),
         UNCHANGED <<number, conn, phase, held, replaying, pending>>
  PROVE  Flows'
  <1> DEFINE s == sess[e]
             t == Stamped(s, m)
             f == StampFrame(s, m)
  <1>0. sess \in [End -> SessionType] /\ s \in SessionType
    BY DEF IInv, TypeOK
  <1>1. /\ sess \in [End -> SessionType] /\ s \in SessionType /\ s.kept \in Seq(Message)
        /\ s.confirmed \in Nat /\ s.cursor \in Nat /\ Len(s.kept) \in Nat
    BY <1>0 DEF SessionType
  <1>2. sess'[e] = t /\ \A d \in End : d # e => sess'[d] = sess[d]
    BY <1>1 DEF StampAndPut, Stamp
  <1>3. /\ t.confirmed = s.confirmed /\ t.received = s.received /\ t.next = s.next
        /\ t.kept = Append(s.kept, m) /\ f \in Frame
    BY <1>1, StampedFacts
  <1>4. t.cursor = s.cursor
    BY <1>1 DEF Stamped, SessionType
  <1>5. f.kind = "numbered" /\ f.seq = s.confirmed + Len(s.kept) /\ f.ack = s.received
    BY DEF StampFrame, NumberedFrame, Sent
  <1>6. Len(t.kept) = Len(s.kept) + 1
    BY <1>1, <1>3
  <1>7. ~Replaying(e) /\ ~Replaying(e)' /\ (e = "runner" => phase # "waiting")
    BY DEF Writes, Replaying, End
  <1>8. Position(e) = s.confirmed + Len(s.kept) /\ Position(e)' = t.confirmed + Len(t.kept)
    BY <1>2, <1>7 DEF Position
  <1>9. Cursors'
    BY <1>1, <1>2, <1>4, <1>6 DEF Flows, Cursors
  <1>10. Put(e, f)
    BY DEF StampAndPut
  <1> HIDE DEF s, t, f
  <1>11. Position(e)' = Position(e) + 1
    BY <1>1, <1>3, <1>6, <1>8
  <1> QED
    BY <1>2, <1>3, <1>5, <1>7, <1>8, <1>9, <1>10, <1>11, FlowsPut DEF s

\* A kept message written again.
LEMMA FlowsResend ==
  ASSUME IInv, IInv', Flows, NEW e \in End, Resend(e)
  PROVE  Flows'
  <1> DEFINE s == sess[e]
             t == Resent(s)
             f == ResendFrame(s)
  <1>0. sess \in [End -> SessionType] /\ s \in SessionType
    BY DEF IInv, TypeOK
  <1>1. /\ sess \in [End -> SessionType] /\ s \in SessionType
        /\ s.confirmed \in Nat /\ s.cursor \in Nat /\ Len(s.kept) \in Nat
    BY <1>0 DEF SessionType
  <1>2. sess'[e] = t /\ \A d \in End : d # e => sess'[d] = sess[d]
    BY <1>1 DEF Resend
  <1>3. /\ t.confirmed = s.confirmed /\ t.received = s.received /\ t.next = s.next /\ t.kept = s.kept
        /\ f \in Frame /\ f.kind = "numbered" /\ f.seq = s.confirmed + s.cursor /\ f.ack = s.received
        /\ s.cursor + 1 <= Len(s.kept)
    BY <1>1, ResentFacts, ResendFrameFacts DEF Resend
  <1>4. t.cursor = s.cursor + 1
    BY <1>1 DEF Resent, SessionType
  <1>5. /\ UNCHANGED <<number, conn, phase, held, replaying, pending>> /\ Put(e, f)
        /\ e = "runner" => phase # "waiting"
    BY DEF Resend, runnerVars, backendVars, Replays
  <1>6. Replaying(e) /\ Replaying(e)'
    BY DEF Resend, Replays, Replaying, End, runnerVars, backendVars
  <1>7. Position(e) = s.confirmed + s.cursor /\ Position(e)' = t.confirmed + t.cursor
    BY <1>2, <1>6 DEF Position
  <1>8. Cursors'
    BY <1>1, <1>2, <1>3, <1>4 DEF Flows, Cursors
  <1> HIDE DEF s, t, f
  <1>9. Position(e)' = Position(e) + 1
    BY <1>1, <1>3, <1>4, <1>7
  <1> QED
    BY <1>2, <1>3, <1>5, <1>7, <1>8, <1>9, FlowsPut DEF s

\* An acknowledgement alone.
LEMMA FlowsAck ==
  ASSUME IInv, IInv', Flows, NEW e \in End, WriteAck(e)
  PROVE  Flows'
  <1> DEFINE s == sess[e]
             t == Acknowledged(s)
             f == AckFrame(s)
  <1>1. /\ sess \in [End -> SessionType] /\ s \in SessionType
    BY DEF IInv, TypeOK
  <1>2. sess'[e] = t /\ \A d \in End : d # e => sess'[d] = sess[d]
    BY <1>1 DEF WriteAck
  <1>3. /\ t.confirmed = s.confirmed /\ t.received = s.received /\ t.next = s.next /\ t.kept = s.kept
        /\ f \in Frame /\ f.kind = "ack" /\ f.ack = s.received
    BY <1>1, AcknowledgedFacts DEF AckFrame
  <1>4. t.cursor = s.cursor
    BY <1>1 DEF Acknowledged, SessionType
  <1>5. UNCHANGED <<number, conn, phase, held, replaying, pending>> /\ Put(e, f)
    BY DEF WriteAck, backendVars
  <1>6. e = "runner" => phase # "waiting"
    BY DEF WriteAck, IInv, Welcomes
  <1>7. Replaying(e)' = Replaying(e)
    BY <1>5 DEF Replaying
  <1>8. Position(e)' = Position(e)
    BY <1>2, <1>3, <1>4, <1>7 DEF Position
  <1>9. Cursors'
    BY <1>2, <1>3, <1>4 DEF Flows, Cursors
  <1> HIDE DEF s, t, f
  <1> QED
    BY <1>2, <1>3, <1>5, <1>6, <1>8, <1>9, FlowsPut DEF s

\* The loop that writes again ends where what is new begins.
LEMMA FlowsResendDone ==
  ASSUME IInv, Flows, NEW e \in End, ResendDone(e)
  PROVE  Flows'
  <1>1. sess[e].cursor = Len(sess[e].kept)
    <2>1. sess[e].cursor <= Len(sess[e].kept) /\ sess[e].cursor \in Nat /\ Len(sess[e].kept) \in Nat
      BY DEF Flows, Cursors, IInv, TypeOK, SessionType
    <2> QED
      BY <2>1 DEF ResendDone, HasResend
  <1>2. UNCHANGED <<sess, number, conn, held, up, down, pending>>
    BY DEF ResendDone
  <1>3. phase' = phase \/ (Reading /\ Reading')
    BY DEF ResendDone, Replays, Reading
  <1>4. ASSUME NEW d \in End PROVE Position(d)' = Position(d)
    <2>1. CASE d # e
      <3>1. Replaying(d)' = Replaying(d)
        BY <2>1 DEF ResendDone, Replaying, End
      <3> QED
        BY <1>2, <3>1 DEF Position
    <2>2. CASE d = e
      BY <1>1, <1>2, <2>2 DEF Position
    <2> QED
      BY <2>1, <2>2
  <1> QED
    BY <1>2, <1>3, <1>4, FlowsQuiet

\* The hello counts what the runner handled.
LEMMA FlowsHello ==
  ASSUME IInv, Flows, SayHello
  PROVE  Flows'
  <1>1. phase = "greeting" /\ phase' = "waiting" /\ held # conn /\ down = <<>>
    BY DEF SayHello, IInv, Connections
  <1>2. UNCHANGED <<sess, conn, held, down>>
    BY DEF SayHello
  <1>3. \A h \in pending' : h.conn = conn => h.received = sess["runner"].received
    <2>1. \A h \in pending : h.conn # conn
      BY <1>1 DEF IInv, Connections
    <2> QED
      BY <2>1 DEF SayHello
  <1> QED
    BY <1>1, <1>2, <1>3 DEF Flows, Downs, Ups, Greetings, Cursors, Reading

\* The welcome sets both ends to one number in each direction.
LEMMA FlowsWelcome ==
  ASSUME IInv, Flows, ReadWelcome
  PROVE  Flows'
  <1> DEFINE s == sess["runner"]
             r == Head(down).received
             t == sess'["runner"]
             n == Head(down).session
  <1>1. /\ phase = "waiting" /\ down # <<>> /\ Head(down).kind = "hello_ok" /\ phase' = "answered"
        /\ down' = Tail(down) /\ HelloOk(n, r)
        /\ UNCHANGED <<conn, held, replaying, pending, up>>
    BY DEF ReadWelcome, backendVars
  <1>2. /\ sess \in [End -> SessionType] /\ s \in SessionType /\ "runner" \in End /\ "backend" \in End
        /\ down \in Seq(Frame \cup Welcome)
    BY DEF IInv, TypeOK, End
  <1>3. r \in Nat /\ n \in Sessions
    <2>1. Head(down) \in Frame \cup Welcome
      BY <1>1, <1>2
    <2> QED
      BY <1>1, <2>1 DEF Frame, Welcome
  <1>4. Carries => Accepts(s, r)
    BY <1>1 DEF IInv, Welcomes, Carries
  <1>5. /\ t = IF Carries THEN Resumed(s, r) ELSE NewSession
        /\ sess'["backend"] = sess["backend"]
    BY <1>1, <1>2, <1>4 DEF HelloOk, Carries
  <1>6. /\ t.confirmed = (IF Carries THEN r ELSE 0) /\ t.next = (IF Carries THEN s.received ELSE 0)
        /\ t.cursor = 0 /\ Len(t.kept) \in Nat
    <2>1. CASE Carries
      <3>1. Resumed(s, r).cursor = 0
        BY <1>2, <1>3, <1>4, ReleasedFacts DEF Resumed, SessionType
      <3>2. /\ Resumed(s, r).confirmed = r /\ Resumed(s, r).next = s.received
            /\ Resumed(s, r) \in SessionType
        BY <1>2, <1>3, <1>4, <2>1, ResumedFacts
      <3> QED
        BY <1>5, <2>1, <3>1, <3>2 DEF SessionType
    <2>2. CASE ~Carries
      BY <1>5, <2>2 DEF NewSession
    <2> QED
      BY <2>1, <2>2
  <1>7. Cursors'
    BY <1>5, <1>6 DEF Flows, Cursors, End
  <1>8. Downs'
    <2>1. PICK to \in Nat :
            /\ Flow(Tail(down), IF Carries THEN s.received ELSE 0, to, IF Carries THEN r ELSE 0)
            /\ held = conn => to = Position("backend")
      BY <1>1 DEF Flows, Downs, Numbering, DownFrom, DownLow
    <2>2. Position("backend")' = Position("backend")
      BY <1>1, <1>5 DEF Position, Replaying
    <2>3. Numbering' = Tail(down) /\ DownFrom' = t.next /\ DownLow' = t.confirmed
      BY <1>1 DEF Numbering, DownFrom, DownLow
    <2> QED
      BY <1>1, <1>6, <2>1, <2>2, <2>3 DEF Downs
  <1>9. Ups'
    <2> SUFFICES ASSUME held = conn
                 PROVE  Flow(up, sess["backend"].next, Position("runner")', sess["backend"].confirmed)
      BY <1>1, <1>5 DEF Ups
    <2>1. up = <<>> /\ r = sess["backend"].received /\ n = number["backend"] /\ n # None
      BY <1>1 DEF Flows, Greetings, IInv, Welcomes
    <2>2. Position("runner")' = IF Carries THEN r ELSE 0
      BY <1>1, <1>3, <1>6 DEF Position, Replaying
    <2>3. sess["backend"].next = r
      BY <2>1 DEF IInv, Ends
    <2>4. ~Carries => r = 0
      <3>1. ASSUME ~Carries PROVE Len(log[n]["backend"]) = 0
        <4>1. hist[n]["runner"] = <<>>
          BY <1>1, <3>1 DEF IInv, Welcomes, Carries
        <4>2. Len(log[n]["backend"]) <= Len(hist[n]["runner"]) /\ Len(log[n]["backend"]) \in Nat
          BY <1>2, <1>3, HistoryTypes DEF IInv, Logs, Other
        <4> QED
          BY <4>1, <4>2
      <3>2. r = Len(log[n]["backend"])
        BY <1>2, <2>1 DEF IInv, Ends
      <3> QED
        BY <3>1, <3>2
    <2> QED
      BY <1>3, <2>1, <2>2, <2>3, <2>4, FlowEmpty
  <1> QED
    BY <1>1, <1>7, <1>8, <1>9 DEF Flows, Greetings

\* The runner reads on: what it confirms is no further than what it wrote to this
\* connection, so the cursor moves with the front and its next number stays.
LEMMA FlowsRunnerReads ==
  ASSUME IInv, Flows, RunnerReads
  PROVE  Flows'
  <1> DEFINE s == sess["runner"]
             f == Head(down)
             t == AfterRead(s, f)
  <1>1. /\ Reading /\ down # <<>> /\ sess' = [sess EXCEPT !["runner"] = t]
        /\ Verdict(s, f) # "error" => phase' = phase /\ down' = Tail(down)
        /\ UNCHANGED <<number, conn, held, replaying, pending, up>>
    BY DEF RunnerReads, Reading, backendVars
  <1>2. /\ s \in SessionType /\ sess["runner"] \in SessionType /\ sess \in [End -> SessionType]
        /\ "runner" \in End /\ "backend" \in End
    BY DEF IInv, TypeOK, End
  <1>3. /\ f \in Frame /\ s.confirmed <= f.ack /\ f.ack <= Sent(s)
        /\ f.kind = "numbered" => f.seq = s.next
        /\ held = conn => f.ack <= sess["backend"].received
    BY <1>1, DownTurn
  <1>4. PICK to \in Nat :
          /\ Flow(Tail(down), IF f.kind = "numbered" THEN s.next + 1 ELSE s.next, to, f.ack)
          /\ held = conn => to = Position("backend")
    BY <1>1, DownTurn
  <1>5. /\ Verdict(s, f) # "error" /\ t.confirmed = f.ack
        /\ t.next = IF f.kind = "numbered" THEN s.next + 1 ELSE s.next
    BY <1>2, <1>3, ReadInTurn
  <1>6. s.cursor <= Len(s.kept)
    BY <1>2 DEF Flows, Cursors
  <1>7. /\ t.cursor <= Len(t.kept) /\ t.confirmed + Len(t.kept) = s.confirmed + Len(s.kept)
        /\ f.ack <= s.confirmed + s.cursor => t.confirmed + t.cursor = s.confirmed + s.cursor
    BY <1>2, <1>3, <1>6, ReadCursor
  <1>8. sess'["runner"] = t /\ sess'["backend"] = sess["backend"]
    BY <1>1, <1>2
  <1>9. phase' = phase /\ down' = Tail(down) /\ phase # "waiting"
    BY <1>1, <1>5 DEF Reading
  <1> HIDE DEF t, f, s
  <1>10. Cursors'
    BY <1>7, <1>8 DEF Flows, Cursors, End
  <1>11. Downs'
    <2>1. Position("backend")' = Position("backend")
      BY <1>1, <1>8 DEF Position, Replaying
    <2>2. Numbering' = Tail(down) /\ DownFrom' = t.next /\ DownLow' = t.confirmed
      BY <1>8, <1>9 DEF Numbering, DownFrom, DownLow
    <2> QED
      BY <1>1, <1>4, <1>5, <2>1, <2>2 DEF Downs
  <1>12. Ups'
    <2> SUFFICES ASSUME held = conn PROVE Position("runner")' = Position("runner")
      BY <1>1, <1>8, <1>9 DEF Flows, Ups, Reading
    <2>1. CASE phase = "open"
      BY <1>7, <1>8, <1>9, <2>1 DEF Position, Replaying, s
    <2>2. CASE phase # "open"
      <3>1. Flow(up, sess["backend"].next, Position("runner"), sess["backend"].confirmed)
        BY <1>1 DEF Flows, Ups
      <3>2. sess["backend"].next <= Position("runner")
        BY <3>1, FlowBounds DEF IInv, TypeOK
      <3>3. /\ sess["backend"].next = sess["backend"].received /\ sess["backend"].received \in Nat
            /\ f.ack \in Nat /\ s.confirmed \in Nat /\ s.cursor \in Nat
        BY <1>1, <1>2, <1>3, BothKnow DEF SessionType, Frame
      <3>4. Position("runner") = s.confirmed + s.cursor
        BY <2>2 DEF Position, Replaying, s
      <3>5. f.ack <= s.confirmed + s.cursor
        BY <1>3, <3>2, <3>3, <3>4
      <3> QED
        BY <1>7, <1>8, <1>9, <2>2, <3>4, <3>5 DEF Position, Replaying
    <2> QED
      BY <2>1, <2>2
  <1> QED
    BY <1>9, <1>10, <1>11, <1>12 DEF Flows, Greetings

\* What the runner routes was read: the wires and the next numbers stay.
LEMMA FlowsRunnerHandles ==
  ASSUME IInv, Flows, RunnerHandles
  PROVE  Flows'
  <1> DEFINE s == sess["runner"]
  <1>1. UNCHANGED <<number, conn, phase, held, replaying, pending, up, down>>
    BY DEF RunnerHandles, backendVars
  <1>2. phase \notin {"greeting", "waiting"}
    BY DEF RunnerHandles, IInv, Connections
  <1>3. s \in SessionType /\ sess \in [End -> SessionType] /\ "runner" \in End
    BY DEF IInv, TypeOK, End
  <1>4. /\ sess'["runner"].confirmed = s.confirmed /\ sess'["runner"].kept = s.kept
        /\ sess'["runner"].next = s.next /\ sess'["runner"].cursor = s.cursor
        /\ sess'["backend"] = sess["backend"]
    <2>1. sess' = sess \/ sess' = [sess EXCEPT !["runner"] = Handled(s)]
      BY DEF RunnerHandles
    <2>2. Handled(s).cursor = s.cursor
      BY <1>3 DEF Handled, SessionType
    <2>3. /\ Handled(s).confirmed = s.confirmed /\ Handled(s).kept = s.kept
          /\ Handled(s).next = s.next
      BY <1>3, HandledFacts
    <2>4. sess'["backend"] = sess["backend"] /\ sess'["runner"] \in {s, Handled(s)}
      <3>1. CASE sess' = sess
        BY <3>1
      <3>2. CASE sess' = [sess EXCEPT !["runner"] = Handled(s)]
        BY <1>3, <3>2
      <3> QED
        BY <2>1, <3>1, <3>2
    <2> QED
      BY <2>2, <2>3, <2>4
  <1>5. Position("runner")' = Position("runner") /\ Position("backend")' = Position("backend")
    BY <1>1, <1>4 DEF Position, Replaying
  <1>6. Downs'
    BY <1>1, <1>2, <1>4, <1>5 DEF Flows, Downs, Numbering, DownFrom, DownLow, Reading
  <1>7. Ups' /\ Greetings'
    BY <1>1, <1>2, <1>4, <1>5 DEF Flows, Ups, Greetings, Reading
  <1>8. Cursors'
    BY <1>4 DEF Flows, Cursors, End
  <1> QED
    BY <1>6, <1>7, <1>8 DEF Flows

\* A session carried on writes again from what its hello counts; a new one
\* numbers from zero, as its reader will.
LEMMA FlowsAdopt ==
  ASSUME IInv, Flows, NEW h \in pending, Adopt(h)
  PROVE  Flows'
  <1> DEFINE s == sess["backend"]
             t == sess'["backend"]
  <1>1. /\ held = None /\ pending' = pending \ {h} /\ Begin(h) /\ held' = h.conn /\ replaying' = TRUE
        /\ up' = <<>> /\ UNCHANGED <<conn, phase>>
        /\ down' = IF h.conn = conn /\ phase = "waiting"
                     THEN <<[kind |-> "hello_ok", session |-> number'["backend"],
                             received |-> t.received]>>
                     ELSE down
    BY DEF Adopt, runnerVars
  <1>2. /\ s \in SessionType /\ sess \in [End -> SessionType] /\ number \in [End -> Sessions]
        /\ h.received \in Nat /\ "runner" \in End /\ "backend" \in End
        /\ drawn \in Nat /\ number["runner"] \in Nat /\ number["runner"] <= drawn
    BY LinkBounds DEF IInv, TypeOK, Hello, End, Numbers, Sessions
  <1>3. sess'["runner"] = sess["runner"] /\ number'["runner"] = number["runner"]
    BY <1>1, <1>2 DEF Begin
  <1>4. /\ t.cursor = 0 /\ Len(t.kept) \in Nat
        /\ IF Resumes(h) THEN t.confirmed = h.received /\ number'["backend"] = h.session
                         ELSE t.confirmed = 0 /\ number'["backend"] = drawn + 1
    <2>1. CASE Resumes(h)
      <3>1. t = Resumed(s, h.received) /\ Accepts(s, h.received) /\ number'["backend"] = h.session
        BY <1>1, <1>2, <2>1 DEF Begin, Resumes
      <3>2. Resumed(s, h.received).cursor = 0
        BY <1>2, <3>1, ReleasedFacts DEF Resumed, SessionType
      <3> QED
        BY <1>2, <2>1, <3>1, <3>2, ResumedFacts DEF SessionType
    <2>2. CASE ~Resumes(h)
      <3>1. t = NewSession /\ number'["backend"] = drawn + 1
        BY <1>1, <1>2, <2>2 DEF Begin
      <3> QED
        BY <2>2, <3>1 DEF NewSession
    <2> QED
      BY <2>1, <2>2
  <1>5. Cursors'
    BY <1>3, <1>4 DEF Flows, Cursors, End
  <1>6. CASE ~(h.conn = conn /\ phase = "waiting")
    <2>1. held' # conn \/ phase \in {"down", "greeting"}
      BY <1>1, <1>6 DEF IInv, Connections
    <2>2. down' = down /\ pending' \subseteq pending
      BY <1>1, <1>6
    <2> QED
      BY <1>1, <1>3, <1>5, <2>1, <2>2, FlowsApart
  <1>7. CASE h.conn = conn /\ phase = "waiting"
    <2> DEFINE w == [kind |-> "hello_ok", session |-> number'["backend"], received |-> t.received]
    <2>1. down' = <<w>> /\ Head(down') = w /\ Tail(down') = <<>>
      BY <1>1, <1>7
    <2>2. h.session = number["runner"] /\ h.received = sess["runner"].received
      BY <1>7 DEF IInv, Hellos, Flows, Greetings
    <2>3. Carries' <=> number'["backend"] = number["runner"]
      BY <1>3, <2>1 DEF Carries
    <2>4. DownFrom' = t.confirmed
      <3>1. DownFrom' = IF number'["backend"] = number["runner"] THEN sess["runner"].received ELSE 0
        BY <1>1, <1>3, <1>7, <2>3 DEF DownFrom
      <3> HIDE DEF t
      <3>2. CASE Resumes(h)
        BY <1>4, <2>2, <3>1, <3>2
      <3>3. CASE ~Resumes(h)
        BY <1>2, <1>4, <3>1, <3>3
      <3> QED
        BY <3>2, <3>3
    <2>5. Position("backend")' = t.confirmed /\ t.confirmed \in Nat
      BY <1>1, <1>2, <1>4 DEF Position, Replaying
    <2>6. Numbering' = <<>>
      BY <1>1, <1>7, <2>1 DEF Numbering
    <2>7. Downs'
      BY <2>4, <2>5, <2>6, FlowEmpty DEF Downs
    <2>8. Ups'
      BY <1>1, <1>7 DEF Ups, Reading
    <2>9. Greetings'
      BY <1>1, <1>3, <2>1 DEF Flows, Greetings
    <2> QED
      BY <1>5, <2>7, <2>8, <2>9 DEF Flows
  <1> QED
    BY <1>6, <1>7

\* The backend reads on, as the runner does.
LEMMA FlowsBackendReads ==
  ASSUME IInv, Flows, BackendReads
  PROVE  Flows'
  <1> DEFINE s == sess["backend"]
             f == Head(up)
             t == AfterRead(s, f)
             u == sess'["backend"]
             took == Verdict(s, f) \in {"message", "skipped"}
  <1>1. /\ held # None /\ up # <<>>
        /\ sess' = [sess EXCEPT !["backend"] = IF took THEN Handled(t) ELSE t]
        /\ IF Verdict(s, f) = "error" THEN held' = None
           ELSE up' = Tail(up) /\ UNCHANGED <<held, replaying>>
        /\ UNCHANGED <<number, conn, phase, pending, down>>
    BY DEF BackendReads, runnerVars
  <1>2. /\ s \in SessionType /\ sess["backend"] \in SessionType /\ sess \in [End -> SessionType]
        /\ "runner" \in End /\ "backend" \in End /\ up \in Seq(Frame)
    BY DEF IInv, TypeOK, End
  <1>3. f \in Frame /\ s.cursor <= Len(s.kept)
    BY <1>1, <1>2 DEF Flows, Cursors
  <1>4. /\ t \in SessionType /\ t.cursor <= Len(t.kept)
        /\ t.confirmed + Len(t.kept) = s.confirmed + Len(s.kept)
        /\ f.ack <= s.confirmed + s.cursor => t.confirmed + t.cursor = s.confirmed + s.cursor
    BY <1>2, <1>3, ReadCursor, AfterReadFacts
  <1>5. /\ u.confirmed = t.confirmed /\ u.kept = t.kept /\ u.next = t.next /\ u.cursor = t.cursor
        /\ sess'["runner"] = sess["runner"]
    <2>1. Handled(t).cursor = t.cursor
      BY <1>4 DEF Handled, SessionType
    <2>2. u = IF took THEN Handled(t) ELSE t
      BY <1>1, <1>2
    <2>3. /\ Handled(t).confirmed = t.confirmed /\ Handled(t).kept = t.kept
          /\ Handled(t).next = t.next
      BY <1>4, HandledFacts
    <2>4. sess'["runner"] = sess["runner"]
      BY <1>1, <1>2
    <2> HIDE DEF t, u, took
    <2> QED
      BY <2>1, <2>2, <2>3, <2>4
  <1>6. Cursors'
    BY <1>4, <1>5 DEF Flows, Cursors, End
  <1>7. CASE ~(held = conn /\ Reading)
    <2>1. phase \in {"down", "greeting", "waiting"} \/ Reading
      BY DEF IInv, TypeOK, Reading
    <2>2. phase = "waiting" => held # conn
      BY <1>1 DEF Flows, Greetings
    <2>3. held' \in {held, None}
      BY <1>1
    <2>4. held' # conn \/ phase \in {"down", "greeting"}
      BY <1>7, <2>1, <2>2, <2>3 DEF IInv, Connections
    <2> QED
      BY <1>1, <1>5, <1>6, <2>4, FlowsApart
  <1>8. CASE held = conn /\ Reading
    <2>1. /\ s.confirmed <= f.ack /\ f.ack <= Sent(s) /\ (f.kind = "numbered" => f.seq = s.next)
          /\ Flow(Tail(up), IF f.kind = "numbered" THEN s.next + 1 ELSE s.next,
                  Position("runner"), f.ack)
          /\ f.ack <= sess["runner"].received
      BY <1>1, <1>8, UpTurn
    <2>2. /\ Verdict(s, f) # "error" /\ t.confirmed = f.ack
          /\ t.next = IF f.kind = "numbered" THEN s.next + 1 ELSE s.next
      BY <1>2, <1>3, <2>1, ReadInTurn
    <2>3. up' = Tail(up) /\ UNCHANGED <<held, replaying>> /\ phase # "waiting"
      BY <1>1, <1>8, <2>2 DEF Reading
    <2> HIDE DEF f, t, u
    <2>4. Ups'
      <3>1. Position("runner")' = Position("runner")
        BY <1>1, <1>5 DEF Position, Replaying
      <3> QED
        BY <1>1, <1>5, <2>1, <2>2, <2>3, <3>1 DEF Ups, u
    <2>5. PICK to \in Nat :
            /\ Flow(down, sess["runner"].next, to, sess["runner"].confirmed)
            /\ to = Position("backend")
      BY <1>8, <2>3 DEF Flows, Downs, Numbering, DownFrom, DownLow
    <2>6. Position("backend")' = Position("backend")
      <3>1. Position("backend")' = u.confirmed + IF replaying THEN u.cursor ELSE Len(u.kept)
        BY <2>3 DEF Position, Replaying, u
      <3>2. CASE ~replaying
        BY <1>4, <1>5, <3>1, <3>2 DEF Position, Replaying
      <3>3. CASE replaying
        <4>1. sess["runner"].next <= Position("backend")
          <5>1. down \in Seq(Frame)
            BY <1>8, <2>3, DownShape DEF Numbering
          <5> QED
            BY <2>5, <5>1, FlowBounds
        <4>2. /\ f.ack \in Nat /\ s.confirmed \in Nat /\ s.cursor \in Nat
              /\ sess["runner"].received \in Nat /\ sess["runner"].next \in Nat
              /\ sess["runner"].received <= sess["runner"].next
          BY <1>2, <1>3, <1>8, BothKnow DEF SessionType, Frame
        <4>3. Position("backend") = s.confirmed + s.cursor
          BY <3>3 DEF Position, Replaying
        <4>4. f.ack <= s.confirmed + s.cursor
          BY <2>1, <4>1, <4>2, <4>3
        <4> QED
          BY <1>4, <1>5, <3>1, <3>3, <4>3, <4>4
      <3> QED
        BY <3>2, <3>3
    <2>7. Downs'
      BY <1>1, <1>5, <2>3, <2>5, <2>6 DEF Downs, Numbering, DownFrom, DownLow, Reading
    <2>8. Greetings'
      BY <1>1, <2>3 DEF Greetings
    <2> QED
      BY <1>6, <2>4, <2>7, <2>8 DEF Flows
  <1> QED
    BY <1>7, <1>8

\* The steps that leave the runner without a connection, or the backend without
\* its session.
LEMMA FlowsFault ==
  ASSUME IInv, IInv', Flows, Faults
  PROVE  Flows'
  <1>0. /\ sess \in [End -> SessionType] /\ "runner" \in End /\ "backend" \in End
        /\ sess["runner"].cursor \in Nat /\ NewSession.cursor = 0 /\ Len(NewSession.kept) = 0
    BY DEF IInv, TypeOK, End, SessionType, NewSession
  <1>1. CASE RunnerLoses
    BY <1>1, FlowsDown DEF RunnerLoses, Flows, Cursors
  <1>2. CASE BackendLoses
    BY <1>2, FlowsClose DEF BackendLoses, runnerVars
  <1>3. ASSUME NEW q \in BOOLEAN, OwnerFails(q) PROVE Flows'
    <2>1. phase' = "down"
      BY <1>3 DEF OwnerFails
    <2>2. CASE UNCHANGED sess
      BY <2>1, <2>2, FlowsDown DEF Flows, Cursors
    <2>3. CASE Stamp("runner", NewMessage("runner", TRUE, number["runner"]))
      <3> DEFINE s == sess["runner"]
                 m == NewMessage("runner", TRUE, number["runner"])
      <3>1. sess' = [sess EXCEPT !["runner"] = Stamped(s, m)]
        BY <2>3 DEF Stamp
      <3>2. s \in SessionType /\ m \in Message
        BY <1>0, <2>3, StampTypes DEF IInv, TypeOK
      <3> HIDE DEF m
      <3>3. Stamped(s, m).cursor = s.cursor /\ Stamped(s, m).kept = Append(s.kept, m)
        BY <3>2, StampedFacts DEF Stamped, SessionType
      <3>4. Len(Append(s.kept, m)) = Len(s.kept) + 1 /\ Len(s.kept) \in Nat
        BY <3>2, AppendProperties DEF SessionType
      <3>5. s.cursor <= Len(s.kept)
        BY <1>0 DEF Flows, Cursors
      <3>6. Cursors'
        BY <1>0, <3>1, <3>3, <3>4, <3>5 DEF Flows, Cursors, End
      <3> QED
        BY <2>1, <3>6, FlowsDown
    <2> QED
      BY <1>3, <2>2, <2>3 DEF OwnerFails
  <1>4. CASE RunnerRestarts
    <2>1. sess' = [sess EXCEPT !["runner"] = NewSession] /\ phase' = "down"
      BY <1>4 DEF RunnerRestarts
    <2>2. Cursors'
      BY <1>0, <2>1 DEF Flows, Cursors, End
    <2> QED
      BY <2>1, <2>2, FlowsDown
  <1>5. CASE BackendRestarts
    <2>1. /\ sess' = [sess EXCEPT !["backend"] = NewSession]
          /\ number' = [number EXCEPT !["backend"] = None]
          /\ held' = None /\ pending' = {} /\ UNCHANGED <<conn, phase, down>>
      BY <1>5 DEF BackendRestarts, runnerVars
    <2>2. Cursors'
      BY <1>0, <2>1 DEF Flows, Cursors, End
    <2>3. sess'["runner"] = sess["runner"] /\ number'["runner"] = number["runner"]
      BY <1>0, <2>1 DEF IInv, TypeOK
    <2>4. held' # conn \/ phase \in {"down", "greeting"}
      BY <2>1 DEF IInv, Connections
    <2> QED
      BY <2>1, <2>2, <2>3, <2>4, FlowsApart
  <1> QED
    BY <1>1, <1>2, <1>3, <1>4, <1>5 DEF Faults

\* A runner and a backend that just started carry nothing.
LEMMA FlowsInit == Init => Flows
  <1> SUFFICES ASSUME Init PROVE Flows
    OBVIOUS
  <1>1. \A e \in End : sess[e].cursor = 0 /\ Len(sess[e].kept) = 0
    BY DEF Init, NewSession
  <1> QED
    BY <1>1 DEF Init, Flows, Downs, Ups, Greetings, Cursors, Reading

\* Every step keeps the frames of both wires in turn.
LEMMA FlowsStep == IInv /\ IInv' /\ Flows /\ [Next]_vars => Flows'
  <1> SUFFICES ASSUME IInv, IInv', Flows, [Next]_vars PROVE Flows'
    OBVIOUS
  <1>0. TypeOK /\ TypeOK'
    BY DEF IInv
  <1> USE DEF runnerVars, backendVars, ghostVars
  <1>1. ASSUME NEW e \in End, NEW again \in BOOLEAN, Send(e, again) PROVE Flows'
    <2> DEFINE m == NewMessage(e, again, number[e])
    <2>1. number[e] \in Sessions
      BY <1>0 DEF TypeOK
    <2>2. m \in Message /\ StampAndPut(e, m) /\ Writes(e)
      BY <1>0, <1>1, <2>1, StampTypes DEF Send, StampAndPut
    <2>3. UNCHANGED <<number, conn, phase, held, replaying, pending>>
      BY <1>1 DEF Send
    <2> HIDE DEF m
    <2> QED
      BY <2>2, <2>3, FlowsSend
  <1>2. ASSUME NEW e \in End, SendBacklog(e) PROVE Flows'
    <2> DEFINE m == NewMessage(e, TRUE, Head(backlog[e]))
    <2>1. Head(backlog[e]) \in Sessions
      <3>1. backlog[e] \in Seq(Sessions) /\ backlog[e] # <<>>
        BY <1>0, <1>2 DEF TypeOK, SendBacklog
      <3> QED
        BY <3>1
    <2>2. m \in Message /\ StampAndPut(e, m) /\ Writes(e)
      BY <1>0, <1>2, <2>1, StampTypes DEF SendBacklog, StampAndPut
    <2>3. UNCHANGED <<number, conn, phase, held, replaying, pending>>
      BY <1>2 DEF SendBacklog
    <2> HIDE DEF m
    <2> QED
      BY <2>2, <2>3, FlowsSend
  <1>3. ASSUME UNCHANGED <<sess, number, conn, held, up, down, phase, replaying>>,
               pending' \subseteq pending
        PROVE  Flows'
    BY <1>3, FlowsQuiet DEF Position, Replaying
  <1>4. ASSUME NEW e \in End, Push(e) PROVE Flows'
    BY <1>3, <1>4 DEF Push
  <1>5. ASSUME NEW h \in pending, Refuse(h) \/ Forget(h) PROVE Flows'
    BY <1>3, <1>5 DEF Refuse, Forget
  <1>6. CASE UNCHANGED vars
    BY <1>3, <1>6 DEF vars
  <1>7. ASSUME NEW e \in End, Resend(e) \/ ResendDone(e) \/ WriteAck(e) PROVE Flows'
    BY <1>7, FlowsResend, FlowsResendDone, FlowsAck
  <1>8. CASE Connect \/ RunnerNotices
    BY <1>8, FlowsDown DEF Connect, RunnerNotices, Flows, Cursors
  <1>9. CASE SayHello \/ ReadWelcome \/ RunnerReads \/ RunnerHandles
    BY <1>9, FlowsHello, FlowsWelcome, FlowsRunnerReads, FlowsRunnerHandles
  <1>10. CASE Open
    <2>1. Reading /\ Reading' /\ UNCHANGED <<sess, number, conn, held, up, down, replaying, pending>>
      BY <1>10 DEF Open, Reading
    <2>2. \A e \in End : Position(e)' = Position(e)
      BY <1>10, <2>1 DEF Open, Position, Replaying
    <2> QED
      BY <2>1, <2>2, FlowsQuiet
  <1>11. ASSUME NEW h \in pending, Adopt(h) PROVE Flows'
    BY <1>11, FlowsAdopt
  <1>12. ASSUME NEW h \in pending, GiveWay(h) \/ ProbeMissed(h) PROVE Flows'
    BY <1>12, FlowsClose DEF GiveWay, ProbeMissed
  <1>13. CASE BackendNotices
    BY <1>13, FlowsClose DEF BackendNotices
  <1>14. CASE BackendReads
    BY <1>14, FlowsBackendReads
  <1>15. CASE Faults
    BY <1>15, FlowsFault
  <1> QED
    BY <1>1, <1>2, <1>4, <1>5, <1>6, <1>7, <1>8, <1>9, <1>10, <1>11, <1>12, <1>13, <1>14, <1>15
       DEF Next, Traffic, Runner, Backend, Adoption

\* No frame that reaches an end on a connection both have is a repeat, a gap or
\* confirms what was not written or already let go: whatever the order in which
\* reader, writer, owner and adoption go on, no connection ends by a session error.
THEOREM ConnectionInStep == Spec => []InStep
  <1>1. Init => IInv /\ Flows
    BY IInvInit, FlowsInit
  <1>2. IInv /\ Flows /\ [Next]_vars => IInv' /\ Flows'
    BY IInvStep, FlowsStep
  <1> QED
    BY <1>1, <1>2, FlowsInStep, PTL DEF Spec
====
