-------------------------------- MODULE Link --------------------------------
(***************************************************************************)
(* The link between a device's runner and the backend: a session that      *)
(* resumes over connections which drop, are replaced and are refused.      *)
(*                                                                         *)
(* Runner end: the registration's reconnect loop, the transport's reader   *)
(* and writer (runner/src/connection/transport.rs), the connection's owner *)
(* (owner.rs) and the link state they share (link_state.rs).               *)
(* Backend end: the socket's first message (backend-http runner_socket.rs),*)
(* the adoption of a hello (backend-user-shard adoption.rs), the device's  *)
(* session (runner-client session.rs) and the link's driver (link.rs).     *)
(*                                                                         *)
(* The runner has one connection at a time, conn; the backend serves one,  *)
(* held, which may be one the runner already lost.  up holds the frames    *)
(* the runner wrote to the held connection, down those the backend wrote   *)
(* to the runner's: TCP keeps each in order and loses it only whole, with  *)
(* its connection.  What an end writes to a connection the other end does  *)
(* not have goes nowhere.                                                  *)
(***************************************************************************)
EXTENDS Session, FiniteSets

CONSTANTS
  MaxConns,      \* connections the runner opens
  MaxSessions,   \* session numbers the backend draws
  MaxMessages,   \* messages of each end in one session
  MaxFaults      \* lost connections, restarts and owner errors

ASSUME LinkBounds ==
  /\ MaxConns \in Nat /\ MaxSessions \in Nat
  /\ MaxMessages \in [{"runner", "backend"} -> Nat] /\ MaxFaults \in Nat

End == {"runner", "backend"}
Other(e) == IF e = "runner" THEN "backend" ELSE "runner"

None == 0                            \* no session number, instance, connection
Sessions == 0 .. MaxSessions
Conns == 0 .. MaxConns

VARIABLES
  sess,       \* each end's numbers of the session (Session)
  backlog,    \* each end's messages of calls that wait for a connection
  number,     \* the session's number as each end knows it
  instance,   \* the runner's start
  known,      \* the runner start whose session the backend has
  drawn,      \* the session numbers drawn so far: each is new (uuid v4)
  conn,       \* the runner's connection, the last it opened
  phase,      \* what the runner's writer may write on it
  early,      \* whether a frame went to it before its hello
  inbox,      \* the arrivals its reader read and its owner did not route
  ended,      \* a session of the runner's ended and its calls do not know yet
  pending,    \* the hellos the backend has not answered
  held,       \* the connection the backend serves
  replaying,  \* the backend's writer still writes again what it kept
  up, down,   \* the frames on the way to the backend and to the runner
  faults,     \* faults so far
  hist,       \* by session: what each end wrote, in order
  log         \* by session: what each end handled, in order

runnerVars  == <<conn, phase, early, inbox, ended, instance>>
backendVars == <<known, drawn, pending, held, replaying>>
ghostVars   == <<hist, log>>
vars == <<sess, backlog, number, runnerVars, backendVars, up, down, faults, ghostVars>>

-----------------------------------------------------------------------------
(* Messages, frames and arrivals.                                          *)

\* A numbered message: its place in the session it was written in, whether it
\* outlasts its connection, the connection it was first written to, and the
\* session it was made in.
Message == [id : Nat, again : BOOLEAN, conn : Conns, born : Sessions]

\* Frames of the session, and the answer to a hello.
Frame ==
  [kind : {"numbered", "ack"}, seq : Nat, ack : Nat, body : Message \cup {Nothing}]
Welcome == [kind : {"hello_ok"}, session : Sessions, received : Nat]

\* What the runner's reader hands the owner.
WelcomeArrival == [kind |-> "welcome", body |-> Nothing]
Arrival == [kind : {"welcome", "numbered"}, body : Message \cup {Nothing}]

\* What an end handled, and on which connection.
Entry == [body : Message \cup {Nothing}, conn : Conns]

\* A hello, which names the session it carries on, if any.
Hello == [conn : Conns, instance : Nat, session : Sessions, received : Nat]

\* Both ends have the connection.
Live == held = conn /\ phase # "down"

\* The backend neither serves the runner's connection nor will answer its hello.
Unheard == held # conn /\ \A h \in pending : h.conn # conn

\* A step of the world outside the program, of which there are few.
Fault == faults < MaxFaults /\ faults' = faults + 1

-----------------------------------------------------------------------------
Init ==
  /\ sess = [e \in End |-> NewSession]
  /\ backlog = [e \in End |-> <<>>]
  /\ number = [e \in End |-> None]
  /\ instance = 1 /\ known = None /\ drawn = 0
  /\ conn = None /\ phase = "down" /\ early = FALSE
  /\ inbox = <<>> /\ ended = FALSE
  /\ pending = {} /\ held = None /\ replaying = FALSE
  /\ up = <<>> /\ down = <<>>
  /\ faults = 0
  /\ hist = [s \in Sessions |-> [e \in End |-> <<>>]]
  /\ log = [s \in Sessions |-> [e \in End |-> <<>>]]

-----------------------------------------------------------------------------
(* Writing.                                                                *)

\* The frame f of end e leaves: it arrives only where the other end has the
\* connection.
PutUp(f) == up' = IF held = conn THEN Append(up, f) ELSE up
PutDown(f) == down' = IF Live THEN Append(down, f) ELSE down

Put(e, f) ==
  IF e = "runner" THEN PutUp(f) /\ down' = down ELSE PutDown(f) /\ up' = up

\* The connection end e writes to.
ConnOf(e) == IF e = "runner" THEN conn ELSE held

\* The writer of e takes new messages: the runner's once its hello is
\* answered, and either only after what it kept went again.
Writes(e) == IF e = "runner" THEN phase = "open" ELSE held # None /\ ~replaying

NewMessage(e, again, born) ==
  [id |-> Len(hist[number[e]][e]) + 1, again |-> again, conn |-> ConnOf(e), born |-> born]

Room(e) == Len(hist[number[e]][e]) + Len(backlog[e]) < MaxMessages[e]

\* A message is numbered and kept before it is written, so a write that fails
\* halfway leaves it kept.
Stamp(e, m) ==
  /\ sess' = [sess EXCEPT ![e] = Stamped(@, m)]
  /\ hist' = [hist EXCEPT ![number[e]][e] = Append(@, m)]

StampAndPut(e, m) == Stamp(e, m) /\ Put(e, StampFrame(sess[e], m))

\* A message of the connection's own queues, control, output or input.
Send(e, again) ==
  /\ Writes(e)
  /\ Room(e)
  /\ StampAndPut(e, NewMessage(e, again, number[e]))
  /\ UNCHANGED <<backlog, number, runnerVars, backendVars, faults, log>>

\* A call's message waits in the backlog, with a connection or without.
Push(e) ==
  /\ number[e] # None
  /\ Room(e)
  /\ backlog' = [backlog EXCEPT ![e] = Append(@, number[e])]
  /\ UNCHANGED <<sess, number, runnerVars, backendVars, up, down, faults, ghostVars>>

\* The writer takes the oldest message of the backlog.
SendBacklog(e) ==
  /\ Writes(e)
  /\ backlog[e] # <<>>
  /\ StampAndPut(e, NewMessage(e, TRUE, Head(backlog[e])))
  /\ backlog' = [backlog EXCEPT ![e] = Tail(@)]
  /\ UNCHANGED <<number, runnerVars, backendVars, faults, log>>

\* The writer of e writes again what it kept, before anything new.
Replays(e) ==
  IF e = "runner" THEN phase = "resending" ELSE held # None /\ replaying

Resend(e) ==
  /\ Replays(e)
  /\ HasResend(sess[e])
  /\ sess' = [sess EXCEPT ![e] = Resent(@)]
  /\ Put(e, ResendFrame(sess[e]))
  /\ UNCHANGED <<backlog, number, runnerVars, backendVars, faults, ghostVars>>

ResendDone(e) ==
  /\ Replays(e)
  /\ ~HasResend(sess[e])
  /\ IF e = "runner"
       THEN phase' = "open" /\ replaying' = replaying
       ELSE replaying' = FALSE /\ phase' = phase
  /\ UNCHANGED <<sess, backlog, number, conn, early, inbox, ended, instance,
                 known, drawn, pending, held, up, down, faults, ghostVars>>

\* The lone acknowledgement, once ACK_DELAY passed.  The runner's writer takes
\* it in every phase but the loop that writes again; on a connection that said
\* nothing yet it goes before the hello.
Acks(e) ==
  IF e = "runner" THEN phase \notin {"down", "resending"} ELSE held # None /\ ~replaying

WriteAck(e) ==
  /\ Acks(e)
  /\ sess[e].owed
  /\ sess' = [sess EXCEPT ![e] = Acknowledged(@)]
  /\ Put(e, AckFrame(sess[e]))
  /\ early' = (early \/ (e = "runner" /\ phase = "greeting"))
  /\ UNCHANGED <<backlog, number, conn, phase, inbox, ended, instance,
                 backendVars, faults, ghostVars>>

-----------------------------------------------------------------------------
(* The runner's connection.                                                *)

\* Mutant of Connect: does not wait for the owner of the connection before.
ConnectAtOnce ==
  /\ phase = "down" /\ conn < MaxConns
  /\ conn' = conn + 1
  /\ phase' = "greeting" /\ early' = FALSE
  /\ UNCHANGED <<sess, backlog, number, inbox, ended, instance,
                 backendVars, up, down, faults, ghostVars>>

\* The reconnect loop opens the next connection once the one before ended and
\* its owner routed or dropped what was read.
Connect ==
  /\ phase = "down" /\ inbox = <<>>
  /\ conn < MaxConns
  /\ conn' = conn + 1
  /\ phase' = "greeting" /\ early' = FALSE
  /\ UNCHANGED <<sess, backlog, number, inbox, ended, instance,
                 backendVars, up, down, faults, ghostVars>>

\* The hello names the session the runner holds.  A retry waits 250 ms, so an
\* acknowledgement owed since an earlier connection is due and goes first: the
\* backend closes a socket whose first message is not a hello and never reads
\* the hello behind it.
SayHello ==
  LET h == [conn |-> conn, instance |-> instance, session |-> number["runner"],
            received |-> sess["runner"].received]
  IN  /\ phase = "greeting"
      /\ ~sess["runner"].owed
      /\ phase' = "waiting"
      /\ pending' = IF early THEN pending ELSE pending \cup {h}
      /\ UNCHANGED <<sess, backlog, number, conn, early, inbox, ended, instance,
                     known, drawn, held, replaying, up, down, faults, ghostVars>>

\* Mutant of HelloOk: what waits outlives the session it waits for.
HelloOkKeepsBacklog(n, r) ==
  LET resumed == number["runner"] = n /\ Accepts(sess["runner"], r)
  IN  /\ sess' = [sess EXCEPT !["runner"] =
                    IF resumed THEN Resumed(@, r) ELSE NewSession]
      /\ backlog' = backlog
      /\ ended' = (ended \/ (~resumed /\ number["runner"] # None))
      /\ number' = [number EXCEPT !["runner"] = n]

\* The answer to the hello resumes the session of the same number, and starts
\* any other anew: what was kept and what waits is dropped, and the calls of a
\* session the runner had are told once the owner routes the answer.
HelloOk(n, r) ==
  LET resumed == number["runner"] = n /\ Accepts(sess["runner"], r)
  IN  /\ sess' = [sess EXCEPT !["runner"] =
                    IF resumed THEN Resumed(@, r) ELSE NewSession]
      /\ backlog' = [backlog EXCEPT !["runner"] = IF resumed THEN @ ELSE <<>>]
      /\ ended' = (ended \/ (~resumed /\ number["runner"] # None))
      /\ number' = [number EXCEPT !["runner"] = n]

ReadWelcome ==
  /\ phase = "waiting"
  /\ down # <<>> /\ Head(down).kind = "hello_ok"
  /\ HelloOk(Head(down).session, Head(down).received)
  /\ down' = Tail(down)
  /\ inbox' = Append(inbox, WelcomeArrival)
  /\ phase' = "answered"
  /\ UNCHANGED <<conn, early, instance, backendVars, up, faults, ghostVars>>

\* The writer sees that the hello is answered.
Open ==
  /\ phase = "answered"
  /\ phase' = "resending"
  /\ UNCHANGED <<sess, backlog, number, conn, early, inbox, ended, instance,
                 backendVars, up, down, faults, ghostVars>>

\* The reader reads one frame; what it hands the owner waits in the inbox,
\* and a session error ends the connection.
RunnerReads ==
  LET s == sess["runner"]
      f == Head(down)
      v == Verdict(s, f)
  IN  /\ phase \in {"answered", "resending", "open"}
      /\ down # <<>> /\ f.kind # "hello_ok"
      /\ sess' = [sess EXCEPT !["runner"] = AfterRead(s, f)]
      /\ inbox' = IF v \in {"message", "skipped"}
                    THEN Append(inbox, [kind |-> "numbered", body |-> f.body])
                    ELSE inbox
      /\ IF v = "error"
           THEN phase' = "down" /\ down' = <<>>
           ELSE phase' = phase /\ down' = Tail(down)
      /\ UNCHANGED <<backlog, number, conn, early, ended, instance,
                     backendVars, up, faults, hist, log>>

\* The owner routes the oldest arrival and then counts it; it goes on with
\* what was read after the connection ended.
RunnerHandles ==
  /\ inbox # <<>>
  /\ inbox' = Tail(inbox)
  /\ IF Head(inbox).kind = "welcome"
       THEN ended' = FALSE /\ UNCHANGED <<sess, log>>
       ELSE /\ sess' = [sess EXCEPT !["runner"] = Handled(@)]
            /\ log' = [log EXCEPT ![number["runner"]]["runner"] =
                         Append(@, [body |-> Head(inbox).body, conn |-> conn])]
            /\ ended' = ended
  /\ UNCHANGED <<backlog, number, conn, phase, early, instance,
                 backendVars, up, down, faults, hist>>

-----------------------------------------------------------------------------
(* The backend's adoption of a hello.                                      *)

\* Whether hello h carries the backend's session on.
Resumes(h) ==
  /\ h.session # None
  /\ known = h.instance
  /\ h.session = number["backend"]
  /\ Accepts(sess["backend"], h.received)

\* Mutant of Begin: a session started anew keeps its number.
BeginSameNumber(h) ==
  IF Resumes(h)
    THEN /\ sess' = [sess EXCEPT !["backend"] = Resumed(@, h.received)]
         /\ UNCHANGED <<backlog, number, known, drawn>>
    ELSE /\ drawn' = 1
         /\ sess' = [sess EXCEPT !["backend"] = NewSession]
         /\ backlog' = [backlog EXCEPT !["backend"] = <<>>]
         /\ number' = [number EXCEPT !["backend"] = 1]
         /\ known' = h.instance

\* DeviceSession::begin: carries the session on, or starts it anew under a new
\* number, dropping what was kept and what waits.
Begin(h) ==
  IF Resumes(h)
    THEN /\ sess' = [sess EXCEPT !["backend"] = Resumed(@, h.received)]
         /\ UNCHANGED <<backlog, number, known, drawn>>
    ELSE /\ drawn < MaxSessions
         /\ drawn' = drawn + 1
         /\ sess' = [sess EXCEPT !["backend"] = NewSession]
         /\ backlog' = [backlog EXCEPT !["backend"] = <<>>]
         /\ number' = [number EXCEPT !["backend"] = drawn']
         /\ known' = h.instance

\* The hello is answered and its connection served; nothing awaits between the
\* check that no connection is held and the session's beginning.  The welcome
\* is the connection's first message.
Adopt(h) ==
  /\ h \in pending
  /\ held = None
  /\ pending' = pending \ {h}
  /\ Begin(h)
  /\ held' = h.conn /\ replaying' = TRUE
  /\ up' = <<>>
  /\ down' = IF h.conn = conn /\ phase = "waiting"
               THEN <<[kind |-> "hello_ok", session |-> number'["backend"],
                       received |-> sess'["backend"].received]>>
               ELSE down
  /\ UNCHANGED <<runnerVars, faults, ghostVars>>

\* A held connection gives way: at once to a hello that resumes the session,
\* otherwise when it does not answer the probe in time.  Its teardown ends
\* before the device is settled and the hello goes on.
GiveWay(h) ==
  /\ h \in pending
  /\ held # None
  /\ Resumes(h) \/ ~Live
  /\ held' = None /\ replaying' = FALSE
  /\ up' = <<>>
  /\ UNCHANGED <<sess, backlog, number, runnerVars, known, drawn, pending,
                 down, faults, ghostVars>>

\* A connection the runner has misses the probe all the same.
ProbeMissed(h) ==
  /\ Fault
  /\ h \in pending
  /\ Live /\ ~Resumes(h)
  /\ held' = None /\ replaying' = FALSE
  /\ up' = <<>>
  /\ UNCHANGED <<sess, backlog, number, runnerVars, known, drawn, pending,
                 down, ghostVars>>

\* A held connection that answers the probe keeps the device, and the hello is
\* refused with already_connected, which ends its connection.
Refuse(h) ==
  /\ h \in pending
  /\ Live /\ ~Resumes(h)
  /\ pending' = pending \ {h}
  /\ UNCHANGED <<sess, backlog, number, runnerVars, known, drawn, held, replaying,
                 up, down, faults, ghostVars>>

\* The socket of a hello was seen to close before the hello was answered.
Forget(h) ==
  /\ h \in pending
  /\ ~(h.conn = conn /\ phase = "waiting")
  /\ pending' = pending \ {h}
  /\ UNCHANGED <<sess, backlog, number, runnerVars, known, drawn, held, replaying,
                 up, down, faults, ghostVars>>

\* The driver reads one frame and handles what it carries at once; nothing
\* awaits between.  A session error ends the connection.
BackendReads ==
  LET s == sess["backend"]
      f == Head(up)
      v == Verdict(s, f)
      t == AfterRead(s, f)
      took == v \in {"message", "skipped"}
  IN  /\ held # None
      /\ up # <<>>
      /\ sess' = [sess EXCEPT !["backend"] = IF took THEN Handled(t) ELSE t]
      /\ log' = IF took
                  THEN [log EXCEPT ![number["backend"]]["backend"] =
                          Append(@, [body |-> f.body, conn |-> held])]
                  ELSE log
      /\ IF v = "error"
           THEN held' = None /\ replaying' = FALSE /\ up' = <<>>
           ELSE up' = Tail(up) /\ UNCHANGED <<held, replaying>>
      /\ UNCHANGED <<backlog, number, runnerVars, known, drawn, pending,
                     down, faults, hist>>

-----------------------------------------------------------------------------
(* Connections that end.                                                   *)

\* The runner sees that the backend no longer has its connection: a close, a
\* refusal, a first message that was no hello, or silence.
RunnerNotices ==
  /\ phase # "down" /\ Unheard
  /\ phase # "greeting" \/ early
  /\ phase' = "down" /\ down' = <<>>
  /\ UNCHANGED <<sess, backlog, number, conn, early, inbox, ended, instance,
                 backendVars, up, faults, ghostVars>>

\* The backend sees that the runner no longer has the held connection.
BackendNotices ==
  /\ held # None /\ ~Live
  /\ held' = None /\ replaying' = FALSE
  /\ up' = <<>>
  /\ UNCHANGED <<sess, backlog, number, runnerVars, known, drawn, pending,
                 down, faults, ghostVars>>

\* The network loses the runner's connection, or a write or a read times out.
RunnerLoses ==
  /\ Fault
  /\ phase # "down"
  /\ phase' = "down" /\ down' = <<>>
  /\ UNCHANGED <<sess, backlog, number, conn, early, inbox, ended, instance,
                 backendVars, up, ghostVars>>

\* The same at the backend's end: silence, a stalled write, a shard's close.
BackendLoses ==
  /\ Fault
  /\ held # None
  /\ held' = None /\ replaying' = FALSE
  /\ up' = <<>>
  /\ UNCHANGED <<sess, backlog, number, runnerVars, known, drawn, pending,
                 down, ghostVars>>

\* The owner ends the connection over an error of its own or a refused hello:
\* what it did not route is dropped, and what its queues hold is numbered and
\* written, in whatever phase the writer was, before the close.  A runner told
\* to stop does the same and then restarts.
OwnerFails(queued) ==
  /\ Fault
  /\ phase \in {"answered", "resending", "open"} \/ (phase = "waiting" /\ Unheard)
  /\ phase' = "down" /\ inbox' = <<>>
  /\ IF queued
       THEN LET m == NewMessage("runner", TRUE, number["runner"])
            IN  Room("runner") /\ Stamp("runner", m) /\ PutUp(StampFrame(sess["runner"], m))
       ELSE UNCHANGED <<sess, hist, up>>
  /\ down' = <<>>
  /\ UNCHANGED <<backlog, number, conn, early, ended, instance,
                 backendVars, log>>

\* The runner's process starts again, knowing nothing of its session.
RunnerRestarts ==
  /\ Fault
  /\ instance' = instance + 1
  /\ sess' = [sess EXCEPT !["runner"] = NewSession]
  /\ backlog' = [backlog EXCEPT !["runner"] = <<>>]
  /\ number' = [number EXCEPT !["runner"] = None]
  /\ phase' = "down" /\ inbox' = <<>> /\ ended' = FALSE /\ early' = FALSE
  /\ down' = <<>>
  /\ UNCHANGED <<conn, backendVars, up, ghostVars>>

\* The backend's process starts again: every connection and every hello goes.
BackendRestarts ==
  /\ Fault
  /\ sess' = [sess EXCEPT !["backend"] = NewSession]
  /\ backlog' = [backlog EXCEPT !["backend"] = <<>>]
  /\ number' = [number EXCEPT !["backend"] = None]
  /\ known' = None
  /\ pending' = {} /\ held' = None /\ replaying' = FALSE
  /\ up' = <<>>
  /\ UNCHANGED <<runnerVars, drawn, down, ghostVars>>

-----------------------------------------------------------------------------
Traffic ==
  \E e \in End :
    \/ \E again \in BOOLEAN : Send(e, again)
    \/ Push(e) \/ SendBacklog(e)
    \/ Resend(e) \/ ResendDone(e) \/ WriteAck(e)

Runner == Connect \/ SayHello \/ ReadWelcome \/ Open \/ RunnerReads \/ RunnerHandles
            \/ RunnerNotices

Adoption ==
  \E h \in pending : Adopt(h) \/ GiveWay(h) \/ ProbeMissed(h) \/ Refuse(h) \/ Forget(h)

Backend == Adoption \/ BackendReads \/ BackendNotices

Faults == RunnerLoses \/ BackendLoses \/ (\E q \in BOOLEAN : OwnerFails(q))
            \/ RunnerRestarts \/ BackendRestarts

Next == Traffic \/ Runner \/ Backend \/ Faults

Spec == Init /\ [][Next]_vars

\* Every task of either end that can go on does: its loop polls it and its
\* socket, timer or queue wakes it.  The task of a hello waits for the device
\* to settle, which other hellos may unsettle between, so it is strongly fair.
\* Nothing forces traffic or faults.
Fairness ==
  /\ \A e \in End :
       /\ WF_vars(SendBacklog(e))
       /\ WF_vars(Resend(e)) /\ WF_vars(ResendDone(e))
       /\ WF_vars(WriteAck(e))
  /\ WF_vars(Connect) /\ WF_vars(SayHello) /\ WF_vars(ReadWelcome) /\ WF_vars(Open)
  /\ WF_vars(RunnerReads) /\ WF_vars(RunnerHandles) /\ WF_vars(RunnerNotices)
  /\ WF_vars(BackendReads) /\ WF_vars(BackendNotices)
  /\ \A c \in 1 .. MaxConns :
       /\ SF_vars(\E h \in pending : h.conn = c /\ Adopt(h))
       /\ WF_vars(\E h \in pending : h.conn = c /\ GiveWay(h))

FairSpec == Spec /\ Fairness

-----------------------------------------------------------------------------
(* What holds.                                                             *)

\* The fields of wire/session.rs Session.
SessionType ==
  [confirmed : Nat, kept : Seq(Message), cursor : Nat,
   received : Nat, next : Nat, owed : BOOLEAN]

\* Every variable is in its domain: no operation of either end underflows a
\* counter of the session or leaves a queue, a wire or a hello of another kind.
TypeOK ==
  /\ sess \in [End -> SessionType]
  /\ backlog \in [End -> Seq(Sessions)]
  /\ number \in [End -> Sessions]
  /\ instance \in Nat /\ known \in Nat /\ drawn \in Sessions
  /\ conn \in Conns /\ early \in BOOLEAN /\ ended \in BOOLEAN
  /\ phase \in {"down", "greeting", "waiting", "answered", "resending", "open"}
  /\ inbox \in Seq(Arrival)
  /\ pending \in SUBSET Hello
  /\ held \in Conns /\ replaying \in BOOLEAN
  /\ up \in Seq(Frame) /\ down \in Seq(Frame \cup Welcome)
  /\ faults \in Nat
  /\ hist \in [Sessions -> [End -> Seq(Message)]]
  /\ log \in [Sessions -> [End -> Seq(Entry)]]

\* Each end handles the other's messages of a session once each, in the order
\* they were written, whatever connections carried them: a message that does
\* not outlast its connection may come as nothing, in its turn.
ExactlyOnce ==
  \A s \in Sessions, e \in End :
    LET wrote == hist[s][Other(e)]
        handled == log[s][e]
    IN  /\ Len(handled) <= Len(wrote)
        /\ \A i \in 1 .. Len(handled) :
             \/ handled[i].body = wrote[i]
             \/ handled[i].body = Nothing /\ ~wrote[i].again

\* A message whose work ends with its connection is never run by a later one.
ScopedOnItsConnection ==
  \A s \in Sessions, e \in End : \A i \in 1 .. Len(log[s][e]) :
    LET entry == log[s][e][i]
    IN  entry.body = Nothing \/ entry.body.again \/ entry.body.conn = entry.conn

\* An end lets go only of what the other end handled, and keeps the rest as it
\* wrote it: nothing read and dropped with its connection is lost.
NothingLost ==
  \A e \in End : number[e] # None =>
    LET s == sess[e]
        wrote == hist[number[e]][e]
    IN  /\ s.confirmed <= Len(log[number[e]][Other(e)])
        /\ s.kept = SubSeq(wrote, s.confirmed + 1, Len(wrote))

\* On a connection both ends have, the next frame is the next message and
\* confirms what its reader can confirm: no repeat, no gap, no session error.
InStep ==
  /\ (down # <<>> /\ Head(down).kind # "hello_ok" /\ phase # "waiting") =>
       Verdict(sess["runner"], Head(down)) \notin {"error", "duplicate"}
  /\ (Live /\ up # <<>>) =>
       Verdict(sess["backend"], Head(up)) \notin {"error", "duplicate"}

\* A backend that carries the session on is answered by a runner that does.
WelcomeAccepted ==
  (down # <<>> /\ Head(down).kind = "hello_ok" /\ Head(down).session = number["runner"])
    => Accepts(sess["runner"], Head(down).received)

\* The runner's calls hear that their session ended before any message of the
\* next one is routed.
EndedFirst ==
  (inbox # <<>> /\ Head(inbox).kind = "numbered") => ~ended

\* What waited in a backlog when its session ended is not written in another.
BacklogOfSession ==
  \A s \in Sessions, e \in End : \A i \in 1 .. Len(hist[s][e]) : hist[s][e][i].born = s

\* Only the hello goes to a connection before the backend answers it.
OnlyHelloBeforeAnswer == phase \in {"greeting", "waiting"} => ~early

\* What an end wrote in a session is handled by the other and confirmed, over
\* however many connections, unless the session ends first.
EventuallyConfirmed ==
  \A s \in 1 .. MaxSessions, e \in End : \A i \in 1 .. MaxMessages[e] :
    (number["runner"] = s /\ number["backend"] = s /\ Len(hist[s][e]) >= i)
      ~> \/ number["runner"] # s \/ number["backend"] # s
         \/ sess[e].confirmed >= i
=============================================================================
