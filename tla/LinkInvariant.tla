---------------------------- MODULE LinkInvariant ----------------------------
(***************************************************************************)
(* The inductive invariant behind the link's safety properties.  It says   *)
(* what every frame on the wire, every arrival in the inbox and every      *)
(* hello and welcome under way may claim of the session it belongs to, and *)
(* which connections the two ends can be on.                               *)
(***************************************************************************)
EXTENDS Link

Reading == phase \in {"answered", "resending", "open"}

\* body stands for message i of the writer's messages w, read on connection c.
Carried(body, i, w, c) ==
  /\ i \in 1 .. Len(w)
  /\ \/ body = w[i] /\ (w[i].again \/ w[i].conn = c)
     \/ body = Nothing /\ ~w[i].again

\* Frame f is of session n, written by e to connection c.
FrameOf(f, n, e, c) ==
  /\ f.ack <= Len(log[n][e])
  /\ f.kind = "numbered" => Carried(f.body, f.seq + 1, hist[n][e], c)

\* The kept messages of session s are the unconfirmed ones of w.
Tracks(s, w) ==
  /\ Sent(s) = Len(w)
  /\ \A i \in 1 .. Len(s.kept) : s.kept[i] = w[s.confirmed + i]

\* Which connections the ends are on, and whose hellos are under way.
Connections ==
  /\ held <= conn
  /\ phase = "greeting" => held # conn
  /\ phase # "down" => conn # None
  /\ held = None => up = <<>>
  /\ phase \in {"down", "greeting"} => down = <<>>
  /\ phase \in {"greeting", "waiting"} => inbox = <<>>
  /\ \A h \in pending :
       /\ h.conn # None /\ h.conn <= conn /\ h.conn # held
       /\ h.conn = conn => phase \in {"waiting", "down"} /\ down = <<>>
  /\ \A h, k \in pending : h.conn = k.conn => h = k

\* Numbers are drawn once, and nothing happened in a session not begun.
Numbers ==
  /\ \A e \in End : number[e] <= drawn
  /\ held # None => number["backend"] # None
  /\ Reading => number["runner"] # None
  /\ inbox # <<>> => number["runner"] # None
  /\ (held = conn /\ Reading) => number["runner"] = number["backend"]
  /\ \A n \in Sessions : n > drawn => \A e \in End : hist[n][e] = <<>> /\ log[n][e] = <<>>

\* A hello under way counts only what its session's runner handled.
Hellos ==
  \A h \in pending :
    /\ h.session <= drawn
    /\ h.session # None => h.received <= Len(log[h.session]["runner"])
    /\ (h.conn = conn /\ phase = "waiting") => h.session = number["runner"]

\* A welcome under way is the first frame of its connection, and names either
\* the session the runner holds, which it can carry on, or one it never had.
Welcomes ==
  phase = "waiting" =>
    /\ ~sess["runner"].owed
    /\ held = conn => down # <<>>
    /\ down # <<>> =>
         /\ Head(down).kind = "hello_ok"
         /\ Head(down).session # None /\ Head(down).session <= drawn
         /\ held = conn => Head(down).session = number["backend"]
         /\ Head(down).received <= Len(log[Head(down).session]["backend"])
         /\ IF Head(down).session = number["runner"]
              THEN Accepts(sess["runner"], Head(down).received)
              ELSE /\ hist[Head(down).session]["runner"] = <<>>
                   /\ log[Head(down).session]["runner"] = <<>>

\* Every frame under way says what its writer wrote in the reader's session.
DownSession == IF phase = "waiting" THEN Head(down).session ELSE number["runner"]

Wires ==
  /\ \A i \in 1 .. Len(up) : FrameOf(up[i], number["backend"], "runner", held)
  /\ \A i \in 1 .. Len(down) :
       IF phase = "waiting" /\ i = 1 THEN TRUE
       ELSE down[i].kind # "hello_ok" /\ FrameOf(down[i], DownSession, "backend", conn)

\* Each end's numbers agree with what was written and handled.
Ends ==
  /\ \A e \in End : number[e] # None =>
       /\ Tracks(sess[e], hist[number[e]][e])
       /\ sess[e].received = Len(log[number[e]][e])
       /\ sess[e].confirmed <= Len(log[number[e]][Other(e)])
  /\ sess["backend"].next = sess["backend"].received

\* What the runner read and did not route are the messages after those it did.
Welcomed == IF inbox # <<>> /\ inbox[1].kind = "welcome" THEN 1 ELSE 0

Inboxes ==
  /\ \A j \in 2 .. Len(inbox) : inbox[j].kind = "numbered"
  /\ \A j \in 1 .. Len(inbox) : j > Welcomed =>
       Carried(inbox[j].body, sess["runner"].received + j - Welcomed,
               hist[number["runner"]]["backend"], conn)
  /\ Reading => sess["runner"].next = sess["runner"].received + Len(inbox) - Welcomed

\* What was handled is what was written, in order.
Logs ==
  \A n \in Sessions, e \in End :
    /\ Len(log[n][e]) <= Len(hist[n][Other(e)])
    /\ \A i \in 1 .. Len(log[n][e]) :
         Carried(log[n][e][i].body, i, hist[n][Other(e)], log[n][e][i].conn)

\* The conjunction, which every step of either end keeps: what is under way
\* between the ends never claims more than the histories of its session.
IInv ==
  /\ TypeOK /\ Connections /\ Numbers /\ Hellos /\ Welcomes
  /\ Wires /\ Ends /\ Inboxes /\ Logs
=============================================================================
