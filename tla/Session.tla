------------------------------ MODULE Session ------------------------------
(***************************************************************************)
(* One end of a link session (crates/runner-protocol/src/wire/session.rs): *)
(* the messages it wrote and keeps until the other end confirms them, and  *)
(* the count of the other end's messages it handled.  A session outlives   *)
(* the connections that carry it.  One operator per method; a method that  *)
(* mutates the session is an operator from the old session to the new one. *)
(*                                                                         *)
(* A message is a record whose field again says whether a new connection   *)
(* writes it again (Carriage::Outlasting) or only its number               *)
(* (Carriage::Scoped); Carriage::Connection messages carry no number and   *)
(* never meet this state.  The instant owed_since is the Boolean owed.     *)
(* Counters are u64 in the code; 2^64 messages are out of any link's       *)
(* reach, so they are naturals here.                                       *)
(***************************************************************************)
EXTENDS Naturals, Sequences

CONSTANT Nothing          \* the empty body of a frame that only says a number

\* Session::default: a session nothing was written or received in.
NewSession ==
  [confirmed |-> 0, kept |-> <<>>, cursor |-> 0,
   received |-> 0, next |-> 0, owed |-> FALSE]

\* How many numbered messages this end wrote.
Sent(s) == s.confirmed + Len(s.kept)

\* Whether a connection whose other end received r messages can carry on.
Accepts(s, r) == s.confirmed <= r /\ r <= Sent(s)

\* Mutant of Handled: only the reading of a message owes an acknowledgement.
HandledUnowed(s) == [s EXCEPT !.received = @ + 1]

\* One more of the other end's messages was handled, or skipped in turn.
Handled(s) == [s EXCEPT !.received = @ + 1, !.owed = TRUE]

\* The frame of message number seq; every frame acknowledges what is handled.
NumberedFrame(s, seq, body) ==
  [kind |-> "numbered", seq |-> seq, ack |-> s.received, body |-> body]

\* stamp: numbers message m and keeps it; the frame settles what was owed.
StampFrame(s, m) == NumberedFrame(s, Sent(s), m)
Stamped(s, m) == [s EXCEPT !.kept = Append(@, m), !.owed = FALSE]

\* Mutant of ResendFrame: a scoped message goes again whole.
ResendFrameWhole(s) == NumberedFrame(s, s.confirmed + s.cursor, s.kept[s.cursor + 1])

\* next_resend: the kept message under the cursor, a scoped one as its number.
HasResend(s) == s.cursor < Len(s.kept)
ResendFrame(s) ==
  LET m == s.kept[s.cursor + 1]
  IN  NumberedFrame(s, s.confirmed + s.cursor, IF m.again THEN m ELSE Nothing)
Resent(s) == [s EXCEPT !.cursor = @ + 1, !.owed = FALSE]

\* Mutant of AckFrame: acknowledges what was read, handled or not.
AckFrameEager(s) == [kind |-> "ack", seq |-> 0, ack |-> s.next, body |-> Nothing]

\* ack_frame: the lone acknowledgement.
AckFrame(s) == [kind |-> "ack", seq |-> 0, ack |-> s.received, body |-> Nothing]
Acknowledged(s) == [s EXCEPT !.owed = FALSE]

\* Mutant of Released: the cursor moves without saturating.
ReleasedUnderflows(s, n) ==
  [s EXCEPT !.confirmed = n, !.kept = SubSeq(@, n - s.confirmed + 1, Len(@)),
            !.cursor = @ - (n - s.confirmed)]

\* release: the other end confirmed n messages; Regressed and Confirmed are
\* the numbers it refuses.  The cursor counts kept messages, so it moves with
\* the front (saturating at zero).
Releasable(s, n) == Accepts(s, n)
Released(s, n) ==
  LET gone == n - s.confirmed
  IN  [s EXCEPT !.confirmed = n,
                !.kept = SubSeq(@, gone + 1, Len(@)),
                !.cursor = IF @ < gone THEN 0 ELSE @ - gone]

\* Mutant of Resumed: what was read and dropped is not read again.
ResumedReadsOn(s, r) == [Released(s, r) EXCEPT !.cursor = 0]

\* resume: a new connection whose other end received r messages.
Resumed(s, r) == [Released(s, r) EXCEPT !.cursor = 0, !.next = s.received]

\* read: what one numbered or ack frame says, and the session after it.  The
\* confirmation is released first, and a gap leaves it released.
Verdict(s, f) ==
  IF ~Releasable(s, f.ack) THEN "error"
  ELSE IF f.kind = "ack" THEN "ack"
  ELSE IF f.seq < s.next THEN "duplicate"
  ELSE IF f.seq > s.next THEN "error"
  ELSE IF f.body = Nothing THEN "skipped" ELSE "message"

AfterRead(s, f) ==
  LET t == Released(s, f.ack)
  IN  IF ~Releasable(s, f.ack) THEN s
      ELSE IF f.kind = "ack" THEN t
      ELSE [t EXCEPT !.owed = TRUE, !.next = IF f.seq = s.next THEN @ + 1 ELSE @]
=============================================================================
